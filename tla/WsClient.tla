------------------------------- MODULE WsClient -------------------------------
(***************************************************************************)
(* The web socket client of the C# library                                 *)
(* (src/TinyphoneCSharpClient/Services/TinyphoneWebSocketService.cs):      *)
(* StartListeningAsync runs on beside the calls its user makes one after   *)
(* the other.  Both sides write Status and the field _webSocket without a  *)
(* lock, and a step here is what lies between two looks at them.           *)
(*                                                                         *)
(* The sockets are those of .NET: a ClientWebSocket is connected once, its *)
(* State is "open" in between, and disposing it or cancelling an operation *)
(* on it ends it.  The server accepts, refuses, answers or goes away.      *)
(*                                                                         *)
(* StartListeningAsync runs on its caller until it awaits something, and   *)
(* is not called again before it has ended: a second listener would take   *)
(* over _cancellationTokenSource and _receiveTask, and is not modelled.    *)
(***************************************************************************)
EXTENDS Naturals, FiniteSets

CONSTANTS
    Socket,    \* ClientWebSocket objects; one nobody refers to is used again
    NoSocket,  \* null
    MaxCalls   \* bound on the calls of the user

ASSUME ClientAssumption ==
    /\ IsFiniteSet(Socket) /\ Cardinality(Socket) >= 3
    /\ NoSocket \notin Socket
    /\ MaxCalls \in Nat

Task == {"listener", "user"}

VARIABLES
    status,    \* Status
    ws,        \* _webSocket
    state,     \* the State of each socket
    token,     \* _cancellationTokenSource
    receive,   \* _receiveTask
    disposed,  \* _disposed
    pc,        \* what each task does next
    mine,      \* the socket it waits for
    calls      \* how many calls the user has made

vars == <<status, ws, state, token, receive, disposed, pc, mine, calls>>

\* Inside ConnectAsync, once it has said that it connects.
Attempt == {"drop", "renew", "start", "connecting", "connected", "failed"}
ListenerPC == {"idle", "loop", "receive", "receiving", "left", "threw", "caught", "delay"}
UserPC == {"idle", "listen", "close", "closing", "cancel", "join", "closed"}

TypeOK ==
    /\ status \in {"Disconnected", "Connecting", "Connected", "Reconnecting", "Failed"}
    /\ ws \in Socket \union {NoSocket}
    /\ state \in [Socket -> {"none", "connecting", "open", "closeSent", "closeReceived", "closed", "aborted"}]
    /\ token \in {"null", "live", "cancelled"}
    /\ receive \in {"null", "running", "done", "failed"}
    /\ disposed \in BOOLEAN
    /\ pc \in [Task -> {"test", "set"} \union Attempt \union ListenerPC \union UserPC]
    /\ pc["listener"] \notin UserPC \ {"idle"} /\ pc["user"] \notin ListenerPC \ {"idle"}
    /\ mine \in [Task -> Socket \union {NoSocket}]
    /\ \A t \in Task : mine[t] # NoSocket => pc[t] \in {"connecting", "receiving", "closing"}
    /\ calls \in 0 .. MaxCalls

Init ==
    /\ status = "Disconnected" /\ ws = NoSocket
    /\ state = [s \in Socket |-> "none"]
    /\ token = "null" /\ receive = "null" /\ disposed = FALSE
    /\ pc = [t \in Task |-> "idle"]
    /\ mine = [t \in Task |-> NoSocket]
    /\ calls = 0

-----------------------------------------------------------------------------
\* What the listener awaits, or its end: its caller goes on.
Awaited == {"connecting", "receiving", "delay", "idle"}

Goto(t, label) ==
    pc' = [u \in Task |-> IF u = t THEN label
                          ELSE IF pc[u] = "listen" /\ label \in Awaited THEN "idle"
                          ELSE pc[u]]
Stay == UNCHANGED <<token, receive, disposed, calls>>

\* Dispose() of a socket: State is Closed, unless it was Aborted.
Dispose(s) == IF s = NoSocket \/ state[s] = "aborted" THEN UNCHANGED state
              ELSE state' = [state EXCEPT ![s] = "closed"]

\* The end of ConnectAsync: the listener goes on, the user has its answer.
Returned(t) == IF t = "listener" THEN "receive" ELSE "idle"
Thrown(t) == IF t = "listener" THEN "caught" ELSE "idle"

Unused == Socket \ ({ws} \union {mine[t] : t \in Task})

(* ConnectAsync: the tests. *)
ConnectTest(t) ==
    /\ pc[t] = "test"
    /\ Goto(t, IF disposed THEN Thrown(t)
               ELSE IF status \in {"Connected", "Connecting"} THEN Returned(t) ELSE "set")
    /\ UNCHANGED <<status, ws, state, mine>> /\ Stay

ConnectSet(t) ==
    /\ pc[t] = "set"
    /\ status' = "Connecting"
    /\ Goto(t, "drop")
    /\ UNCHANGED <<ws, state, mine>> /\ Stay

(* _webSocket?.Dispose() *)
ConnectDrop(t) ==
    /\ pc[t] = "drop"
    /\ Dispose(ws)
    /\ Goto(t, "renew")
    /\ UNCHANGED <<status, ws, mine>> /\ Stay

(* _webSocket = new ClientWebSocket() *)
ConnectRenew(t) ==
    /\ pc[t] = "renew"
    /\ ws' = CHOOSE s \in Unused : TRUE
    /\ state' = [state EXCEPT ![ws'] = "none"]
    /\ Goto(t, "start")
    /\ UNCHANGED <<status, mine>> /\ Stay

(* _webSocket.ConnectAsync: the field is read again, and a socket that has *)
(* been started or disposed by the other task throws.                      *)
ConnectStart(t) ==
    /\ pc[t] = "start"
    /\ IF state[ws] = "none"
       THEN /\ state' = [state EXCEPT ![ws] = "connecting"]
            /\ mine' = [mine EXCEPT ![t] = ws]
            /\ Goto(t, "connecting")
       ELSE Goto(t, "failed") /\ UNCHANGED <<state, mine>>
    /\ UNCHANGED <<status, ws>> /\ Stay

(* The server accepts. *)
Accepted(t) ==
    /\ pc[t] = "connecting" /\ state[mine[t]] = "connecting"
    /\ state' = [state EXCEPT ![mine[t]] = "open"]
    /\ mine' = [mine EXCEPT ![t] = NoSocket]
    /\ Goto(t, "connected")
    /\ UNCHANGED <<status, ws>> /\ Stay

(* It does not, the socket is disposed, or the token cancelled: the socket *)
(* disposes itself and throws.                                             *)
Refused(t) ==
    /\ pc[t] = "connecting"
    /\ state' = [state EXCEPT ![mine[t]] = "closed"]
    /\ mine' = [mine EXCEPT ![t] = NoSocket]
    /\ Goto(t, "failed")
    /\ UNCHANGED <<status, ws>> /\ Stay

ConnectSucceeds(t) ==
    /\ pc[t] = "connected"
    /\ status' = "Connected"
    /\ Goto(t, Returned(t))
    /\ UNCHANGED <<ws, state, mine>> /\ Stay

\* Variation: a failed attempt leaves the status as it is.
ConnectFailsSilently(t) ==
    /\ pc[t] = "failed"
    /\ Goto(t, Thrown(t))
    /\ UNCHANGED <<status, ws, state, mine>> /\ Stay

(* catch (Exception ex) *)
ConnectFails(t) ==
    /\ pc[t] = "failed"
    /\ status' = "Failed"
    /\ Goto(t, Thrown(t))
    /\ UNCHANGED <<ws, state, mine>> /\ Stay

Connect(t) ==
    \/ ConnectTest(t) \/ ConnectSet(t) \/ ConnectDrop(t) \/ ConnectRenew(t) \/ ConnectStart(t)
    \/ ConnectSucceeds(t) \/ ConnectFails(t)

-----------------------------------------------------------------------------
(* while (!token.IsCancellationRequested) { if (Status != Connected) ...   *)
Loop ==
    /\ pc["listener"] = "loop"
    /\ Goto("listener", IF token = "cancelled" THEN "idle"
                        ELSE IF status = "Connected" THEN "receive" ELSE "test")
    /\ UNCHANGED <<status, ws, state, mine>> /\ Stay

(* ReceiveMessagesAsync: its own loop as long as the socket is open. *)
ReceiveTest ==
    /\ pc["listener"] = "receive"
    /\ IF ws = NoSocket
       THEN /\ receive' = "done" /\ Goto("listener", "loop")
            /\ UNCHANGED mine
       ELSE IF state[ws] = "open" /\ token = "live"
            THEN /\ receive' = "running" /\ Goto("listener", "receiving")
                 /\ mine' = [mine EXCEPT !["listener"] = ws]
            ELSE Goto("listener", "left") /\ UNCHANGED <<receive, mine>>
    /\ UNCHANGED <<status, ws, state, token, disposed, calls>>

\* How the listener's ReceiveAsync ends: the socket's new State, where it goes.
Receives(new, label) ==
    /\ pc["listener"] = "receiving"
    /\ state' = [state EXCEPT ![mine["listener"]] = new]
    /\ mine' = [mine EXCEPT !["listener"] = NoSocket]
    /\ Goto("listener", label)
    /\ UNCHANGED <<status, ws>> /\ Stay

Waited == IF mine["listener"] = NoSocket THEN "none" ELSE state[mine["listener"]]

(* A text, after which the loop goes round, or whose handler throws. *)
ReceiveText ==
    /\ Waited \in {"open", "closeSent"}
    /\ \E label \in {"receive", "threw"} : Receives(Waited, label)

(* A close frame: the server's own, or its answer to ours. *)
ReceiveClose ==
    \/ Waited = "open" /\ Receives("closeReceived", "left")
    \/ Waited = "closeSent" /\ Receives("closed", "left")

(* WebSocketException: the connection is lost. *)
ReceiveLost ==
    Waited \in {"open", "closeSent"} /\ Receives("aborted", "threw")

(* The socket has been disposed, or the token has been cancelled, which    *)
(* aborts the socket; the latter exception is swallowed.                   *)
ReceiveEnds ==
    \/ Waited = "closed" /\ Receives(Waited, "threw")
    \/ token = "cancelled" /\ Receives(IF Waited = "closed" THEN Waited ELSE "aborted", "left")

\* Variation: the finally block forgets the status.
ReceiveFinallyForgets ==
    /\ pc["listener"] \in {"left", "threw"}
    /\ receive' = IF pc["listener"] = "left" THEN "done" ELSE "failed"
    /\ Goto("listener", IF pc["listener"] = "left" THEN "loop" ELSE "caught")
    /\ UNCHANGED <<status, ws, state, token, disposed, mine, calls>>

(* finally { if (_webSocket.State != Closed) ... *)
ReceiveFinally ==
    /\ pc["listener"] \in {"left", "threw"}
    /\ status' = IF state[ws] = "closed" THEN status ELSE "Disconnected"
    /\ receive' = IF pc["listener"] = "left" THEN "done" ELSE "failed"
    /\ Goto("listener", IF pc["listener"] = "left" THEN "loop" ELSE "caught")
    /\ UNCHANGED <<ws, state, token, disposed, mine, calls>>

(* The catch blocks of the loop: a cancelled attempt to connect ends it,   *)
(* everything else waits five seconds.                                     *)
Caught ==
    /\ pc["listener"] = "caught"
    /\ \/ token = "cancelled" /\ Goto("listener", "idle") /\ UNCHANGED status
       \/ status' = "Reconnecting" /\ Goto("listener", "delay")
    /\ UNCHANGED <<ws, state, mine>> /\ Stay

\* Variation: the delay does not look at the token, nor the loop after it.
DelayForever ==
    /\ pc["listener"] = "delay"
    /\ Goto("listener", "test")
    /\ UNCHANGED <<status, ws, state, mine>> /\ Stay

Delay ==
    /\ pc["listener"] = "delay"
    /\ Goto("listener", IF token = "cancelled" THEN "idle" ELSE "loop")
    /\ UNCHANGED <<status, ws, state, mine>> /\ Stay

Listen == Loop \/ ReceiveTest \/ ReceiveEnds \/ ReceiveFinally \/ Caught \/ Delay

-----------------------------------------------------------------------------
Calling == pc["user"] = "idle" /\ calls < MaxCalls /\ calls' = calls + 1

CallConnect ==
    /\ Calling /\ Goto("user", "test")
    /\ UNCHANGED <<status, ws, state, token, receive, disposed, mine>>

CallDisconnect ==
    /\ Calling /\ Goto("user", "close")
    /\ UNCHANGED <<status, ws, state, token, receive, disposed, mine>>

(* StartListeningAsync runs on the user's own thread until it awaits       *)
(* something, and beside the user from then on.                            *)
CallListen ==
    /\ Calling /\ pc["listener"] = "idle" /\ ~disposed
    /\ token' = "live"
    /\ pc' = [pc EXCEPT !["listener"] = "loop", !["user"] = "listen"]
    /\ UNCHANGED <<status, ws, state, receive, disposed, mine>>

(* The token the user gave to StartListeningAsync is cancelled, which does *)
(* not take the user's own thread.                                         *)
CallCancel ==
    /\ pc["user"] \in {"idle", "listen"} /\ calls < MaxCalls /\ calls' = calls + 1
    /\ token = "live"
    /\ token' = "cancelled"
    /\ UNCHANGED <<status, ws, state, receive, disposed, pc, mine>>

\* Variation: the token is left alone.
NotCancelled == token

Cancelled == IF token = "live" THEN "cancelled" ELSE token

(* Dispose(): the service can be used no more. *)
CallDispose ==
    /\ Calling /\ ~disposed
    /\ disposed' = TRUE
    /\ token' = Cancelled
    /\ Dispose(ws)
    /\ UNCHANGED <<status, ws, receive, pc, mine>>

(* DisconnectAsync: an open socket is closed. *)
CloseTest ==
    /\ pc["user"] = "close"
    /\ IF ws # NoSocket /\ state[ws] = "open"
       THEN /\ state' = [state EXCEPT ![ws] = "closeSent"]
            /\ mine' = [mine EXCEPT !["user"] = ws]
            /\ Goto("user", "closing")
       ELSE Goto("user", "cancel") /\ UNCHANGED <<state, mine>>
    /\ UNCHANGED <<status, ws>> /\ Stay

(* The server answers our close frame, or is lost.  While the listener     *)
(* receives from the socket it is the listener that gets the answer.       *)
CloseAnswered ==
    /\ pc["user"] = "closing" /\ state[mine["user"]] = "closeSent"
    /\ mine["listener"] # mine["user"]
    /\ \E new \in {"closed", "aborted"} : state' = [state EXCEPT ![mine["user"]] = new]
    /\ UNCHANGED <<status, ws, pc, mine>> /\ Stay

CloseReturns ==
    /\ pc["user"] = "closing" /\ state[mine["user"]] # "closeSent"
    /\ mine' = [mine EXCEPT !["user"] = NoSocket]
    /\ Goto("user", "cancel")
    /\ UNCHANGED <<status, ws, state>> /\ Stay

(* _cancellationTokenSource?.Cancel(), which throws when it was disposed. *)
Cancel ==
    /\ pc["user"] = "cancel"
    /\ token' = Cancelled
    /\ Goto("user", IF disposed /\ token # "null" THEN "idle"
                    ELSE IF receive = "null" THEN "closed" ELSE "join")
    /\ UNCHANGED <<status, ws, state, receive, disposed, mine, calls>>

(* await _receiveTask: throws what the task threw, whenever that was. *)
Join ==
    /\ pc["user"] = "join"
    /\ \/ receive = "done" /\ Goto("user", "closed")
       \/ receive = "failed" /\ Goto("user", "idle")
    /\ UNCHANGED <<status, ws, state, mine>> /\ Stay

DisconnectReturns ==
    /\ pc["user"] = "closed"
    /\ status' = "Disconnected"
    /\ Goto("user", "idle")
    /\ UNCHANGED <<ws, state, mine>> /\ Stay

Disconnect == CloseTest \/ CloseReturns \/ Cancel \/ Join \/ DisconnectReturns

UserCalls == CallConnect \/ CallDisconnect \/ CallListen \/ CallCancel \/ CallDispose

-----------------------------------------------------------------------------
Next ==
    \/ \E t \in Task : Connect(t) \/ Accepted(t) \/ Refused(t)
    \/ Listen \/ ReceiveText \/ ReceiveClose \/ ReceiveLost
    \/ UserCalls \/ Disconnect \/ CloseAnswered

(* The tasks run; an attempt to connect ends, and a server that is asked   *)
(* again and again accepts in the end; a close frame is answered, or the   *)
(* connection lost.  The server need not send anything.                    *)
Fairness ==
    /\ \A t \in Task : WF_vars(Connect(t)) /\ WF_vars(Accepted(t) \/ Refused(t)) /\ SF_vars(Accepted(t))
    /\ WF_vars(Listen) /\ WF_vars(Disconnect)
    /\ WF_vars(CloseAnswered)
    /\ WF_vars(Waited = "closeSent" /\ (ReceiveText \/ ReceiveClose \/ ReceiveLost))

Spec == Init /\ [][Next]_vars /\ Fairness

-----------------------------------------------------------------------------
(* ConnectAsync returns at once while Status says Connecting: if nobody    *)
(* were connecting then, the client could never connect again.             *)
ConnectingIsTransient == status = "Connecting" => \E t \in Task : pc[t] \in Attempt

(* DisconnectAsync waits for the listener only when that has been told to  *)
(* stop, and, unless its receiving has ended, is at a step from which that *)
(* ends: the call cannot hang on a listener that goes on.                  *)
JoinIsServed ==
    pc["user"] = "join" =>
        /\ token = "cancelled"
        /\ \/ receive \in {"done", "failed"}
           \/ receive = "running" /\ pc["listener"] \in {"receive", "receiving", "left", "threw"}

(* Status says Connected of a socket the client itself has closed: neither *)
(* the loop nor ConnectAsync opens another one.                            *)
Stranded == status = "Connected" /\ ws # NoSocket /\ state[ws] = "closed"

Receiving == Waited = "open"
Listening == pc["listener"] # "idle" /\ token = "live"

(* Whatever becomes of its connections, and whatever the user calls in     *)
(* between, a listener that is not cancelled ends up receiving from an     *)
(* open socket again and again - or the client is stranded for good.       *)
ReconnectsOrStranded == []<>~Stranded => []<>(Listening => Receiving)

(* ITinyphoneWebSocketService, "Start listening for events (auto-reconnect *)
(* enabled)": the same of every listener.                                  *)
Reconnects == []<>(Listening => Receiving)

(* A call of the user returns, also DisconnectAsync, which waits for the   *)
(* server and for the listener; the one that does not is a                 *)
(* StartListeningAsync of a client that is stranded: it goes round without *)
(* awaiting anything, and its caller never gets the Task.  And "Task that  *)
(* runs until cancelled": a listener that is cancelled ends.               *)
Held == pc["user"] = "listen" /\ Stranded
CallsReturn ==
    /\ pc["user"] # "idle" ~> pc["user"] = "idle" \/ Held
    /\ token = "cancelled" ~> pc["listener"] = "idle"
=============================================================================
