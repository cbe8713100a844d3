---------------------------- MODULE WsClientProofs ----------------------------
(* Theorems about WsClient, for every set of sockets and number of calls. *)
EXTENDS WsClient, FiniteSetTheorems, TLAPS

(* What a step of the specification is, action by action. *)
LEMMA StepCases ==
    ASSUME [Next]_vars
    PROVE \/ UNCHANGED vars
          \/ \E t \in Task : ConnectTest(t) \/ ConnectSet(t) \/ ConnectDrop(t) \/ ConnectRenew(t)
          \/ \E t \in Task : ConnectStart(t) \/ Accepted(t) \/ Refused(t)
          \/ \E t \in Task : ConnectSucceeds(t) \/ ConnectFails(t)
          \/ Loop \/ ReceiveTest \/ ReceiveFinally \/ Caught \/ Delay
          \/ ReceiveText \/ ReceiveClose \/ ReceiveLost \/ ReceiveEnds
          \/ CallConnect \/ CallDisconnect \/ CallListen \/ CallCancel \/ CallDispose
          \/ CloseTest \/ CloseAnswered \/ CloseReturns \/ Cancel \/ Join \/ DisconnectReturns
  BY DEF Next, Connect, Listen, UserCalls, Disconnect

(* Whoever finds Status Connecting leaves the work to the task that is     *)
(* connecting; the invariant says there is one.  It is inductive: a task   *)
(* enters the attempt with the step that sets the status, or one step      *)
(* before another does, and leaves it only by setting another status.      *)
Pending == pc \in [Task -> {"test", "set"} \union Attempt \union ListenerPC \union UserPC]
           /\ ConnectingIsTransient

(* The client never locks itself out: while Status says Connecting, some   *)
(* task is inside ConnectAsync and will set it to something else.          *)
THEOREM NeverLockedOut == Spec => []ConnectingIsTransient
<1>1. Init => Pending
  BY DEF Init, Pending, ConnectingIsTransient, ListenerPC
<1>2. Pending /\ [Next]_vars => Pending'
  <2> SUFFICES ASSUME Pending, [Next]_vars PROVE Pending'
    OBVIOUS
  <2> USE DEF Pending, ConnectingIsTransient, Goto, Awaited, Task, Attempt, ListenerPC, UserPC
  <2>1. ASSUME NEW t \in Task,
               ConnectTest(t) \/ ConnectSet(t) \/ ConnectDrop(t) \/ ConnectRenew(t)
        PROVE Pending'
    BY <2>1 DEF ConnectTest, ConnectSet, ConnectDrop, ConnectRenew, Returned, Thrown
  <2>2. ASSUME NEW t \in Task, ConnectStart(t) \/ Accepted(t) \/ Refused(t) PROVE Pending'
    BY <2>2 DEF ConnectStart, Accepted, Refused
  <2>3. ASSUME NEW t \in Task, ConnectSucceeds(t) \/ ConnectFails(t) PROVE Pending'
    BY <2>3 DEF ConnectSucceeds, ConnectFails, Returned, Thrown
  <2>4. CASE Loop \/ ReceiveTest \/ ReceiveFinally \/ Caught \/ Delay
    BY <2>4 DEF Loop, ReceiveTest, ReceiveFinally, Caught, Delay
  <2>5. CASE ReceiveText \/ ReceiveClose \/ ReceiveLost \/ ReceiveEnds
    BY <2>5 DEF ReceiveText, ReceiveClose, ReceiveLost, ReceiveEnds, Receives
  <2>6. CASE CallConnect \/ CallDisconnect \/ CallListen \/ CallCancel \/ CallDispose
    BY <2>6 DEF CallConnect, CallDisconnect, CallListen, CallCancel, CallDispose, Calling
  <2>7. CASE CloseTest \/ CloseAnswered \/ CloseReturns \/ Cancel \/ Join \/ DisconnectReturns
    BY <2>7 DEF CloseTest, CloseAnswered, CloseReturns, Cancel, Join, DisconnectReturns
  <2>8. CASE UNCHANGED vars
    BY <2>8 DEF vars
  <2> HIDE DEF Pending, ConnectingIsTransient, Goto, Awaited, Task, Attempt, ListenerPC, UserPC
  <2> QED BY StepCases, <2>1, <2>2, <2>3, <2>4, <2>5, <2>6, <2>7, <2>8
<1>3. Pending => ConnectingIsTransient
  BY DEF Pending
<1> QED BY <1>1, <1>2, <1>3, PTL DEF Spec

-----------------------------------------------------------------------------
(* What the code reads through the field and through a variable of its own *)
(* is there: a task that is about to connect, or has just received, finds  *)
(* a socket in _webSocket, and one that waits does so for a socket.        *)
NeverNull ==
    /\ \A t \in Task : pc[t] = "start" => ws # NoSocket
    /\ pc["listener"] \in {"receiving", "left", "threw"} => ws # NoSocket
    /\ \A t \in Task : pc[t] \in {"connecting", "receiving", "closing"} => mine[t] # NoSocket

(* A task that has been started has a token; whoever is joined has been    *)
(* told to stop, and only a listener in ReceiveMessagesAsync is running.   *)
Tokens ==
    /\ receive # "null" \/ pc["listener"] # "idle" => token # "null"
    /\ pc["user"] = "join" => token = "cancelled" /\ receive # "null"
    /\ receive = "running" => pc["listener"] \in {"receive", "receiving", "left", "threw"}

ClientInv == TypeOK /\ NeverNull /\ Tokens

(* One of three sockets is free when the field and at most one task hold   *)
(* another.                                                                *)
LEMMA OneIsUnused ==
    ASSUME TypeOK, NEW t \in Task, pc[t] = "renew"
    PROVE  Unused # {}
<1> PICK u \in Task : Task = {t, u}
  BY DEF Task
<1>0. mine[t] \notin Socket
  <2>1. mine[t] = NoSocket
    BY DEF TypeOK
  <2> QED BY <2>1, ClientAssumption
<1> SUFFICES ASSUME Unused = {} PROVE FALSE
  OBVIOUS
<1>s. Socket \subseteq {ws, mine[u]}
  <2> SUFFICES ASSUME NEW s \in Socket PROVE s \in {ws, mine[u]}
    OBVIOUS
  <2>1. s \in {ws} \union {mine[v] : v \in Task}
    BY DEF Unused
  <2>2. ASSUME NEW v \in Task, s = mine[v] PROVE s = mine[u]
    BY <2>2, <1>0
  <2> QED BY <2>1, <2>2
<1>1. IsFiniteSet({ws}) /\ Cardinality({ws}) = 1
  BY FS_Singleton
<1>2. IsFiniteSet({ws} \union {mine[u]}) /\ Cardinality({ws} \union {mine[u]}) \in {1, 2}
  BY <1>1, FS_AddElement
<1>3. {ws, mine[u]} = {ws} \union {mine[u]}
  OBVIOUS
<1>4. Cardinality(Socket) <= Cardinality({ws} \union {mine[u]})
  BY <1>2, <1>3, <1>s, FS_Subset
<1>5. Cardinality(Socket) \in Nat
  BY ClientAssumption, FS_CardinalityType
<1> QED BY <1>2, <1>4, <1>5, ClientAssumption

LEMMA ClientInit == Init => ClientInv
<1> SUFFICES ASSUME Init PROVE ClientInv
  OBVIOUS
<1> USE DEF Init
<1>1. disposed \in BOOLEAN
  BY Zenon
<1>2. calls \in 0 .. MaxCalls
  BY ClientAssumption
<1>3. TypeOK
  BY <1>1, <1>2 DEF TypeOK, Task, ListenerPC, UserPC
<1> QED BY <1>3 DEF ClientInv, NeverNull, Tokens, Task

LEMMA ClientStep == ClientInv /\ [Next]_vars => ClientInv'
<1> SUFFICES ASSUME ClientInv, [Next]_vars PROVE ClientInv'
  OBVIOUS
<1> USE ClientAssumption DEF ClientInv, TypeOK, NeverNull, Tokens, Goto, Awaited, Stay, Task, Attempt, ListenerPC, UserPC
<1>1. ASSUME NEW t \in Task, ConnectTest(t) PROVE ClientInv'
  BY <1>1 DEF ConnectTest, Returned, Thrown
<1>2. ASSUME NEW t \in Task, ConnectSet(t) PROVE ClientInv'
  BY <1>2 DEF ConnectSet
<1>3. ASSUME NEW t \in Task, ConnectDrop(t) PROVE ClientInv'
  BY <1>3 DEF ConnectDrop, Dispose
<1>4. ASSUME NEW t \in Task, ConnectRenew(t) PROVE ClientInv'
  <2>1. ws' \in Socket
    BY <1>4, OneIsUnused DEF ConnectRenew, Unused
  <2>2. state' \in [Socket -> {"none", "connecting", "open", "closeSent", "closeReceived", "closed", "aborted"}]
    BY <1>4 DEF ConnectRenew
  <2>3. pc[t] = "renew" /\ pc' = [pc EXCEPT ![t] = "start"]
    BY <1>4 DEF ConnectRenew
  <2>4. UNCHANGED <<status, mine, token, receive, disposed, calls>>
    BY <1>4 DEF ConnectRenew
  <2> QED BY <2>1, <2>2, <2>3, <2>4
<1>5. ASSUME NEW t \in Task, ConnectStart(t) PROVE ClientInv'
  BY <1>5 DEF ConnectStart
<1>6. ASSUME NEW t \in Task, Accepted(t) PROVE ClientInv'
  BY <1>6 DEF Accepted
<1>7. ASSUME NEW t \in Task, Refused(t) PROVE ClientInv'
  BY <1>7 DEF Refused
<1>8. ASSUME NEW t \in Task, ConnectSucceeds(t) PROVE ClientInv'
  BY <1>8 DEF ConnectSucceeds, Returned
<1>9. ASSUME NEW t \in Task, ConnectFails(t) PROVE ClientInv'
  BY <1>9 DEF ConnectFails, Thrown
<1>10. CASE Loop
  BY <1>10 DEF Loop
<1>11. CASE ReceiveTest
  BY <1>11 DEF ReceiveTest
<1>12. CASE ReceiveFinally
  BY <1>12 DEF ReceiveFinally
<1>13. CASE Caught
  BY <1>13 DEF Caught
<1>14. CASE Delay
  BY <1>14 DEF Delay
<1>15. CASE ReceiveText \/ ReceiveClose \/ ReceiveLost \/ ReceiveEnds
  BY <1>15 DEF ReceiveText, ReceiveClose, ReceiveLost, ReceiveEnds, Receives, Waited
<1>16. CASE CallConnect \/ CallDisconnect \/ CallListen \/ CallCancel
  BY <1>16 DEF CallConnect, CallDisconnect, CallListen, CallCancel, Calling
<1>17. CASE CallDispose
  <2>1. disposed' \in BOOLEAN /\ UNCHANGED <<status, ws, receive, pc, mine>>
    BY <1>17, Zenon DEF CallDispose
  <2>2. calls' \in 0 .. MaxCalls
    BY <1>17 DEF CallDispose, Calling
  <2>3. state' \in [Socket -> {"none", "connecting", "open", "closeSent", "closeReceived", "closed", "aborted"}]
    BY <1>17 DEF CallDispose, Dispose
  <2>4. /\ token' \in {"null", "live", "cancelled"}
        /\ token # "null" => token' # "null"
        /\ pc["user"] # "join"
    BY <1>17 DEF CallDispose, Calling, Cancelled
  <2> QED BY <2>1, <2>2, <2>3, <2>4
<1>18. CASE CloseTest
  BY <1>18 DEF CloseTest
<1>19. CASE CloseAnswered
  BY <1>19 DEF CloseAnswered
<1>20. CASE CloseReturns
  BY <1>20 DEF CloseReturns
<1>21. CASE Cancel
  BY <1>21 DEF Cancel, Cancelled
<1>22. CASE Join \/ DisconnectReturns
  BY <1>22 DEF Join, DisconnectReturns
<1>23. CASE UNCHANGED vars
  BY <1>23 DEF vars
<1> HIDE DEF ClientInv
<1> QED BY StepCases, <1>1, <1>2, <1>3, <1>4, <1>5, <1>6, <1>7, <1>8, <1>9, <1>10, <1>11, <1>12,
          <1>13, <1>14, <1>15, <1>16, <1>17, <1>18, <1>19, <1>20, <1>21, <1>22, <1>23

LEMMA ClientInvHolds == Spec => []ClientInv
  BY ClientInit, ClientStep, PTL DEF Spec

(* The variables stay in their types, and the two control points agree     *)
(* with the sockets the tasks hold.                                        *)
THEOREM ClientTyping == Spec => []TypeOK
  BY ClientInvHolds, PTL DEF ClientInv

(* No step of the client reads the State of a socket that is not there.    *)
THEOREM SocketsAreThere == Spec => []NeverNull
  BY ClientInvHolds, PTL DEF ClientInv

(* DisconnectAsync never waits for a listener that goes on: it is told to  *)
(* stop, and has stopped receiving or is where it notices.                 *)
THEOREM JoinsOnlyTheStopped == Spec => []JoinIsServed
<1>1. ClientInv => JoinIsServed
  BY DEF ClientInv, Tokens, TypeOK, JoinIsServed
<1> QED BY <1>1, ClientInvHolds, PTL
=============================================================================
