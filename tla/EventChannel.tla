----------------------------- MODULE EventChannel -----------------------------
(***************************************************************************)
(* The way of an event to the web socket clients: publishEvent pushes it   *)
(* into a channel (src/tinyphone/channel.h, events.h), the relayer thread  *)
(* of server.cpp pops it and sends it to every connection in subscribers.  *)
(*                                                                         *)
(* Events are numbered as they are pushed.  The methods of the channel     *)
(* hold its mutex from entry to return, but for the wait in pop, so each   *)
(* is one step and pop is two.  The relayer walks over subscribers without *)
(* the mutex that onopen and onclose take; a change of the set under its   *)
(* feet is undefined behaviour, after which nothing more is said.          *)
(***************************************************************************)
EXTENDS Naturals, Sequences

CONSTANTS
    Conn,      \* web socket connections, each opened and closed once
    MaxEvents  \* bound on the events published

ASSUME ChannelAssumption == MaxEvents \in Nat

VARIABLES
    queue,        \* channel::queue
    closed,       \* channel::closed
    published,    \* ghost: events pushed so far
    waiting,      \* the relayer is in the wait set of channel::cv
    relayer,      \* what the relayer thread does next
    data,         \* the event it has in hand
    unsent,       \* the connections its loop has yet to come to
    subscribers,  \* the set subscribers
    gone,         \* connections closed
    received,     \* what each connection was sent
    started,      \* ghost: the events relayed when the connection was opened
    main,         \* the thread of Start
    defined       \* no undefined behaviour so far

chan == <<queue, closed, published, waiting>>
conns == <<subscribers, gone, received, started>>
vars == <<chan, relayer, data, unsent, conns, main, defined>>

TypeOK ==
    /\ queue \in Seq(1 .. MaxEvents)
    /\ closed \in BOOLEAN /\ waiting \in BOOLEAN /\ defined \in BOOLEAN
    /\ published \in 0 .. MaxEvents
    /\ relayer \in {"test", "pop", "send", "exited"}
    /\ data \in (IF relayer = "send" THEN 1 ELSE 0) .. MaxEvents
    /\ unsent \subseteq Conn /\ subscribers \subseteq Conn /\ gone \subseteq Conn
    /\ received \in [Conn -> Seq(1 .. MaxEvents)]
    /\ started \in [Conn -> 0 .. MaxEvents]
    /\ main \in {"serving", "joining", "done"}

Init ==
    /\ queue = <<>> /\ closed = FALSE /\ published = 0 /\ waiting = FALSE
    /\ relayer = "test" /\ data = 0 /\ unsent = {}
    /\ subscribers = {} /\ gone = {}
    /\ received = [c \in Conn |-> <<>>]
    /\ started = [c \in Conn |-> 0]
    /\ main = "serving" /\ defined = TRUE

-----------------------------------------------------------------------------
(* Variation: a push that wakes nobody. *)
PushSilent ==
    /\ ~closed /\ published < MaxEvents
    /\ queue' = Append(queue, published + 1)
    /\ published' = published + 1
    /\ UNCHANGED <<closed, waiting, relayer, data, unsent, conns, main, defined>>

(* channel::push.  On a closed channel it throws and changes nothing.      *)
Push ==
    /\ ~closed /\ published < MaxEvents
    /\ queue' = Append(queue, published + 1)
    /\ published' = published + 1
    /\ waiting' = FALSE                                        \* notify_one
    /\ UNCHANGED <<closed, relayer, data, unsent, conns, main, defined>>

(* while (!updates.is_closed()): read without the mutex of the channel.    *)
Test ==
    /\ relayer = "test"
    /\ relayer' = IF closed THEN "exited" ELSE "pop"
    /\ UNCHANGED <<chan, data, unsent, conns, main, defined>>

(* pop(data, true) finds nothing: cv.wait releases the mutex and sleeps.   *)
Wait ==
    /\ relayer = "pop" /\ ~waiting
    /\ ~closed /\ queue = <<>>
    /\ waiting' = TRUE
    /\ UNCHANGED <<queue, closed, published, relayer, data, unsent, conns, main, defined>>

(* Variation: the newest event is taken, as from a stack. *)
PopNewest ==
    /\ relayer = "pop" /\ ~waiting /\ queue # <<>>
    /\ data' = queue[Len(queue)]
    /\ queue' = SubSeq(queue, 1, Len(queue) - 1)
    /\ unsent' = subscribers
    /\ relayer' = "send"
    /\ UNCHANGED <<closed, published, waiting, conns, main, defined>>

(* pop returns an event: it is sent to the subscribers of this moment.     *)
Pop ==
    /\ relayer = "pop" /\ ~waiting /\ queue # <<>>
    /\ data' = Head(queue)
    /\ queue' = Tail(queue)
    /\ unsent' = subscribers
    /\ relayer' = "send"
    /\ UNCHANGED <<closed, published, waiting, conns, main, defined>>

(* pop returns false: the channel was closed while it was empty.           *)
PopNothing ==
    /\ relayer = "pop" /\ ~waiting /\ queue = <<>> /\ closed
    /\ relayer' = "test"
    /\ UNCHANGED <<chan, data, unsent, conns, main, defined>>

(* for (auto u : subscribers) u->send_text(data) *)
Send(c) ==
    /\ relayer = "send" /\ c \in unsent
    /\ received' = [received EXCEPT ![c] = Append(@, data)]
    /\ unsent' = unsent \ {c}
    /\ UNCHANGED <<chan, relayer, data, subscribers, gone, started, main, defined>>

SendEnd ==
    /\ relayer = "send" /\ unsent = {}
    /\ relayer' = "test"
    /\ UNCHANGED <<chan, data, unsent, conns, main, defined>>

-----------------------------------------------------------------------------
(* How many events the relayer has taken out of the channel. *)
Relayed == published - Len(queue)

(* onopen and onclose, on threads of the HTTP server, under mtx. *)
Open(c) ==
    /\ main = "serving" /\ c \notin subscribers \union gone
    /\ subscribers' = subscribers \union {c}
    /\ started' = [started EXCEPT ![c] = Relayed]
    /\ defined' = (relayer # "send")
    /\ UNCHANGED <<chan, relayer, data, unsent, gone, received, main>>

Close(c) ==
    /\ main = "serving" /\ c \in subscribers
    /\ subscribers' = subscribers \ {c}
    /\ gone' = gone \union {c}
    /\ defined' = (relayer # "send")
    /\ UNCHANGED <<chan, relayer, data, unsent, received, started, main>>

(* Variation: close() sets the flag and wakes nobody. *)
CloseSilent ==
    /\ main = "serving"
    /\ closed' = TRUE
    /\ main' = "joining"
    /\ UNCHANGED <<queue, published, waiting, relayer, data, unsent, conns, defined>>

(* The end of Start: the server has stopped, updates.close() and join.     *)
CloseChannel ==
    /\ main = "serving"
    /\ closed' = TRUE
    /\ waiting' = FALSE                                        \* notify_all
    /\ main' = "joining"
    /\ UNCHANGED <<queue, published, relayer, data, unsent, conns, defined>>

Join ==
    /\ main = "joining" /\ relayer = "exited"
    /\ main' = "done"
    /\ UNCHANGED <<chan, relayer, data, unsent, conns, defined>>

-----------------------------------------------------------------------------
RelayerStep == Test \/ Wait \/ Pop \/ PopNothing \/ (\E c \in Conn : Send(c)) \/ SendEnd

Next ==
    \/ defined /\ Push
    \/ defined /\ RelayerStep
    \/ \E c \in Conn : defined /\ (Open(c) \/ Close(c))
    \/ defined /\ CloseChannel
    \/ defined /\ Join

(* The relayer thread and the thread of Start run when they can. *)
Spec == Init /\ [][Next]_vars /\ WF_vars(defined /\ RelayerStep) /\ WF_vars(defined /\ Join)

-----------------------------------------------------------------------------
(* The channel loses no event, doubles none and keeps the order: it holds  *)
(* the events Relayed + 1 .. published.                                    *)
QueueIsInterval ==
    /\ Len(queue) <= published
    /\ \A i \in 1 .. Len(queue) : queue[i] = Relayed + i

(* A client is sent, in order and without a gap, the events relayed since  *)
(* its connection was opened: the one in hand may still be due to it.      *)
Owed(c) == IF relayer = "send" /\ c \in unsent THEN Relayed - 1 ELSE Relayed
SentInOrder ==
    defined => \A c \in Conn :
      /\ \A i \in 1 .. Len(received[c]) : received[c][i] = started[c] + i
      /\ c \in subscribers => started[c] + Len(received[c]) = Owed(c)

(* channel.h's wait set: the relayer never sleeps on a closed channel or   *)
(* on one that holds an event.                                             *)
NoLostWakeup == waiting => queue = <<>> /\ ~closed

(* Start does not hang in join: the relayer leaves its loop once the       *)
(* channel has been closed, whether it sleeps, pops or sends.              *)
ShutdownEnds == main = "joining" /\ defined ~> main = "done" \/ ~defined

(* Every event published is relayed, unless the channel is closed first.   *)
EventsRelayed ==
    \A n \in 1 .. MaxEvents : published >= n ~> Relayed >= n \/ closed \/ ~defined

(* The channel and its relayer are a feed. *)
Feed == INSTANCE EventFeed WITH relayed <- Relayed, last <- data
ImplementsFeed == Feed!FeedSpec
=============================================================================
