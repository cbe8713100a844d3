-------------------------- MODULE EventChannelProofs --------------------------
(* Theorems about EventChannel, for every number of events and connections. *)
EXTENDS EventChannel, SequenceTheorems, TLAPS

(* The parts of the state the proofs speak of. *)
ChanTypeOK ==
    /\ queue \in Seq(Nat)
    /\ published \in Nat
    /\ closed \in BOOLEAN /\ waiting \in BOOLEAN
    /\ data \in Nat

ChanInv == ChanTypeOK /\ QueueIsInterval

LEMMA ChanInit == Init => ChanInv /\ Relayed = 0
<1> SUFFICES ASSUME Init PROVE ChanInv /\ Relayed = 0
  OBVIOUS
<1>1. queue \in Seq(Nat) /\ Len(queue) = 0 /\ published = 0
  BY DEF Init
<1>2. QueueIsInterval /\ Relayed = 0
  BY <1>1 DEF QueueIsInterval, Relayed
<1>3. closed \in BOOLEAN /\ waiting \in BOOLEAN
  BY Zenon DEF Init
<1> QED BY <1>1, <1>2, <1>3 DEF Init, ChanInv, ChanTypeOK

(* push appends the next number. *)
LEMMA PushKeeps == ChanInv /\ Push => ChanInv'
<1> SUFFICES ASSUME ChanInv, Push PROVE ChanInv'
  OBVIOUS
<1> USE DEF ChanInv, ChanTypeOK
<1>1. queue' \in Seq(Nat) /\ Len(queue') = Len(queue) + 1
  BY DEF Push
<1>2. Relayed' = Relayed
  BY <1>1 DEF Push, Relayed
<1>3. ASSUME NEW i \in 1 .. Len(queue') PROVE queue'[i] = Relayed + i
  <2>1. CASE i \in 1 .. Len(queue)
    BY <2>1 DEF Push, QueueIsInterval
  <2>2. CASE i = Len(queue) + 1
    <3>1. queue'[i] = published + 1
      BY <2>2 DEF Push
    <3> QED BY <3>1, <2>2 DEF Relayed
  <2>3. Len(queue) \in Nat
    OBVIOUS
  <2> QED BY <1>1, <2>1, <2>2, <2>3
<1>4. Len(queue') <= published'
  BY <1>1 DEF Push, QueueIsInterval
<1>5. QueueIsInterval'
  BY <1>1, <1>2, <1>3, <1>4 DEF QueueIsInterval
<1>6. closed' \in BOOLEAN /\ waiting' \in BOOLEAN
  BY Zenon DEF Push
<1>7. published' \in Nat /\ data' \in Nat
  BY DEF Push
<1> QED BY <1>1, <1>5, <1>6, <1>7

(* pop takes the oldest number, which is the one after the last taken.     *)
LEMMA PopKeeps == ChanInv /\ Pop => ChanInv' /\ Relayed' = Relayed + 1 /\ data' = Relayed + 1
<1> SUFFICES ASSUME ChanInv, Pop
             PROVE  ChanInv' /\ Relayed' = Relayed + 1 /\ data' = Relayed + 1
  OBVIOUS
<1> USE DEF ChanInv, ChanTypeOK
<1>1. /\ queue # <<>> /\ Len(queue) \in Nat \ {0}
      /\ queue' \in Seq(Nat) /\ Len(queue') = Len(queue) - 1
      /\ \A i \in 1 .. Len(queue') : queue'[i] = queue[i + 1]
  BY DEF Pop
<1>2. Relayed' = Relayed + 1
  BY <1>1 DEF Pop, Relayed
<1>3. data' = Relayed + 1
  BY <1>1 DEF Pop, QueueIsInterval
<1>4. \A i \in 1 .. Len(queue') : queue'[i] = Relayed' + i
  BY <1>1, <1>2, SMTT(30) DEF QueueIsInterval, Relayed
<1>5. QueueIsInterval'
  BY <1>1, <1>4 DEF Pop, QueueIsInterval
<1>6. Relayed \in Nat
  BY DEF Relayed, QueueIsInterval
<1> QED BY <1>1, <1>2, <1>3, <1>5, <1>6 DEF Pop

(* The other steps leave the queue, the counter and the event in hand.     *)
LEMMA OthersKeep ==
    ASSUME ChanInv, [Next]_vars, ~(defined /\ Push), ~Pop
    PROVE  /\ UNCHANGED <<queue, published, data>>
           /\ closed' \in BOOLEAN /\ waiting' \in BOOLEAN
           /\ closed' = closed \/ closed' = TRUE
  BY DEF ChanInv, ChanTypeOK, Next, RelayerStep, Test, Wait, PopNothing, Send, SendEnd,
         Open, Close, CloseChannel, Join, vars, chan, conns

LEMMA StepKeeps == ChanInv /\ [Next]_vars => ChanInv'
<1> SUFFICES ASSUME ChanInv, [Next]_vars PROVE ChanInv'
  OBVIOUS
<1>1. CASE defined /\ Push
  BY <1>1, PushKeeps
<1>2. CASE Pop
  BY <1>2, PopKeeps
<1>3. CASE ~(defined /\ Push) /\ ~Pop
  BY <1>3, OthersKeep DEF ChanInv, ChanTypeOK, QueueIsInterval, Relayed
<1> QED BY <1>1, <1>2, <1>3

(* The channel loses no event, doubles none and keeps their order, for any *)
(* number of events and clients and any interleaving of publishers,        *)
(* relayer and clients.                                                    *)
THEOREM ChannelIsFifo == Spec => []QueueIsInterval
<1>1. Init => ChanInv
  BY ChanInit
<1>2. ChanInv /\ [Next]_vars => ChanInv'
  BY StepKeeps
<1>3. ChanInv => QueueIsInterval
  BY DEF ChanInv
<1> QED BY <1>1, <1>2, <1>3, PTL DEF Spec

(* The variables stay in their types: no more events than MaxEvents are in  *)
(* the channel, and an event in hand is one that was published.             *)
THEOREM ChannelTyping == Spec => []TypeOK
<1>1. Init => TypeOK
  <2> SUFFICES ASSUME Init PROVE TypeOK
    OBVIOUS
  <2>1. closed \in BOOLEAN /\ waiting \in BOOLEAN /\ defined \in BOOLEAN
    BY Zenon DEF Init
  <2>2. queue \in Seq(1 .. MaxEvents) /\ received \in [Conn -> Seq(1 .. MaxEvents)]
    BY DEF Init
  <2> QED BY <2>1, <2>2, ChannelAssumption DEF Init, TypeOK
<1>2. ChanInv /\ TypeOK /\ [Next]_vars => TypeOK'
  <2> SUFFICES ASSUME ChanInv, TypeOK, [Next]_vars PROVE TypeOK'
    OBVIOUS
  <2> USE ChannelAssumption DEF TypeOK
  <2>1. CASE Push
    <3>1. queue' \in Seq(1 .. MaxEvents) /\ published' \in 0 .. MaxEvents
      BY <2>1 DEF Push
    <3>2. waiting' \in BOOLEAN /\ UNCHANGED <<closed, relayer, data, unsent, conns, main, defined>>
      BY <2>1, Zenon DEF Push
    <3> QED BY <3>1, <3>2 DEF conns
  <2>2. CASE Test \/ PopNothing \/ SendEnd
    BY <2>2 DEF Test, PopNothing, SendEnd, chan, conns
  <2>3. CASE Wait
    <3>1. waiting' \in BOOLEAN
      BY <2>3, Zenon DEF Wait
    <3> QED BY <2>3, <3>1 DEF Wait, conns
  <2>4. CASE Pop
    <3>1. data' \in 1 .. MaxEvents /\ queue' \in Seq(1 .. MaxEvents)
      BY <2>4 DEF Pop
    <3> QED BY <2>4, <3>1 DEF Pop, conns
  <2>5. ASSUME NEW c \in Conn, Send(c) PROVE TypeOK'
    <3>1. data \in 1 .. MaxEvents
      BY <2>5 DEF Send
    <3>2. Append(received[c], data) \in Seq(1 .. MaxEvents)
      BY <3>1
    <3>3. received' \in [Conn -> Seq(1 .. MaxEvents)]
      BY <2>5, <3>2 DEF Send
    <3> QED BY <2>5, <3>3 DEF Send, chan
  <2>6. ASSUME NEW c \in Conn, Open(c) PROVE TypeOK'
    <3>1. Relayed \in 0 .. MaxEvents
      BY DEF ChanInv, QueueIsInterval, Relayed
    <3>2. started' \in [Conn -> 0 .. MaxEvents]
      BY <2>6, <3>1 DEF Open
    <3>3. defined' \in BOOLEAN
      BY <2>6, Zenon DEF Open
    <3> QED BY <2>6, <3>2, <3>3 DEF Open, chan
  <2>7. ASSUME NEW c \in Conn, Close(c) PROVE TypeOK'
    <3>1. defined' \in BOOLEAN
      BY <2>7, Zenon DEF Close
    <3> QED BY <2>7, <3>1 DEF Close, chan
  <2>8. CASE CloseChannel
    <3>1. closed' \in BOOLEAN /\ waiting' \in BOOLEAN
      BY <2>8, Zenon DEF CloseChannel
    <3> QED BY <2>8, <3>1 DEF CloseChannel, conns
  <2>9. CASE Join
    BY <2>9 DEF Join, chan, conns
  <2>10. CASE UNCHANGED vars
    BY <2>10 DEF vars, chan, conns
  <2> HIDE DEF TypeOK
  <2> QED BY <2>1, <2>2, <2>3, <2>4, <2>5, <2>6, <2>7, <2>8, <2>9, <2>10 DEF Next, RelayerStep
<1>3. Init => ChanInv
  BY ChanInit
<1>4. ChanInv /\ [Next]_vars => ChanInv'
  BY StepKeeps
<1> QED BY <1>1, <1>2, <1>3, <1>4, PTL DEF Spec

(* The relayer never sleeps while it has something to do: whoever makes    *)
(* the predicate of cv.wait true also takes it out of the wait set.        *)
THEOREM NoWakeupLost == Spec => []NoLostWakeup
<1> DEFINE Inv == ChanTypeOK /\ NoLostWakeup
<1>1. Init => Inv
  BY ChanInit DEF ChanInv, Init, NoLostWakeup
<1>2. ChanInv /\ ChanInv' /\ Inv /\ [Next]_vars => Inv'
  <2> SUFFICES ASSUME ChanInv, ChanInv', Inv, [Next]_vars PROVE NoLostWakeup'
    BY DEF ChanInv
  <2>1. CASE Push
    BY <2>1 DEF Push, NoLostWakeup
  <2>2. CASE RelayerStep
    BY <2>2 DEF RelayerStep, Test, Wait, Pop, PopNothing, Send, SendEnd, NoLostWakeup, chan
  <2>3. ASSUME NEW c \in Conn, Open(c) \/ Close(c) PROVE NoLostWakeup'
    BY <2>3 DEF Open, Close, NoLostWakeup, chan
  <2>4. CASE CloseChannel
    BY <2>4 DEF CloseChannel, NoLostWakeup
  <2>5. CASE Join
    BY <2>5 DEF Join, NoLostWakeup, chan
  <2>6. CASE UNCHANGED vars
    BY <2>6 DEF vars, NoLostWakeup, chan
  <2> QED BY <2>1, <2>2, <2>3, <2>4, <2>5, <2>6 DEF Next
<1>3. Inv => NoLostWakeup
  OBVIOUS
<1>4. Init => ChanInv
  BY ChanInit
<1>5. ChanInv /\ [Next]_vars => ChanInv'
  BY StepKeeps
<1> QED BY <1>1, <1>2, <1>3, <1>4, <1>5, PTL DEF Spec

(* The channel implements the feed: a push publishes, a pop relays the     *)
(* next event, and everything else is invisible to it.                     *)
THEOREM ChannelImplementsFeed == Spec => ImplementsFeed
<1>1. Init => Feed!FeedInit
  BY ChanInit DEF Init, Feed!FeedInit
<1>2. ChanInv /\ [Next]_vars => [Feed!FeedNext]_(Feed!feedVars)
  <2> SUFFICES ASSUME ChanInv, [Next]_vars
               PROVE  Feed!FeedNext \/ UNCHANGED Feed!feedVars
    OBVIOUS
  <2>1. CASE defined /\ Push
    <3>1. Relayed' = Relayed
      BY <2>1 DEF Push, Relayed, ChanInv, ChanTypeOK
    <3> QED BY <2>1, <3>1 DEF Push, Feed!FeedNext, Feed!FeedPublish
  <2>2. CASE Pop
    <3>1. Relayed < published
      BY <2>2 DEF Pop, Relayed, ChanInv, ChanTypeOK
    <3>2. Relayed' = Relayed + 1 /\ data' = Relayed + 1
      BY <2>2, PopKeeps
    <3> QED BY <2>2, <3>1, <3>2 DEF Pop, Feed!FeedNext, Feed!FeedRelay
  <2>3. CASE ~(defined /\ Push) /\ ~Pop
    <3>1. UNCHANGED <<published, Relayed, data>>
      BY <2>3, OthersKeep DEF Relayed
    <3>2. closed' = closed \/ closed' = TRUE
      BY <2>3, OthersKeep
    <3> QED BY <3>1, <3>2 DEF Feed!FeedNext, Feed!FeedClose, Feed!feedVars
  <2> QED BY <2>1, <2>2, <2>3
<1>3. Init => ChanInv
  BY ChanInit
<1>4. ChanInv /\ [Next]_vars => ChanInv'
  BY StepKeeps
<1> QED BY <1>1, <1>2, <1>3, <1>4, PTL DEF Spec, ImplementsFeed, Feed!FeedSpec

(* What the clients were sent.  The relayer has the last event taken from   *)
(* the channel in hand while it sends; a connection that was not opened yet *)
(* was sent nothing.                                                        *)
ConnInv ==
    /\ received \in [Conn -> Seq(Nat)] /\ started \in [Conn -> Nat]
    /\ unsent # {} => relayer = "send"
    /\ relayer = "send" => data = Relayed
    /\ defined => unsent \subseteq subscribers /\ subscribers \subseteq Conn
    /\ \A c \in Conn : c \notin subscribers \union gone => received[c] = <<>>
    /\ SentInOrder

LEMMA ConnStep == ChanInv /\ ConnInv /\ [Next]_vars => ConnInv'
<1> SUFFICES ASSUME ChanInv, ConnInv, [Next]_vars PROVE ConnInv'
  OBVIOUS
<1>1. Relayed \in Nat /\ ~(defined /\ Push) /\ ~Pop => UNCHANGED Relayed /\ UNCHANGED data
  BY OthersKeep DEF Relayed
<1>2. Relayed \in Nat /\ Len(queue) \in Nat
  BY DEF ChanInv, ChanTypeOK, QueueIsInterval, Relayed
<1>3. ASSUME UNCHANGED <<conns, relayer, unsent, data, defined>>, Relayed' = Relayed PROVE ConnInv'
  BY <1>3 DEF ConnInv, SentInOrder, Owed, conns
<1>4. CASE Push
  <2>1. Relayed' = Relayed
    BY <1>4 DEF Push, Relayed, ChanInv, ChanTypeOK
  <2> QED BY <1>3, <1>4, <2>1 DEF Push
<1>5. CASE Pop /\ defined
  <2>1. Relayed' = Relayed + 1 /\ data' = Relayed + 1
    BY <1>5, PopKeeps
  <2>2. unsent = {} /\ relayer = "pop"
    BY <1>5 DEF Pop, ConnInv
  <2>3. SentInOrder'
    BY <1>2, <1>5, <2>1, <2>2 DEF Pop, ConnInv, SentInOrder, Owed, conns
  <2> QED BY <1>5, <2>1, <2>3 DEF Pop, ConnInv, conns
<1>6. ASSUME NEW c \in Conn, Send(c), defined PROVE ConnInv'
  <2>1. Relayed' = Relayed /\ data' = data /\ data = Relayed /\ relayer = "send"
    BY <1>6 DEF Send, Relayed, chan, ConnInv
  <2>2. received[c] \in Seq(Nat) /\ Len(received[c]) \in Nat /\ started[c] \in Nat
    BY DEF ConnInv
  <2>3. started[c] + Len(received[c]) = Relayed - 1
    BY <1>6, <2>1 DEF Send, ConnInv, SentInOrder, Owed
  <2> DEFINE new == Append(received[c], data)
  <2>4. /\ new \in Seq(Nat) /\ Len(new) = Len(received[c]) + 1
        /\ \A i \in 1 .. Len(received[c]) : new[i] = received[c][i]
        /\ new[Len(received[c]) + 1] = data
    BY <1>2, <2>1, <2>2, AppendProperties
  <2>5. \A i \in 1 .. Len(new) : new[i] = started[c] + i
    <3>1. ASSUME NEW i \in 1 .. Len(new) PROVE new[i] = started[c] + i
      <4>1. CASE i \in 1 .. Len(received[c])
        BY <1>6, <2>4, <4>1 DEF ConnInv, SentInOrder
      <4>2. CASE i = Len(received[c]) + 1
        BY <1>2, <2>1, <2>2, <2>3, <2>4, <4>2, SMTT(30)
      <4> QED BY <2>2, <2>4, <4>1, <4>2
    <3> QED BY <3>1
  <2>6. received' = [received EXCEPT ![c] = new] /\ received' \in [Conn -> Seq(Nat)]
    BY <1>6, <2>4 DEF Send, ConnInv
  <2> HIDE DEF new
  <2>7. c \in subscribers /\ received'[c] = new
    BY <1>6, <2>6 DEF Send, ConnInv
  <2>8. SentInOrder'
    <3> SUFFICES ASSUME NEW d \in Conn
                 PROVE  /\ \A i \in 1 .. Len(received'[d]) : received'[d][i] = started[d] + i
                        /\ d \in subscribers => started[d] + Len(received'[d]) = Owed(d)'
      BY <1>6 DEF SentInOrder, Send
    <3>1. CASE d = c
      <4>1. Owed(c)' = Relayed
        BY <1>6, <2>1 DEF Owed, Send
      <4>2. started[c] + Len(new) = Relayed
        <5>1. Len(new) = Len(received[c]) + 1 /\ Len(received[c]) \in Nat
          BY <2>2, <2>4
        <5>2. started[c] \in Nat /\ Relayed \in Nat
          BY <1>2, <2>2
        <5> QED BY <5>1, <5>2, <2>3
      <4>3. received'[d] = new /\ started[d] = started[c] /\ Owed(d)' = Relayed
        BY <2>7, <3>1, <4>1
      <4> QED BY <2>5, <3>1, <4>2, <4>3
    <3>2. CASE d # c
      <4>1. Owed(d)' = Owed(d) /\ received'[d] = received[d]
        BY <1>6, <2>1, <2>6, <3>2 DEF Owed, Send, ConnInv
      <4> QED BY <1>6, <4>1 DEF ConnInv, SentInOrder
    <3> QED BY <3>1, <3>2
  <2>9. \A d \in Conn : d \notin subscribers \union gone => received'[d] = <<>>
    BY <2>6, <2>7 DEF ConnInv
  <2> QED BY <1>6, <2>1, <2>6, <2>8, <2>9 DEF Send, ConnInv
<1>7. ASSUME NEW c \in Conn, Open(c), defined PROVE ConnInv'
  <2>1. Relayed' = Relayed /\ data' = data
    BY <1>7 DEF Open, Relayed, chan
  <2>2. received[c] = <<>> /\ Len(received[c]) = 0
    BY <1>7 DEF Open, ConnInv
  <2>3. SentInOrder'
    <3> SUFFICES ASSUME relayer # "send", NEW d \in Conn
                 PROVE  /\ \A i \in 1 .. Len(received[d]) : received[d][i] = started'[d] + i
                        /\ d \in subscribers' => started'[d] + Len(received[d]) = Relayed
      BY <1>7, <2>1 DEF Open, SentInOrder, Owed
    <3>1. CASE d = c
      <4>1. started'[c] = Relayed
        BY <1>7 DEF Open, ConnInv
      <4> QED BY <1>2, <2>2, <3>1, <4>1
    <3>2. CASE d # c
      BY <1>7, <3>2 DEF Open, ConnInv, SentInOrder, Owed
    <3> QED BY <3>1, <3>2
  <2>4. started' \in [Conn -> Nat]
    BY <1>2, <1>7 DEF Open, ConnInv
  <2> QED BY <1>7, <2>1, <2>3, <2>4 DEF Open, ConnInv
<1>8. ASSUME NEW c \in Conn, Close(c), defined PROVE ConnInv'
  <2>1. Relayed' = Relayed /\ data' = data
    BY <1>8 DEF Close, Relayed, chan
  <2>2. SentInOrder'
    BY <1>8, <2>1 DEF Close, ConnInv, SentInOrder, Owed
  <2> QED BY <1>8, <2>1, <2>2 DEF Close, ConnInv
<1>9. CASE (Test \/ Wait \/ PopNothing \/ SendEnd \/ CloseChannel \/ Join \/ UNCHANGED vars) /\ ~Pop /\ ~Push
  <2>1. Relayed' = Relayed /\ data' = data
    BY <1>1, <1>2, <1>9
  <2>2. /\ UNCHANGED <<conns, unsent, defined>>
        /\ relayer' = relayer \/ (relayer # "send" /\ relayer' # "send") \/ (unsent = {} /\ relayer' # "send")
    BY <1>9 DEF Test, Wait, PopNothing, SendEnd, CloseChannel, Join, vars
  <2>3. unsent = {} \/ relayer' = relayer
    BY <2>2 DEF ConnInv
  <2>4. \A c \in Conn : Owed(c)' = Owed(c)
    BY <2>1, <2>2, <2>3 DEF Owed
  <2> QED BY <2>1, <2>2, <2>3, <2>4 DEF ConnInv, SentInOrder, conns
<1>10. defined \/ UNCHANGED vars
  BY DEF Next
<1>11. CASE UNCHANGED vars
  <2>1. UNCHANGED <<conns, relayer, unsent, data, defined>> /\ Relayed' = Relayed
    BY <1>11 DEF vars, chan, Relayed
  <2> QED BY <1>3, <2>1
<1>12. CASE defined /\ Next /\ ~Pop /\ ~Push
  BY <1>12, <1>6, <1>7, <1>8, <1>9 DEF Next, RelayerStep
<1> QED BY <1>4, <1>5, <1>10, <1>11, <1>12

(* server.cpp's relayer and channel.h: a client is sent, in order and       *)
(* without a gap or a repetition, the events relayed since it connected,    *)
(* whatever the number of events and of clients that come and go, as long   *)
(* as none does while the relayer walks over subscribers.                   *)
THEOREM SentWithoutGap == Spec => []SentInOrder
<1>1. Init => ConnInv
  <2> SUFFICES ASSUME Init PROVE ConnInv
    OBVIOUS
  <2>1. received \in [Conn -> Seq(Nat)] /\ started \in [Conn -> Nat]
    BY DEF Init
  <2>2. \A c \in Conn : Len(received[c]) = 0 /\ received[c] = <<>>
    BY DEF Init
  <2>4. Relayed = 0
    BY ChanInit DEF Init, Relayed
  <2>3. SentInOrder
    <3>1. \A c \in Conn : started[c] = 0 /\ c \notin subscribers
      BY DEF Init
    <3>2. \A c \in Conn : \A i \in 1 .. Len(received[c]) : FALSE
      BY <2>2
    <3> QED BY <3>1, <3>2 DEF SentInOrder
  <2> QED BY <2>1, <2>2, <2>3 DEF Init, ConnInv
<1>2. ChanInv /\ ConnInv /\ [Next]_vars => ConnInv'
  BY ConnStep
<1>3. ConnInv => SentInOrder
  BY DEF ConnInv
<1>4. Init => ChanInv
  BY ChanInit
<1>5. ChanInv /\ [Next]_vars => ChanInv'
  BY StepKeeps
<1> QED BY <1>1, <1>2, <1>3, <1>4, <1>5, PTL DEF Spec
=============================================================================
