------------------------ MODULE RingtoneThreadsProofs ------------------------
(* Theorems about RingtoneThreads for handlers that do not overlap: for     *)
(* every finite set of calls and every bound on the counters.               *)
EXTENDS RingtoneThreads, FiniteSetTheorems, TLAPS

Labels == {"idle", "load", "store", "connect",
           "testRinging", "decRinging", "testRingBack", "decRingBack"}

Shape ==
    /\ isRinging \in [Call -> BOOLEAN]
    /\ rung \in [Call -> Tune \union {"none"}]
    /\ count \in [Tune -> Int]
    /\ playing \subseteq Tune
    /\ pc \in [Call -> Labels]
    /\ loaded \in [Call -> Int]
    /\ throwing \in [Call -> SUBSET Tune]

(* One handler at most is under way.  What it has loaded is what is there,  *)
(* and a counter that it is about to take down has been found at one.       *)
Serial ==
    /\ \A c, d \in Busy : c = d
    /\ \A c \in Call : pc[c] \in {"load", "store", "connect"} => rung[c] \in Tune
    /\ \A c \in Call : pc[c] = "store" => loaded[c] = count[rung[c]] + 1
    /\ \A c \in Call, t \in Tune : pc[c] = DecOf(t) => count[t] = 1
    /\ CountsNotNegative

SerialInv == Shape /\ Serial

-----------------------------------------------------------------------------
LEMMA NobodyBusy ==
    ASSUME Threads = 1, IsFiniteSet(Call), NEW c \in Call, MayBegin(c)
    PROVE  \A d \in Call : pc[d] = "idle"
<1>1. IsFiniteSet(Busy) /\ Cardinality(Busy) \in Nat
  BY FS_Subset, FS_CardinalityType DEF Busy
<1>2. Busy = {}
  BY <1>1, FS_EmptySet DEF MayBegin
<1> QED BY <1>2 DEF Busy

(* Nothing changes but the statement the handler of c is at. *)
LEMMA OneBusy ==
    ASSUME Shape, NEW c \in Call, NEW label \in Labels, Goto(c, label),
           \A d \in Call : d # c => pc[d] = "idle"
    PROVE  /\ pc' \in [Call -> Labels]
           /\ pc'[c] = label
           /\ \A d \in Call : d # c => pc'[d] = "idle"
           /\ \A d, e \in Busy' : d = e
BY DEF Shape, Goto, Busy

LEMMA SerialInit == Init => SerialInv
<1> SUFFICES ASSUME Init PROVE SerialInv
  OBVIOUS
<1>1. isRinging \in [Call -> BOOLEAN]
  BY Zenon DEF Init
<1>2. Shape
  BY <1>1 DEF Init, Shape, Labels
<1>3. \A c \in Call, t \in Tune : pc[c] # DecOf(t)
  BY DEF Init, DecOf
<1> QED BY <1>2, <1>3 DEF Init, SerialInv, Serial, Busy, CountsNotNegative

LEMMA SerialStep ==
    ASSUME Threads = 1, IsFiniteSet(Call), SerialInv, [Next]_vars
    PROVE  SerialInv'
<1> USE DEF SerialInv
<1>00. ASSUME NEW c \in Call, Fate(c) PROVE throwing' \in [Call -> SUBSET Tune]
  BY <1>00 DEF Fate, Throwing, Shape
<1>0. ASSUME NEW c \in Call, NEW d \in Call, pc[c] # "idle", d # c PROVE pc[d] = "idle"
  BY <1>0 DEF Serial, Busy
<1>1. ASSUME NEW c \in Call, NEW t \in Tune, StartRinging(c, t) PROVE SerialInv'
  <2>1. \A d \in Call : pc[d] = "idle"
    BY <1>1, NobodyBusy DEF StartRinging
  <2>2. /\ pc' \in [Call -> Labels] /\ pc'[c] = "load"
        /\ \A d \in Call : d # c => pc'[d] = "idle"
        /\ \A d, e \in Busy' : d = e
    BY <1>1, <2>1, OneBusy DEF StartRinging, Labels
  <2>3. rung' \in [Call -> Tune \union {"none"}] /\ rung'[c] = t
    BY <1>1 DEF StartRinging, Shape
  <2>4. isRinging' \in [Call -> BOOLEAN]
    BY <1>1 DEF StartRinging, Shape
  <2>5. \A d \in Call, u \in Tune : pc'[d] # DecOf(u)
    BY <2>2 DEF DecOf
  <2> QED BY <1>00, <1>1, <2>2, <2>3, <2>4, <2>5 DEF StartRinging, Shape, Serial, CountsNotNegative
<1>2. ASSUME NEW c \in Call, Load(c) PROVE SerialInv'
  <2>1. /\ pc' \in [Call -> Labels] /\ pc'[c] = "store"
        /\ \A d \in Call : d # c => pc'[d] = "idle"
        /\ \A d, e \in Busy' : d = e
    BY <1>0, <1>2, OneBusy DEF Load, Labels
  <2>2. rung[c] \in Tune
    BY <1>2 DEF Load, Serial
  <2>3. loaded' \in [Call -> Int] /\ loaded'[c] = count[rung[c]] + 1
    BY <1>2, <2>2 DEF Load, Shape
  <2>4. \A d \in Call, u \in Tune : pc'[d] # DecOf(u)
    BY <2>1 DEF DecOf
  <2> QED BY <1>2, <2>1, <2>2, <2>3, <2>4 DEF Load, Shape, Serial, CountsNotNegative
<1>3. ASSUME NEW c \in Call, Store(c) PROVE SerialInv'
  <2>1. /\ pc' \in [Call -> Labels] /\ pc'[c] \in {"connect", "idle"}
        /\ \A d \in Call : d # c => pc'[d] = "idle"
        /\ \A d, e \in Busy' : d = e
    BY <1>0, <1>3, OneBusy DEF Store, Labels
  <2>2. rung[c] \in Tune /\ loaded[c] = count[rung[c]] + 1
    BY <1>3 DEF Store, Serial
  <2>3. count' = [count EXCEPT ![rung[c]] = count[rung[c]] + 1]
    BY <1>3, <2>2 DEF Store
  <2>4. count' \in [Tune -> Int] /\ CountsNotNegative'
    BY <2>2, <2>3 DEF Shape, Serial, CountsNotNegative
  <2>5. \A d \in Call, u \in Tune : pc'[d] # DecOf(u)
    BY <2>1 DEF DecOf
  <2> QED BY <1>3, <2>1, <2>2, <2>4, <2>5 DEF Store, Shape, Serial
<1>4. ASSUME NEW c \in Call, Connect(c) PROVE SerialInv'
  <2>1. /\ pc' \in [Call -> Labels] /\ pc'[c] = "idle"
        /\ \A d \in Call : d # c => pc'[d] = "idle"
        /\ \A d, e \in Busy' : d = e
    BY <1>0, <1>4, OneBusy DEF Connect, Labels
  <2>2. rung[c] \in Tune
    BY <1>4 DEF Connect, Serial
  <2>3. \A d \in Call, u \in Tune : pc'[d] # DecOf(u)
    BY <2>1 DEF DecOf
  <2> QED BY <1>4, <2>1, <2>2, <2>3 DEF Connect, Shape, Serial, CountsNotNegative
<1>5. ASSUME NEW c \in Call, StopRinging(c) PROVE SerialInv'
  <2>1. \A d \in Call : pc[d] = "idle"
    BY <1>5, NobodyBusy DEF StopRinging
  <2>2. /\ pc' \in [Call -> Labels] /\ pc'[c] = "testRinging"
        /\ \A d \in Call : d # c => pc'[d] = "idle"
        /\ \A d, e \in Busy' : d = e
    BY <1>5, <2>1, OneBusy DEF StopRinging, Labels
  <2>3. rung' \in [Call -> Tune \union {"none"}] /\ isRinging' \in [Call -> BOOLEAN]
    BY <1>5 DEF StopRinging, Shape
  <2>4. \A d \in Call, u \in Tune : pc'[d] # DecOf(u)
    BY <2>2 DEF DecOf
  <2> QED BY <1>00, <1>5, <2>2, <2>3, <2>4 DEF StopRinging, Shape, Serial, CountsNotNegative
<1>6. ASSUME NEW c \in Call, NEW t \in Tune, Test(c, t) PROVE SerialInv'
  <2>0. pc[c] # "idle"
    BY <1>6 DEF Test, TestOf
  <2>1. /\ pc' \in [Call -> Labels]
        /\ pc'[c] = IF count[t] - 1 = 0 THEN DecOf(t) ELSE After(t)
        /\ \A d \in Call : d # c => pc'[d] = "idle"
        /\ \A d, e \in Busy' : d = e
    BY <1>0, <1>6, <2>0, OneBusy DEF Test, Labels, DecOf, After
  <2>2. \A u \in Tune : DecOf(u) = DecOf(t) => u = t
    BY DEF DecOf, Tune
  <2>3. \A d \in Call, u \in Tune : pc'[d] = DecOf(u) => d = c /\ u = t /\ count[t] = 1
    BY <2>1, <2>2 DEF DecOf, After, Tune, Shape
  <2>4. pc'[c] \notin {"load", "store", "connect"}
    BY <2>1 DEF DecOf, After
  <2> QED BY <1>6, <2>1, <2>3, <2>4 DEF Test, Shape, Serial, CountsNotNegative
<1>7. ASSUME NEW c \in Call, NEW t \in Tune, Decrement(c, t) PROVE SerialInv'
  <2>0. pc[c] # "idle" /\ count[t] = 1
    BY <1>7 DEF Decrement, DecOf, Serial
  <2>1. /\ pc' \in [Call -> Labels] /\ pc'[c] \in {After(t), "idle"}
        /\ \A d \in Call : d # c => pc'[d] = "idle"
        /\ \A d, e \in Busy' : d = e
    BY <1>0, <1>7, <2>0, OneBusy DEF Decrement, Labels, After
  <2>2. count' = [count EXCEPT ![t] = 0]
    <3>1. {0, count[t] - 1} = {0}
      BY <2>0
    <3> QED BY <1>7, <3>1 DEF Decrement
  <2>3. \A d \in Call, u \in Tune : pc'[d] # DecOf(u)
    BY <2>1 DEF DecOf, After
  <2>4. pc'[c] \notin {"load", "store", "connect"}
    BY <2>1 DEF After
  <2>5. count' \in [Tune -> Int] /\ CountsNotNegative'
    BY <2>2 DEF Shape, Serial, CountsNotNegative
  <2> QED BY <1>7, <2>1, <2>3, <2>4, <2>5 DEF Decrement, Shape, Serial
<1>8. CASE UNCHANGED vars
  BY <1>8 DEF vars, Shape, Serial, Busy, CountsNotNegative
<1> QED BY <1>1, <1>2, <1>3, <1>4, <1>5, <1>6, <1>7, <1>8 DEF Next

(* StopRinging's test before the decrement is enough for one handler at a   *)
(* time: no counter goes below zero.                                        *)
THEOREM SerialCounts ==
    ASSUME Threads = 1, IsFiniteSet(Call)
    PROVE  Spec => []CountsNotNegative
<1>1. SerialInv /\ [Next]_vars => SerialInv'
  BY SerialStep
<1>2. SerialInv => CountsNotNegative
  BY DEF SerialInv, Serial
<1> QED BY SerialInit, <1>1, <1>2, PTL DEF Spec

-----------------------------------------------------------------------------
(* The refinement *)

(* What the handler of c, alone, makes of the predicates. *)
Rises(c, t) == pc[c] \in {"load", "store"} /\ rung[c] = t
Connects(c, t) == /\ pc[c] = "connect" \/ (pc[c] \in {"load", "store"} /\ count[t] = 0)
                  /\ rung[c] = t /\ t \notin throwing[c]

LEMMA QuietIdle ==
    ASSUME NEW d \in Call, NEW t \in Tune, pc[d] = "idle"
    PROVE  ~Rises(d, t) /\ ~Connects(d, t) /\ ~Falls(d, t)
BY DEF Rises, Connects, Falls, ToTest, DecOf

LEMMA QuietIdleNext ==
    ASSUME NEW d \in Call, NEW t \in Tune, pc'[d] = "idle"
    PROVE  ~Rises(d, t)' /\ ~Connects(d, t)' /\ ~Falls(d, t)'
BY DEF Rises, Connects, Falls, ToTest, DecOf

(* With nobody under way, what will be is what is. *)
LEMMA FinalWhenQuiet ==
    ASSUME Shape, \A c \in Call : pc[c] = "idle"
    PROVE  FinalCount = count /\ FinalPlaying = playing
<1>1. \A t \in Tune : ~Rising(t) /\ ~Connecting(t) /\ ~Falling(t) /\ ~Disconnecting(t)
  BY QuietIdle DEF Rising, Connecting, Falling, Disconnecting, Rises, Connects
<1>2. FinalCount = count
  BY <1>1 DEF FinalCount, Shape
<1>3. FinalPlaying = playing
  BY <1>1 DEF FinalPlaying, Shape
<1> QED BY <1>2, <1>3

(* The predicates, when c alone may be under way. *)
Only(c) == \A d \in Call : d # c => pc[d] = "idle"

LEMMA WhatIsUnderWay ==
    ASSUME NEW c \in Call, Only(c), NEW t \in Tune
    PROVE  /\ Rising(t) <=> Rises(c, t)
           /\ Connecting(t) <=> Connects(c, t)
           /\ Falling(t) <=> Falls(c, t)
           /\ Disconnecting(t) <=> Falls(c, t) /\ t \notin throwing[c]
<1>1. ASSUME NEW d \in Call, d # c PROVE ~Rises(d, t) /\ ~Connects(d, t) /\ ~Falls(d, t)
  BY <1>1, QuietIdle DEF Only
<1>2. Rising(t) <=> Rises(c, t)
  BY <1>1 DEF Rising, Rises
<1>3. Connecting(t) <=> Connects(c, t)
  BY <1>1 DEF Connecting, Connects
<1>4. Falling(t) <=> Falls(c, t)
  BY <1>1 DEF Falling
<1>5. Disconnecting(t) <=> Falls(c, t) /\ t \notin throwing[c]
  BY <1>1 DEF Disconnecting
<1> QED BY <1>2, <1>3, <1>4, <1>5

LEMMA WhatIsUnderWayNext ==
    ASSUME NEW c \in Call, Only(c)', NEW t \in Tune
    PROVE  /\ Rising(t)' <=> Rises(c, t)'
           /\ Connecting(t)' <=> Connects(c, t)'
           /\ Falling(t)' <=> Falls(c, t)'
           /\ Disconnecting(t)' <=> Falls(c, t)' /\ t \notin throwing'[c]
<1>1. ASSUME NEW d \in Call, d # c PROVE ~Rises(d, t)' /\ ~Connects(d, t)' /\ ~Falls(d, t)'
  BY <1>1, QuietIdleNext DEF Only
<1>2. Rising(t)' <=> Rises(c, t)'
  BY <1>1 DEF Rising, Rises
<1>3. Connecting(t)' <=> Connects(c, t)'
  BY <1>1 DEF Connecting, Connects
<1>4. Falling(t)' <=> Falls(c, t)'
  BY <1>1 DEF Falling
<1>5. Disconnecting(t)' <=> Falls(c, t)' /\ t \notin throwing'[c]
  BY <1>1 DEF Disconnecting
<1> QED BY <1>2, <1>3, <1>4, <1>5

Final == <<isRinging, rung, FinalCount, FinalPlaying>>

(* Two states in which the predicates and what they speak of agree. *)
LEMMA FinalSame ==
    ASSUME UNCHANGED <<isRinging, rung>>,
           \A t \in Tune : /\ FinalCount'[t] = FinalCount[t]
                           /\ t \in FinalPlaying' <=> t \in FinalPlaying
    PROVE  UNCHANGED Final
<1>1. FinalCount' = FinalCount
  BY DEF FinalCount
<1>2. FinalPlaying' = FinalPlaying
  BY DEF FinalPlaying
<1> QED BY <1>1, <1>2 DEF Final

(* Every statement of a handler but the first carries out what the first    *)
(* has announced.                                                           *)
LEMMA CarriedOut ==
    ASSUME SerialInv, NEW c \in Call,
           \/ Load(c) \/ Store(c) \/ Connect(c)
           \/ \E t \in Tune : Test(c, t) \/ Decrement(c, t)
    PROVE  UNCHANGED Final
<1> USE DEF SerialInv
<1>1. pc[c] # "idle" /\ UNCHANGED <<isRinging, rung, throwing>> /\ Only(c)'
  <2>1. pc[c] # "idle" /\ UNCHANGED <<isRinging, rung, throwing>>
    BY DEF Load, Store, Connect, Test, Decrement, TestOf, DecOf
  <2>2. \E label : Goto(c, label)
    BY DEF Load, Store, Connect, Test, Decrement
  <2> QED BY <2>1, <2>2 DEF Goto, Only, Shape, Serial, Busy
<1>2. Only(c)
  BY <1>1 DEF Only, Serial, Busy
<1> SUFFICES ASSUME NEW t \in Tune
             PROVE /\ FinalCount'[t] = FinalCount[t]
                   /\ t \in FinalPlaying' <=> t \in FinalPlaying
  BY <1>1, FinalSame
<1> DEFINE Spared == t \notin throwing[c]
<1>3. /\ Rising(t) <=> Rises(c, t)
      /\ Connecting(t) <=> Connects(c, t)
      /\ Falling(t) <=> Falls(c, t)
      /\ Disconnecting(t) <=> Falls(c, t) /\ Spared
  BY <1>2, WhatIsUnderWay
<1>4. /\ Rising(t)' <=> Rises(c, t)'
      /\ Connecting(t)' <=> Connects(c, t)'
      /\ Falling(t)' <=> Falls(c, t)'
      /\ Disconnecting(t)' <=> Falls(c, t)' /\ Spared
  BY <1>1, WhatIsUnderWayNext
<1>5. /\ FinalCount[t] = IF Falls(c, t) THEN 0 ELSE IF Rises(c, t) THEN count[t] + 1 ELSE count[t]
      /\ FinalCount'[t] = IF Falls(c, t)' THEN 0 ELSE IF Rises(c, t)' THEN count'[t] + 1 ELSE count'[t]
      /\ t \in FinalPlaying <=> (t \in playing \/ Connects(c, t)) /\ ~(Falls(c, t) /\ Spared)
      /\ t \in FinalPlaying' <=> (t \in playing' \/ Connects(c, t)') /\ ~(Falls(c, t)' /\ Spared)
  BY <1>3, <1>4 DEF FinalCount, FinalPlaying
<1> HIDE DEF Spared
<1>6. CASE Load(c)
  <2>1. pc[c] = "load" /\ pc'[c] = "store" /\ UNCHANGED <<rung, count, playing>>
    BY <1>6 DEF Load, Goto, Shape
  <2> QED BY <1>1, <1>5, <2>1 DEF Rises, Connects, Falls, ToTest, DecOf
<1>7. CASE Store(c)
  <2>1. /\ pc[c] = "store" /\ pc'[c] = IF loaded[c] = 1 THEN "connect" ELSE "idle"
        /\ UNCHANGED <<rung, playing>>
    BY <1>7 DEF Store, Goto, Shape
  <2>2. rung[c] \in Tune /\ loaded[c] = count[rung[c]] + 1 /\ count[rung[c]] \in Int
    BY <1>7 DEF Store, Serial, Shape
  <2>3. count' = [count EXCEPT ![rung[c]] = count[rung[c]] + 1]
    BY <1>7, <2>2 DEF Store
  <2>4. count'[t] = IF t = rung[c] THEN count[t] + 1 ELSE count[t]
    BY <2>3 DEF Shape
  <2>5. ~Falls(c, t) /\ ~Falls(c, t)'
    BY <2>1 DEF Falls, ToTest, DecOf
  <2>6. /\ Rises(c, t) <=> rung[c] = t
        /\ ~Rises(c, t)'
        /\ Connects(c, t) <=> count[t] = 0 /\ rung[c] = t /\ Spared
        /\ Connects(c, t)' <=> loaded[c] = 1 /\ rung[c] = t /\ Spared
    BY <1>1, <2>1 DEF Rises, Connects, Spared
  <2> QED BY <1>5, <2>1, <2>2, <2>4, <2>5, <2>6
<1>8. CASE Connect(c)
  <2>1. /\ pc[c] = "connect" /\ pc'[c] = "idle" /\ UNCHANGED <<rung, count>>
        /\ playing' = IF rung[c] \in throwing[c] THEN playing ELSE playing \union {rung[c]}
    BY <1>8 DEF Connect, Goto, Shape
  <2>2. Connects(c, t) <=> rung[c] = t /\ Spared
    BY <2>1 DEF Connects, Spared
  <2>3. ~Connects(c, t)' /\ ~Falls(c, t) /\ ~Falls(c, t)' /\ ~Rises(c, t) /\ ~Rises(c, t)'
    BY <2>1 DEF Connects, Falls, ToTest, DecOf, Rises
  <2> QED BY <1>5, <2>1, <2>2, <2>3 DEF Spared
<1>9. ASSUME NEW u \in Tune, Test(c, u)
      PROVE /\ FinalCount'[t] = FinalCount[t]
            /\ t \in FinalPlaying' <=> t \in FinalPlaying
  <2>1. /\ pc[c] = TestOf(u) /\ pc'[c] = IF count[u] - 1 = 0 THEN DecOf(u) ELSE After(u)
        /\ UNCHANGED <<rung, count, playing>>
    BY <1>9 DEF Test, Goto, Shape
  <2>2. count[u] - 1 = 0 <=> count[u] = 1
    BY DEF Shape
  <2>3. Falls(c, t)' <=> Falls(c, t)
    BY <1>1, <2>1, <2>2 DEF Falls, ToTest, ThrowsFirst, TestOf, DecOf, After, Tune
  <2>4. ~Rises(c, t) /\ ~Rises(c, t)' /\ ~Connects(c, t) /\ ~Connects(c, t)'
    BY <2>1 DEF Rises, Connects, TestOf, DecOf, After
  <2> QED BY <1>5, <2>1, <2>3, <2>4
<1>10. ASSUME NEW u \in Tune, Decrement(c, u)
       PROVE /\ FinalCount'[t] = FinalCount[t]
             /\ t \in FinalPlaying' <=> t \in FinalPlaying
  <2>1. /\ pc[c] = DecOf(u) /\ count[u] = 1 /\ UNCHANGED rung
        /\ pc'[c] = IF u \in throwing[c] THEN "idle" ELSE After(u)
        /\ playing' = IF u \in throwing[c] THEN playing ELSE playing \ {u}
    BY <1>10 DEF Decrement, Goto, Shape, Serial
  <2>2. count' = [count EXCEPT ![u] = 0]
    <3>1. {0, count[u] - 1} = {0}
      BY <2>1
    <3> QED BY <1>10, <3>1 DEF Decrement
  <2>3. count'[t] = IF t = u THEN 0 ELSE count[t]
    BY <2>2 DEF Shape
  <2>4. ~Rises(c, t) /\ ~Rises(c, t)' /\ ~Connects(c, t) /\ ~Connects(c, t)'
    BY <2>1 DEF Rises, Connects, DecOf, After
  <2>5. IF t = u THEN Falls(c, t) /\ ~Falls(c, t)' ELSE Falls(c, t)' <=> Falls(c, t)
    BY <1>1, <2>1, <2>3 DEF Falls, ToTest, ThrowsFirst, DecOf, After, Tune
  <2> QED BY <1>5, <2>1, <2>3, <2>4, <2>5 DEF Spared
<1> QED BY <1>6, <1>7, <1>8, <1>9, <1>10

(* The first statement of StartRinging is the handler of Ringtones. *)
LEMMA StartsAtOnce ==
    ASSUME SerialInv, NEW c \in Call, NEW tune \in Tune, StartRinging(c, tune),
           Threads = 1, IsFiniteSet(Call)
    PROVE  Handlers!Ring(c, tune)
<1> USE DEF SerialInv
<1>1. /\ ~isRinging[c]
      /\ isRinging' = [isRinging EXCEPT ![c] = TRUE] /\ rung' = [rung EXCEPT ![c] = tune]
      /\ Goto(c, "load") /\ Fate(c) /\ UNCHANGED <<count, playing>> /\ MayBegin(c)
  BY DEF StartRinging
<1> PICK bad \in Throwing : throwing' = [throwing EXCEPT ![c] = bad]
  BY <1>1 DEF Fate
<1>2. \A d \in Call : pc[d] = "idle"
  BY <1>1, NobodyBusy
<1>3. FinalCount = count /\ FinalPlaying = playing
  BY <1>2, FinalWhenQuiet
<1>4. Only(c)' /\ pc'[c] = "load" /\ rung'[c] = tune /\ throwing'[c] = bad
  BY <1>1, <1>2 DEF Goto, Only, Shape
<1>5. \A t \in Tune : /\ Rising(t)' <=> t = tune
                      /\ Connecting(t)' <=> t = tune /\ count[t] = 0 /\ t \notin bad
                      /\ ~Falling(t)' /\ ~Disconnecting(t)'
  BY <1>1, <1>4, WhatIsUnderWayNext DEF Rises, Connects, Falls, ToTest, DecOf
<1>6. FinalCount' = [count EXCEPT ![tune] = @ + 1]
  BY <1>1, <1>5 DEF FinalCount, Shape
<1>7. FinalPlaying' = IF count[tune] + 1 = 1 /\ tune \notin bad THEN playing \union {tune} ELSE playing
  <2>1. count[tune] + 1 = 1 <=> count[tune] = 0
    BY DEF Shape
  <2> QED BY <1>1, <1>5, <2>1 DEF FinalPlaying, Shape
<1>8. /\ FinalCount' = [FinalCount EXCEPT ![tune] = @ + 1]
      /\ FinalPlaying' = IF FinalCount[tune] + 1 = 1 /\ tune \notin bad
                         THEN FinalPlaying \union {tune} ELSE FinalPlaying
  BY <1>3, <1>6, <1>7
<1>9. Handlers!StartRinging(c, tune, bad)
  BY <1>1, <1>8, Zenon DEF Handlers!StartRinging
<1> QED BY <1>9 DEF Handlers!Ring, Handlers!Throwing, Handlers!Tune, Throwing, Tune

(* So is that of StopRinging. *)
LEMMA StopsAtOnce ==
    ASSUME SerialInv, NEW c \in Call, StopRinging(c), Threads = 1, IsFiniteSet(Call)
    PROVE  Handlers!Silence(c)
<1> USE DEF SerialInv
<1>1. /\ isRinging[c]
      /\ isRinging' = [isRinging EXCEPT ![c] = FALSE] /\ rung' = [rung EXCEPT ![c] = "none"]
      /\ Goto(c, "testRinging") /\ Fate(c) /\ UNCHANGED <<count, playing>> /\ MayBegin(c)
  BY DEF StopRinging
<1> PICK bad \in Throwing : throwing' = [throwing EXCEPT ![c] = bad]
  BY <1>1 DEF Fate
<1>2. \A d \in Call : pc[d] = "idle"
  BY <1>1, NobodyBusy
<1>3. FinalCount = count /\ FinalPlaying = playing
  BY <1>2, FinalWhenQuiet
<1>4. Only(c)' /\ pc'[c] = "testRinging" /\ throwing'[c] = bad
  BY <1>1, <1>2 DEF Goto, Only, Shape
<1> DEFINE First == count["Ringing"] - 1 = 0 /\ "Ringing" \in bad
           Down == {t \in IF First THEN {"Ringing"} ELSE Tune : count[t] - 1 = 0}
<1>5. \A t \in Tune : count[t] - 1 = 0 <=> count[t] = 1
  BY DEF Shape
<1>6. \A t \in Tune : Falls(c, t)' <=> t \in Down
  BY <1>1, <1>4, <1>5 DEF Falls, ToTest, ThrowsFirst, DecOf, Tune
<1>7. \A t \in Tune : /\ ~Rising(t)' /\ ~Connecting(t)'
                      /\ Falling(t)' <=> t \in Down
                      /\ Disconnecting(t)' <=> t \in Down \ bad
  BY <1>4, <1>6, WhatIsUnderWayNext DEF Rises, Connects
<1>8. Down \subseteq Tune
  BY DEF Tune
<1> HIDE DEF Down
<1>9. FinalCount' = [t \in Tune |-> IF t \in Down THEN count[t] - 1 ELSE count[t]]
  <2>1. \A t \in Down : count[t] - 1 = 0
    BY DEF Down
  <2> QED BY <1>1, <1>7, <2>1 DEF FinalCount
<1>10. FinalPlaying' = playing \ (Down \ bad)
  BY <1>1, <1>7, <1>8 DEF FinalPlaying, Shape
<1>11. Handlers!TakenDown(bad) = Down
  BY <1>3 DEF Handlers!TakenDown, Handlers!Tested, Handlers!ThrowsFirst, Handlers!Tune, Tune, Down
<1>12. Handlers!StopRinging(c, bad)
  BY <1>1, <1>3, <1>9, <1>10, <1>11 DEF Handlers!StopRinging, Handlers!Fallen, Handlers!Tune, Tune
<1> QED BY <1>12 DEF Handlers!Silence, Handlers!Throwing, Handlers!Tune, Throwing, Tune

(* Handlers that do not overlap amount to the single steps of Ringtones:    *)
(* what is proved there of the counters and the generators holds of the     *)
(* statements of phone.cpp, for one handler at a time.                      *)
THEOREM SerialHandlersAreRingtones ==
    ASSUME Threads = 1, IsFiniteSet(Call)
    PROVE  Spec => ImplementsRingtones
<1>1. Init => Handlers!RingInit
  <2> SUFFICES ASSUME Init PROVE Handlers!RingInit
    OBVIOUS
  <2>1. FinalCount = count /\ FinalPlaying = playing
    BY SerialInit, FinalWhenQuiet DEF Init, SerialInv
  <2>2. isRinging = [c \in Call |-> FALSE]
    BY DEF Init
  <2> QED BY <2>1, <2>2 DEF Init, Handlers!RingInit, Handlers!Tune, Tune
<1>2. SerialInv /\ [Next]_vars => [Handlers!RingNext]_(Handlers!ringVars)
  <2> SUFFICES ASSUME SerialInv, [Next]_vars PROVE [Handlers!RingNext]_(Handlers!ringVars)
    OBVIOUS
  <2>1. ASSUME NEW c \in Call, NEW t \in Tune, StartRinging(c, t) PROVE Handlers!RingNext
    BY <2>1, StartsAtOnce DEF Handlers!RingNext, Handlers!Tune, Tune
  <2>2. ASSUME NEW c \in Call, StopRinging(c) PROVE Handlers!RingNext
    BY <2>2, StopsAtOnce DEF Handlers!RingNext
  <2>3. ASSUME NEW c \in Call,
               \/ Load(c) \/ Store(c) \/ Connect(c)
               \/ \E t \in Tune : Test(c, t) \/ Decrement(c, t)
        PROVE  UNCHANGED Handlers!ringVars
    BY <2>3, CarriedOut DEF Final, Handlers!ringVars
  <2>4. CASE UNCHANGED vars
    BY <2>4 DEF vars, Handlers!ringVars, FinalCount, FinalPlaying, Rising, Connecting, Falling,
         Disconnecting, Falls, ToTest, ThrowsFirst
  <2> QED BY <2>1, <2>2, <2>3, <2>4 DEF Next
<1>3. SerialInv /\ [Next]_vars => SerialInv'
  BY SerialStep
<1> QED BY SerialInit, <1>1, <1>2, <1>3, PTL DEF Spec, ImplementsRingtones, Handlers!RingSpec
=============================================================================
