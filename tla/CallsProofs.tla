------------------------------ MODULE CallsProofs ------------------------------
(* Theorems about Ringtones, Tones, Calls and CallApi, for every set of     *)
(* calls, accounts and slots and every configuration.  A step of Calls or   *)
(* CallApi, seen from the calls, changes one call at most and leaves marks  *)
(* (a re-INVITE under way, a hang-up) on others; the proofs follow this     *)
(* division.  The last part is about the texts of SipUri that CallApi       *)
(* shows.                                                                   *)
EXTENDS CallApi, FiniteSetTheorems, SequenceTheorems, WellFoundedInduction, TLAPS

-----------------------------------------------------------------------------
(* The tones: theorems about Ringtones and Tones, for every set of calls,   *)
(* and for generators that throw as well as for those that do not.          *)

(* The typing invariant of the tone counters. *)
THEOREM RingTyping == RingSpec => []RingTypeOK
<1>1. RingInit => RingTypeOK
  BY DEF RingInit, RingTypeOK
<1>2. RingTypeOK /\ [RingNext]_ringVars => RingTypeOK'
  <2> SUFFICES ASSUME RingTypeOK, [RingNext]_ringVars PROVE RingTypeOK'
    OBVIOUS
  <2>1. ASSUME NEW c \in Call, NEW tune \in Tune, Ring(c, tune) PROVE RingTypeOK'
    <3>1. PICK bad \in Throwing : StartRinging(c, tune, bad)
      BY <2>1 DEF Ring
    <3>2. isRinging' \in [Call -> BOOLEAN] /\ rung' \in [Call -> Tune \union {"none"}]
      BY <3>1 DEF RingTypeOK, StartRinging
    <3>3. count' \in [Tune -> Int] /\ playing' \subseteq Tune
      BY <3>1 DEF RingTypeOK, StartRinging
    <3> QED BY <3>2, <3>3 DEF RingTypeOK
  <2>2. ASSUME NEW c \in Call, Silence(c) PROVE RingTypeOK'
    <3>1. PICK bad \in Throwing : StopRinging(c, bad)
      BY <2>2 DEF Silence
    <3>2. isRinging' \in [Call -> BOOLEAN] /\ rung' \in [Call -> Tune \union {"none"}]
      BY <3>1 DEF RingTypeOK, StopRinging, Fallen
    <3>3. count' \in [Tune -> Int] /\ playing' \subseteq Tune
      BY <3>1 DEF RingTypeOK, StopRinging
    <3> QED BY <3>2, <3>3 DEF RingTypeOK
  <2>3. CASE UNCHANGED ringVars
    BY <2>3 DEF RingTypeOK, ringVars
  <2> QED BY <2>1, <2>2, <2>3 DEF RingNext
<1> QED BY <1>1, <1>2, PTL DEF RingSpec

(* A counter that reached two never comes down again: nothing but          *)
(* StopRinging lowers a counter, and only from one.                        *)
THEOREM StuckForGood == RingSpec => StuckTone
<1>1. RingTypeOK /\ [RingNext]_ringVars
        => [\A t \in Tune : count[t] >= 2 => count'[t] >= count[t]]_ringVars
  <2> SUFFICES ASSUME RingTypeOK, [RingNext]_ringVars, NEW t \in Tune, count[t] >= 2
               PROVE  count'[t] >= count[t]
    BY DEF ringVars
  <2>1. ASSUME NEW c \in Call, NEW tune \in Tune, Ring(c, tune) PROVE count'[t] >= count[t]
    BY <2>1 DEF RingTypeOK, Ring, StartRinging
  <2>2. ASSUME NEW c \in Call, Silence(c) PROVE count'[t] >= count[t]
    BY <2>2 DEF RingTypeOK, Silence, StopRinging, TakenDown
  <2>3. CASE UNCHANGED ringVars
    BY <2>3 DEF RingTypeOK, ringVars
  <2> QED BY <2>1, <2>2, <2>3 DEF RingNext
<1> QED BY <1>1, RingTyping, PTL DEF RingSpec, StuckTone

(* What the tones keep, by whatever calls and in whatever order.  A call   *)
(* rings with a tune, whose counter is not zero unless another call has    *)
(* stopped; and a counter of one is that of a call that rings: otherwise   *)
(* the generator would play on when nobody rings any more.                 *)
TonesKept ==
    /\ cut \subseteq Ringers
    /\ \A c \in Ringers : rung[c] \in Tune
    /\ \A c \in Ringers \ cut : count[rung[c]] >= 1
    /\ \A t \in Tune \ amiss : count[t] = 1 => \E c \in Ringers : rung[c] = t

TonesOK == ToneTypeOK /\ CountsNotNegative /\ ToneMatchesCount /\ TonesKept

LEMMA TonesInit == ToneInit => TonesOK
  BY DEF ToneInit, RingInit, TonesOK, ToneTypeOK, RingTypeOK, CountsNotNegative, ToneMatchesCount,
         TonesKept, Ringers

LEMMA TonesStart ==
    ASSUME TonesOK, NEW c \in Call, NEW tune \in Tune, StartsRinging(c, tune), ~isRinging[c]
    PROVE TonesOK' /\ isRinging'[c] /\ \A d \in Call \ {c} : isRinging'[d] = isRinging[d]
<1> USE DEF ToneTypeOK, RingTypeOK
<1>1. PICK bad \in Throwing :
        /\ StartRinging(c, tune, bad)
        /\ amiss' = IF count[tune] + 1 # 1 THEN amiss
                    ELSE IF tune \in bad THEN amiss \union {tune} ELSE amiss \ {tune}
        /\ UNCHANGED cut
  BY DEF StartsRinging
<1>2. /\ isRinging' = [isRinging EXCEPT ![c] = TRUE]
      /\ rung' = [rung EXCEPT ![c] = tune]
      /\ count' = [count EXCEPT ![tune] = @ + 1]
      /\ playing' = IF count[tune] + 1 = 1 /\ tune \notin bad THEN playing \union {tune} ELSE playing
  BY <1>1 DEF StartRinging
<1>3. ToneTypeOK'
  <2>1. isRinging' \in [Call -> BOOLEAN] /\ rung' \in [Call -> Tune \union {"none"}]
    BY <1>2 DEF TonesOK
  <2>2. count' \in [Tune -> Int] /\ playing' \subseteq Tune
    BY <1>2 DEF TonesOK
  <2>3. cut' \subseteq Call /\ amiss' \subseteq Tune
    BY <1>1 DEF TonesOK
  <2> QED BY <2>1, <2>2, <2>3
<1>4. CountsNotNegative'
  BY <1>2 DEF TonesOK, CountsNotNegative
<1>5. ToneMatchesCount'
  BY <1>1, <1>2 DEF TonesOK, CountsNotNegative, ToneMatchesCount
<1>6. Ringers' = Ringers \union {c} /\ c \notin Ringers
  BY <1>2 DEF TonesOK, Ringers
<1>7. /\ \A d \in Ringers : rung'[d] = rung[d]
      /\ rung'[c] = tune
      /\ \A t \in Tune : count'[t] = IF t = tune THEN count[t] + 1 ELSE count[t]
      /\ \A t \in Tune : count[t] \in Int /\ count[t] >= 0
  BY <1>2, <1>6 DEF TonesOK, Ringers, CountsNotNegative
<1>8. TonesKept'
  <2>1. cut' \subseteq Ringers' /\ \A d \in Ringers' : rung'[d] \in Tune
    BY <1>1, <1>6, <1>7 DEF TonesOK, TonesKept
  <2>2. ASSUME NEW d \in Ringers' \ cut' PROVE count'[rung'[d]] >= 1
    <3>1. CASE d = c
      BY <1>7, <3>1
    <3>2. CASE d # c
      <4>1. d \in Ringers \ cut /\ rung[d] \in Tune /\ count[rung[d]] >= 1 /\ rung'[d] = rung[d]
        BY <1>1, <1>6, <1>7, <2>2, <3>2 DEF TonesOK, TonesKept
      <4> QED BY <1>7, <4>1
    <3> QED BY <3>1, <3>2
  <2>3. ASSUME NEW t \in Tune \ amiss', count'[t] = 1 PROVE \E d \in Ringers' : rung'[d] = t
    <3>1. CASE t = tune
      BY <1>6, <1>7, <3>1
    <3>2. CASE t # tune
      <4>1. t \notin amiss /\ count[t] = 1
        BY <1>1, <1>7, <2>3, <3>2
      <4> QED BY <1>6, <1>7, <4>1 DEF TonesOK, TonesKept
    <3> QED BY <3>1, <3>2
  <2> QED BY <2>1, <2>2, <2>3 DEF TonesKept
<1>9. isRinging'[c] /\ \A d \in Call \ {c} : isRinging'[d] = isRinging[d]
  BY <1>2 DEF TonesOK
<1> QED BY <1>3, <1>4, <1>5, <1>8, <1>9 DEF TonesOK

LEMMA TonesStop ==
    ASSUME TonesOK, NEW c \in Call, StopsRinging(c), isRinging[c]
    PROVE TonesOK' /\ ~isRinging'[c] /\ \A d \in Call \ {c} : isRinging'[d] = isRinging[d]
<1> USE DEF ToneTypeOK, RingTypeOK
<1>1. PICK bad \in Throwing :
        /\ StopRinging(c, bad)
        /\ cut' = Ringers \ {c}
        /\ amiss' = (amiss \ TakenDown(bad)) \union (TakenDown(bad) \intersect bad) \union Skipped(bad)
  BY DEF StopsRinging
<1> DEFINE down == TakenDown(bad)
<1>2. /\ isRinging' = [isRinging EXCEPT ![c] = FALSE]
      /\ rung' = [rung EXCEPT ![c] = "none"]
      /\ count' = [t \in Tune |-> IF t \in down THEN count[t] - 1 ELSE count[t]]
      /\ playing' = playing \ (down \ bad)
  BY <1>1 DEF StopRinging, Fallen
<1>3. /\ down \subseteq Tune /\ \A t \in down : count[t] = 1
      /\ Skipped(bad) \subseteq Tune
      /\ \A t \in Tune : count[t] = 1 => t \in down \/ t \in Skipped(bad)
  BY DEF TakenDown, Tested, Skipped, TonesOK, Tune
<1>10. amiss' = (amiss \ down) \union (down \intersect bad) \union Skipped(bad)
  BY <1>1
<1> HIDE DEF down
<1>4. ToneTypeOK'
  <2>1. isRinging' \in [Call -> BOOLEAN] /\ rung' \in [Call -> Tune \union {"none"}]
    BY <1>2 DEF TonesOK
  <2>2. count' \in [Tune -> Int] /\ playing' \subseteq Tune
    BY <1>2 DEF TonesOK
  <2>3. cut' \subseteq Call /\ amiss' \subseteq Tune
    BY <1>1, <1>3, <1>10 DEF TonesOK, Ringers
  <2> QED BY <2>1, <2>2, <2>3
<1>5. CountsNotNegative'
  BY <1>2, <1>3 DEF TonesOK, CountsNotNegative
<1>6. ToneMatchesCount'
  <2> SUFFICES ASSUME NEW t \in Tune, t \notin amiss' PROVE t \in playing' <=> count'[t] # 0
    BY DEF ToneMatchesCount
  <2>1. CASE t \in down
    BY <1>2, <1>3, <1>10, <2>1
  <2>2. CASE t \notin down
    <3>1. t \notin amiss
      BY <1>10, <2>2
    <3> QED BY <1>2, <2>2, <3>1 DEF TonesOK, ToneMatchesCount
  <2> QED BY <2>1, <2>2
<1>7. Ringers' = Ringers \ {c}
  BY <1>2 DEF TonesOK, Ringers
<1>8. TonesKept'
  <2>1. cut' = Ringers' /\ \A d \in Ringers' : rung'[d] = rung[d] /\ rung[d] \in Tune
    BY <1>1, <1>2, <1>7 DEF TonesOK, TonesKept, Ringers
  <2>2. ASSUME NEW t \in Tune \ amiss' PROVE count'[t] # 1
    <3>1. t \notin Skipped(bad)
      BY <1>10, <2>2
    <3> QED BY <1>2, <1>3, <3>1 DEF TonesOK
  <2> QED BY <2>1, <2>2 DEF TonesKept
<1>9. ~isRinging'[c] /\ \A d \in Call \ {c} : isRinging'[d] = isRinging[d]
  BY <1>2 DEF TonesOK
<1> QED BY <1>4, <1>5, <1>6, <1>8, <1>9 DEF TonesOK

LEMMA TonesStay == TonesOK /\ UNCHANGED toneVars => TonesOK'
  BY DEF TonesOK, ToneTypeOK, RingTypeOK, CountsNotNegative, ToneMatchesCount, TonesKept, Ringers,
         toneVars, ringVars

(* A handler of c leaves the tones as they are, or starts or stops a tone. *)
LEMMA TonesStep ==
    ASSUME TonesOK, NEW c \in Call,
           UNCHANGED toneVars \/ StopsRinging(c) \/ \E tune \in Tune : StartsRinging(c, tune)
    PROVE /\ TonesOK' /\ \A d \in Call \ {c} : isRinging'[d] = isRinging[d]
          /\ StopsRinging(c) => ~isRinging'[c]
<1>1. CASE UNCHANGED toneVars
  <2>1. UNCHANGED isRinging
    BY <1>1 DEF toneVars, ringVars
  <2>2. StopsRinging(c) /\ isRinging[c] => ~isRinging'[c]
    BY TonesStop
  <2> QED BY <1>1, <2>1, <2>2, TonesStay
<1>2. CASE StopsRinging(c) /\ isRinging[c]
  BY <1>2, TonesStop
<1>3. ASSUME NEW tune \in Tune, StartsRinging(c, tune), ~isRinging[c]
      PROVE TonesOK' /\ isRinging'[c] /\ \A d \in Call \ {c} : isRinging'[d] = isRinging[d]
  BY <1>3, TonesStart
<1>4. isRinging[c] => \A tune \in Tune : StartsRinging(c, tune) => UNCHANGED toneVars
  BY DEF StartsRinging
<1>5. ~isRinging[c] => (StopsRinging(c) => UNCHANGED toneVars)
  BY DEF StopsRinging
<1> QED BY <1>1, <1>2, <1>3, <1>4, <1>5

(* What TonesOK says to the user. *)
LEMMA TonesTell == TonesOK => HeardUnlessCut /\ QuietWhenIdle
<1> SUFFICES ASSUME TonesOK PROVE HeardUnlessCut /\ QuietWhenIdle
  OBVIOUS
<1>1. ASSUME NEW c \in Ringers \ cut PROVE rung[c] \in amiss \/ rung[c] \in playing
  BY DEF TonesOK, ToneMatchesCount, TonesKept
<1>2. ASSUME Ringers = {}, NEW t \in playing, t \notin amiss PROVE count[t] >= 2
  <2>1. t \in Tune /\ count[t] \in Int /\ count[t] >= 0 /\ count[t] # 0
    BY <1>2 DEF TonesOK, ToneTypeOK, RingTypeOK, CountsNotNegative, ToneMatchesCount
  <2>2. count[t] # 1
    BY <1>2, <2>1 DEF TonesOK, TonesKept
  <2> QED BY <2>1, <2>2
<1> QED BY <1>1, <1>2 DEF HeardUnlessCut, QuietWhenIdle

(* phone.cpp's StartRinging and StopRinging, by any calls in any order, and *)
(* with any generator throwing at any time: the counters do not go below    *)
(* zero and tell which generators are connected, but for those that a throw *)
(* has left amiss; a ringing call is heard until another one stops ringing; *)
(* and when nobody rings only a tune that two have rung together plays on.  *)
THEOREM ToneAccounting ==
    ToneSpec => [](CountsNotNegative /\ ToneMatchesCount /\ HeardUnlessCut /\ QuietWhenIdle)
<1>1. TonesOK /\ [ToneNext]_toneVars => TonesOK'
  BY TonesStep, TonesStay DEF ToneNext
<1>2. TonesOK => CountsNotNegative /\ ToneMatchesCount /\ HeardUnlessCut /\ QuietWhenIdle
  BY TonesTell DEF TonesOK
<1> QED BY <1>1, <1>2, TonesInit, PTL DEF ToneSpec

-----------------------------------------------------------------------------
(* Vectors *)

LEMMA RemovedAt ==
    ASSUME NEW S, NEW s \in Seq(S), NEW n \in 1 .. Len(s)
    PROVE /\ RemoveAt(s, n) \in Seq(S)
          /\ Len(RemoveAt(s, n)) = Len(s) - 1
          /\ \A i \in 1 .. Len(s) - 1 : RemoveAt(s, n)[i] = IF i < n THEN s[i] ELSE s[i + 1]
<1> DEFINE a == SubSeq(s, 1, n - 1)
           b == SubSeq(s, n + 1, Len(s))
<1>1. PICK l \in Nat : l = Len(s) /\ n \in 1 .. l
  BY LenProperties
<1>2. a \in Seq(S) /\ Len(a) = n - 1 /\ \A i \in 1 .. n - 1 : a[i] = s[i]
  BY <1>1
<1>3. b \in Seq(S) /\ Len(b) = l - n /\ \A i \in 1 .. l - n : b[i] = s[n + i]
  <2>1. /\ b \in Seq(S)
        /\ Len(b) = IF n + 1 <= l THEN l - (n + 1) + 1 ELSE 0
        /\ \A i \in 1 .. l - (n + 1) + 1 : b[i] = s[n + 1 + i - 1]
    <3>1. \A i \in n + 1 .. l : s[i] \in S
      BY <1>1
    <3> QED BY <1>1, <3>1, SubSeqProperties
  <2> HIDE DEF b
  <2>2. Len(b) = l - n
    BY <1>1, <2>1
  <2>3. ASSUME NEW i \in 1 .. l - n PROVE b[i] = s[n + i]
    <3>1. i \in 1 .. l - (n + 1) + 1 /\ n + 1 + i - 1 = n + i
      BY <1>1
    <3> QED BY <2>1, <3>1
  <2> QED BY <2>1, <2>2, <2>3
<1> HIDE DEF a, b
<1>4. /\ a \o b \in Seq(S) /\ Len(a \o b) = Len(a) + Len(b)
      /\ \A i \in 1 .. Len(a) + Len(b) : (a \o b)[i] = IF i <= Len(a) THEN a[i] ELSE b[i - Len(a)]
  BY <1>2, <1>3, ConcatProperties
<1>5. ASSUME NEW i \in 1 .. l - 1 PROVE (a \o b)[i] = IF i < n THEN s[i] ELSE s[i + 1]
  <2>1. CASE i < n
    BY <1>1, <1>2, <1>3, <1>4, <2>1
  <2>2. CASE ~(i < n)
    <3>1. PICK k \in 1 .. l - n : k = i - (n - 1) /\ n + k = i + 1
      BY <1>1, <2>2
    <3>2. (a \o b)[i] = b[k]
      BY <1>1, <1>2, <1>3, <1>4, <2>2, <3>1
    <3> QED BY <1>3, <2>2, <3>1, <3>2
  <2> QED BY <2>1, <2>2
<1>6. RemoveAt(s, n) = a \o b
  BY DEF RemoveAt, a, b
<1>7. Len(a \o b) = l - 1
  <2>1. Len(a) = n - 1 /\ Len(b) = l - n
    BY <1>2, <1>3
  <2>2. Len(a \o b) = Len(a) + Len(b)
    BY <1>4
  <2>3. Len(a \o b) = (n - 1) + (l - n)
    BY <2>1, <2>2
  <2>4. (n - 1) + (l - n) = l - 1
    BY <1>1
  <2> QED BY <2>3, <2>4
<1> QED BY <1>1, <1>4, <1>5, <1>6, <1>7, Zenon

(* A set of natural numbers has a least element. *)
LEMMA LeastOf ==
    ASSUME NEW S \in SUBSET Nat, S # {}
    PROVE Min(S) \in S /\ \A k \in S : Min(S) <= k
<1> DEFINE Less == OpToRel(<, Nat)
<1>1. \A i, j \in Nat : i < j => <<i, j>> \in Less
  BY DEF OpToRel
<1>2. IsWellFoundedOn(Less, Nat)
  BY NatLessThanWellFounded
<1> HIDE DEF Less
<1>4. PICK m \in S : \A k \in S : <<k, m>> \notin Less
  BY <1>2, WFMin
<1>3. ASSUME NEW k \in S PROVE m <= k
  <2>1. ~(k < m)
    BY <1>1, <1>4
  <2> QED BY <2>1
<1> QED BY <1>3 DEF Min

(* SIPAccount::removeCall takes the call out of a vector that holds it once *)
(* and leaves the other ones in it.                                         *)
Once(s) == \A i, j \in DOMAIN s : s[i] = s[j] => i = j

LEMMA RemovedOnce ==
    ASSUME NEW S, NEW s \in Seq(S), Once(s), NEW e
    PROVE /\ RemoveFirst(s, e) \in Seq(S)
          /\ Range(RemoveFirst(s, e)) = Range(s) \ {e}
          /\ Once(RemoveFirst(s, e))
<1>1. CASE ~\E i \in 1 .. Len(s) : s[i] = e
  <2>1. RemoveFirst(s, e) = s
    BY <1>1 DEF RemoveFirst
  <2>2. e \notin Range(s)
    BY <1>1, LenProperties DEF Range
  <2> QED BY <2>1, <2>2
<1>2. CASE \E i \in 1 .. Len(s) : s[i] = e
  <2> DEFINE hits == {i \in 1 .. Len(s) : s[i] = e}
  <2>1. hits \in SUBSET Nat /\ hits # {}
    BY <1>2, LenProperties
  <2>2. RemoveFirst(s, e) = RemoveAt(s, Min(hits))
    BY <1>2 DEF RemoveFirst, SelectInSeq
  <2>3. PICK n \in hits : RemoveFirst(s, e) = RemoveAt(s, n)
    <3> HIDE DEF hits
    <3> QED BY <2>1, <2>2, LeastOf
  <2>4. n \in 1 .. Len(s) /\ s[n] = e /\ DOMAIN s = 1 .. Len(s) /\ Len(s) \in Nat
    BY <2>3, LenProperties
  <2> DEFINE t == RemoveAt(s, n)
  <2>5. /\ t \in Seq(S) /\ Len(t) = Len(s) - 1 /\ DOMAIN t = 1 .. Len(t)
        /\ \A i \in 1 .. Len(s) - 1 : t[i] = IF i < n THEN s[i] ELSE s[i + 1]
    BY <2>4, RemovedAt, LenProperties
  <2> HIDE DEF t
  <2>6. Range(t) = Range(s) \ {e}
    <3>1. ASSUME NEW x \in Range(t) PROVE x \in Range(s) /\ x # e
      <4>1. PICK i \in 1 .. Len(s) - 1 : x = t[i]
        BY <2>5, LenProperties DEF Range
      <4>2. PICK j \in DOMAIN s : x = s[j] /\ j # n
        <5>1. CASE i < n
          BY <2>4, <2>5, <4>1, <5>1, SMTT(30)
        <5>2. CASE ~(i < n)
          <6>1. i + 1 \in DOMAIN s /\ i + 1 # n /\ t[i] = s[i + 1]
            BY <2>4, <2>5, <5>2
          <6> QED BY <4>1, <6>1
        <5> QED BY <5>1, <5>2
      <4> QED BY <2>4, <4>2 DEF Once, Range
    <3>2. ASSUME NEW x \in Range(s), x # e PROVE x \in Range(t)
      <4>1. PICK i \in DOMAIN s : x = s[i]
        BY DEF Range
      <4>2. i # n
        BY <2>4, <3>2, <4>1
      <4>3. PICK j \in 1 .. Len(s) - 1 : t[j] = x
        <5>1. CASE i < n
          BY <2>4, <2>5, <4>1, <5>1
        <5>2. CASE i > n
          <6>1. i - 1 \in 1 .. Len(s) - 1 /\ ~(i - 1 < n) /\ (i - 1) + 1 = i
            BY <2>4, <2>5, <5>2
          <6> QED BY <2>5, <4>1, <6>1
        <5> QED BY <2>4, <4>2, <5>1, <5>2
      <4> QED BY <2>5, <4>3, LenProperties DEF Range
    <3> QED BY <3>1, <3>2
  <2>7. Once(t)
    <3> SUFFICES ASSUME NEW i \in DOMAIN t, NEW j \in DOMAIN t, t[i] = t[j] PROVE i = j
      BY DEF Once
    <3>1. PICK k \in DOMAIN s : t[i] = s[k] /\ k = (IF i < n THEN i ELSE i + 1)
      BY <2>4, <2>5
    <3>2. PICK l \in DOMAIN s : t[j] = s[l] /\ l = (IF j < n THEN j ELSE j + 1)
      BY <2>4, <2>5
    <3>3. k = l
      BY <3>1, <3>2 DEF Once
    <3> QED BY <2>4, <2>5, <3>1, <3>2, <3>3
  <2> QED BY <2>3, <2>5, <2>6, <2>7 DEF t
<1> QED BY <1>1, <1>2

(* The three things that happen to the vectors. *)
VectorsOK ==
    /\ calls \in [Account -> Seq(Call)]
    /\ \A a \in Account : Once(calls[a]) /\ \A d \in Range(calls[a]) : AccountOf[d] = a

LEMMA VectorsKept ==
    ASSUME VectorsOK, UNCHANGED calls
    PROVE VectorsOK' /\ \A d \in Call : Listed(d)' <=> Listed(d)
  BY DEF VectorsOK, Listed

LEMMA VectorsGrow ==
    ASSUME VectorsOK, NEW c \in Call, ~Listed(c), calls' = [calls EXCEPT ![AccountOf[c]] = Append(@, c)]
    PROVE VectorsOK' /\ \A d \in Call : Listed(d)' <=> Listed(d) \/ d = c
<1> DEFINE a == AccountOf[c]
           s == calls[a]
<1>1. a \in Account /\ s \in Seq(Call) /\ Once(s) /\ c \notin Range(s)
  BY CallsAssumption DEF VectorsOK, Listed
<1>2. Append(s, c) \in Seq(Call) /\ Range(Append(s, c)) = Range(s) \cup {c} /\ Once(Append(s, c))
  <2> HIDE DEF s
  <2>1. /\ Append(s, c) \in Seq(Call) /\ Len(Append(s, c)) = Len(s) + 1
        /\ \A i \in 1 .. Len(s) : Append(s, c)[i] = s[i]
        /\ Append(s, c)[Len(s) + 1] = c
    BY <1>1, AppendProperties
  <2>2. Len(s) \in Nat /\ DOMAIN s = 1 .. Len(s) /\ DOMAIN Append(s, c) = 1 .. Len(s) + 1
    BY <1>1, <2>1, LenProperties
  <2>3. Range(Append(s, c)) = Range(s) \cup {c}
    BY <2>1, <2>2 DEF Range
  <2>4. Once(Append(s, c))
    BY <1>1, <2>1, <2>2 DEF Once, Range
  <2> QED BY <2>1, <2>3, <2>4
<1>3. calls' = [calls EXCEPT ![a] = Append(s, c)]
  BY <1>1 DEF VectorsOK
<1> HIDE DEF a, s
<1>4. \A d \in Range(s) \cup {c} : AccountOf[d] = a
  BY <1>1 DEF VectorsOK, a, s
<1>5. VectorsOK'
  <2>1. calls' \in [Account -> Seq(Call)]
    BY <1>1, <1>2, <1>3 DEF VectorsOK
  <2>2. ASSUME NEW b \in Account PROVE Once(calls'[b]) /\ \A d \in Range(calls'[b]) : AccountOf[d] = b
    BY <1>1, <1>2, <1>3, <1>4, <2>2 DEF VectorsOK
  <2> QED BY <2>1, <2>2 DEF VectorsOK
<1>6. ASSUME NEW d \in Call PROVE Listed(d)' <=> Listed(d) \/ d = c
  <2>1. AccountOf[d] \in Account
    BY CallsAssumption
  <2>2. CASE AccountOf[d] = a
    BY <1>1, <1>2, <1>3, <2>1, <2>2 DEF Listed, VectorsOK, s
  <2>3. CASE AccountOf[d] # a
    BY <1>3, <2>1, <2>3 DEF Listed, VectorsOK, a
  <2> QED BY <2>2, <2>3
<1> QED BY <1>5, <1>6

LEMMA VectorsShrink ==
    ASSUME VectorsOK, NEW c \in Call, calls' = [calls EXCEPT ![AccountOf[c]] = RemoveFirst(@, c)]
    PROVE VectorsOK' /\ \A d \in Call : Listed(d)' <=> Listed(d) /\ d # c
<1> DEFINE a == AccountOf[c]
           s == calls[a]
<1>1. a \in Account /\ s \in Seq(Call) /\ Once(s)
  BY CallsAssumption DEF VectorsOK
<1>2. /\ RemoveFirst(s, c) \in Seq(Call) /\ Range(RemoveFirst(s, c)) = Range(s) \ {c}
      /\ Once(RemoveFirst(s, c))
  <2> HIDE DEF s
  <2> QED BY <1>1, RemovedOnce
<1>3. calls' = [calls EXCEPT ![a] = RemoveFirst(s, c)]
  BY <1>1 DEF VectorsOK
<1> HIDE DEF a, s
<1>4. \A d \in Range(s) \cup {c} : AccountOf[d] = a
  BY <1>1 DEF VectorsOK, a, s
<1>5. VectorsOK'
  <2>1. calls' \in [Account -> Seq(Call)]
    BY <1>1, <1>2, <1>3 DEF VectorsOK
  <2>2. ASSUME NEW b \in Account PROVE Once(calls'[b]) /\ \A d \in Range(calls'[b]) : AccountOf[d] = b
    BY <1>1, <1>2, <1>3, <1>4, <2>2 DEF VectorsOK
  <2> QED BY <2>1, <2>2 DEF VectorsOK
<1>6. ASSUME NEW d \in Call PROVE Listed(d)' <=> Listed(d) /\ d # c
  <2>1. AccountOf[d] \in Account
    BY CallsAssumption
  <2>2. CASE AccountOf[d] = a
    BY <1>1, <1>2, <1>3, <2>1, <2>2 DEF Listed, VectorsOK, s
  <2>3. CASE AccountOf[d] # a
    BY <1>3, <2>1, <2>3 DEF Listed, VectorsOK, a
  <2> QED BY <2>2, <2>3
<1> QED BY <1>5, <1>6

-----------------------------------------------------------------------------
(* The invariant *)

(* What is true of each call whatever the other ones do.  An object is      *)
(* untouched until it is made; MakeCall lists it at its end and not before; *)
(* a call that is answered has media; what the end of a call may lose is    *)
(* lost at the end only, and PJSIP has forgotten the call then.             *)
Sound(c) ==
    /\ call[c].obj = "none" => call[c] = Unborn
    /\ call[c].obj = "none" \/ call[c].dialing => ~Listed(c)
    /\ call[c].inv \in {"CONNECTING", "CONFIRMED"} => call[c].media # "absent"
    /\ call[c].inv = "NULL" => call[c].slot = NoSlot
    /\ Ongoing(c) /\ ~call[c].dialing => Listed(c)
    /\ call[c].lost # "no" => call[c].inv = "DISCONNECTED" /\ call[c].slot = NoSlot
    /\ Listed(c) \/ call[c].dialing => call[c].obj = "live" \/ call[c].lost = "late"
    /\ Listed(c) \/ call[c].dialing => call[c].slot # NoSlot \/ call[c].lost # "no"
    /\ isRinging[c] => \/ call[c].inv = "EARLY" /\ call[c].media = "absent"
                       \/ call[c].lost = "unpublished"

(* No two calls have the same call id. *)
OwnSlots == \A c, d \in Call : call[c].slot = call[d].slot /\ call[c].slot # NoSlot => c = d

IInv == TypeOK /\ VectorsOK /\ OwnSlots /\ (\A c \in Call : Sound(c)) /\ TonesOK

(* The vectors and the calls, without the tones. *)
CallsOK ==
    /\ call \in [Call -> CallState] /\ timers \subseteq [slot : Slot, for : Call]
    /\ VectorsOK /\ OwnSlots /\ \A c \in Call : Sound(c)

LEMMA IInvParts == IInv <=> CallsOK /\ TonesOK
  BY DEF IInv, CallsOK, TypeOK, VectorsOK, TonesOK

-----------------------------------------------------------------------------
(* The steps *)

(* Nothing happens to d but that a re-INVITE is sent or answered, or that it *)
(* is hung up.                                                               *)
Marked(d) ==
    /\ call'[d].obj = call[d].obj /\ call'[d].incoming = call[d].incoming
    /\ call'[d].inv = call[d].inv /\ call'[d].media = call[d].media
    /\ call'[d].slot = call[d].slot /\ call'[d].dialing = call[d].dialing
    /\ call'[d].lost = call[d].lost
    /\ call[d].ending => call'[d].ending
    /\ call[d].obj = "none" => call'[d] = call[d]

(* The division of a step: one call at most, in C, and marks on the others.  *)
LEMMA OneChanges ==
    ASSUME CallsOK, NEW C \in SUBSET Call, \A c, d \in C : c = d,
           call' \in [Call -> CallState], timers' \subseteq [slot : Slot, for : Call], VectorsOK',
           \A d \in Call \ C : Marked(d) /\ (Listed(d)' <=> Listed(d)) /\ isRinging'[d] = isRinging[d],
           \A c \in C : Sound(c)' /\ call'[c].slot \in {call[c].slot, NoSlot} \cup FreeSlots
    PROVE CallsOK'
<1>1. \A c \in Call : Sound(c)'
  <2>1. ASSUME NEW d \in Call \ C PROVE Sound(d)'
    BY <2>1 DEF CallsOK, Sound, Marked, Ongoing, CallState
  <2> QED BY <2>1
<1>2. OwnSlots'
  <2> SUFFICES ASSUME NEW c \in Call, NEW d \in Call, call'[c].slot = call'[d].slot, call'[c].slot # NoSlot
               PROVE  c = d
    BY DEF OwnSlots
  <2>1. CASE c \notin C /\ d \notin C
    BY <2>1 DEF CallsOK, OwnSlots, Marked
  <2>2. CASE c \in C /\ d \notin C
    BY <2>2 DEF CallsOK, OwnSlots, Marked, FreeSlots
  <2>3. CASE c \notin C /\ d \in C
    BY <2>3 DEF CallsOK, OwnSlots, Marked, FreeSlots
  <2> QED BY <2>1, <2>2, <2>3
<1> QED BY <1>1, <1>2 DEF CallsOK

(* Nothing but marks. *)
LEMMA MarksKeep ==
    ASSUME IInv, UNCHANGED <<calls, toneVars>>, timers' \subseteq timers,
           call' \in [Call -> CallState], \A d \in Call : Marked(d)
    PROVE IInv'
<1>1. CallsOK /\ TonesOK
  BY IInvParts
<1>2. VectorsOK' /\ \A d \in Call : Listed(d)' <=> Listed(d)
  BY <1>1, VectorsKept DEF CallsOK
<1>3. CallsOK'
  <2>1. timers' \subseteq [slot : Slot, for : Call] /\ UNCHANGED isRinging
    BY <1>1 DEF CallsOK, toneVars, ringVars
  <2>2. \A d \in Call \ {} : Marked(d) /\ (Listed(d)' <=> Listed(d)) /\ isRinging'[d] = isRinging[d]
    BY <1>2, <2>1
  <2>3. /\ {} \in SUBSET Call /\ \A c, d \in {} : c = d
        /\ \A c \in {} : Sound(c)' /\ call'[c].slot \in {call[c].slot, NoSlot} \cup FreeSlots
    OBVIOUS
  <2> QED BY <1>1, <1>2, <2>1, <2>2, <2>3, OneChanges
<1>4. TonesOK'
  BY <1>1, TonesStay
<1> QED BY <1>3, <1>4, IInvParts, PTL

LEMMA StepKeeps ==
    ASSUME IInv, NEW c \in Call,
           UNCHANGED toneVars \/ StopsRinging(c) \/ \E tune \in Tune : StartsRinging(c, tune),
           call' \in [Call -> CallState], timers' \subseteq [slot : Slot, for : Call], VectorsOK',
           \A d \in Call \ {c} : Marked(d) /\ (Listed(d)' <=> Listed(d)),
           Sound(c)', call'[c].slot \in {call[c].slot, NoSlot} \cup FreeSlots
    PROVE IInv'
<1>1. CallsOK /\ TonesOK
  BY IInvParts
<1>2. TonesOK' /\ \A d \in Call \ {c} : isRinging'[d] = isRinging[d]
  BY <1>1, TonesStep
<1>3. \A d \in Call \ {c} : Marked(d) /\ (Listed(d)' <=> Listed(d)) /\ isRinging'[d] = isRinging[d]
  BY <1>2
<1>4. /\ {c} \in SUBSET Call /\ \A x, y \in {c} : x = y
      /\ \A x \in {c} : Sound(x)' /\ call'[x].slot \in {call[x].slot, NoSlot} \cup FreeSlots
  OBVIOUS
<1>5. CallsOK'
  BY <1>1, <1>3, <1>4, OneChanges
<1> QED BY <1>2, <1>5, IInvParts, PTL

(* One call changes, and not where it is listed. *)
LEMMA AloneKeeps ==
    ASSUME IInv, NEW c \in Call, NEW new \in CallState, call' = [call EXCEPT ![c] = new],
           UNCHANGED calls, timers' \subseteq timers,
           UNCHANGED toneVars \/ StopsRinging(c) \/ \E tune \in Tune : StartsRinging(c, tune),
           new.slot \in {call[c].slot, NoSlot} \cup FreeSlots, Sound(c)'
    PROVE IInv'
<1>1. call \in [Call -> CallState] /\ timers \subseteq [slot : Slot, for : Call] /\ VectorsOK
  BY DEF IInv, TypeOK
<1>2. call' \in [Call -> CallState] /\ call'[c] = new /\ \A d \in Call \ {c} : call'[d] = call[d]
  BY <1>1
<1>3. VectorsOK' /\ \A d \in Call : Listed(d)' <=> Listed(d)
  BY <1>1, VectorsKept
<1>4. \A d \in Call \ {c} : Marked(d) /\ (Listed(d)' <=> Listed(d))
  BY <1>2, <1>3 DEF Marked
<1>5. call'[c].slot \in {call[c].slot, NoSlot} \cup FreeSlots /\ timers' \subseteq [slot : Slot, for : Call]
  BY <1>1, <1>2
<1> QED BY <1>2, <1>3, <1>4, <1>5, StepKeeps

(* onCallMediaState, whoever has changed the media. *)
LEMMA MediaKeeps ==
    ASSUME IInv, NEW c \in Call, Ongoing(c), StopsRinging(c), UNCHANGED calls, timers' \subseteq timers,
           NEW new \in CallState, call' = [call EXCEPT ![c] = new],
           new.obj = call[c].obj, new.slot = call[c].slot, new.dialing = call[c].dialing,
           new.lost = call[c].lost, new.inv \in {"EARLY", "CONNECTING", "CONFIRMED"}, new.media # "absent"
    PROVE IInv'
<1>1. call \in [Call -> CallState] /\ Sound(c) /\ isRinging \in [Call -> BOOLEAN] /\ VectorsOK
  BY DEF IInv, TypeOK, ToneTypeOK, RingTypeOK
<1>2. call'[c] = new
  BY <1>1
<1>3. Listed(c)' <=> Listed(c)
  BY <1>1, VectorsKept
<1>4. ~isRinging'[c]
  BY TonesStep, IInvParts
<1>5. Sound(c)'
  BY <1>1, <1>2, <1>3, <1>4 DEF Sound, Ongoing, Unborn
<1> QED BY <1>5, AloneKeeps

-----------------------------------------------------------------------------
(* The actions of Calls *)

LEMMA RemoteKeeps ==
    ASSUME IInv, NEW c \in Call, Ongoing(c),
           RemoteRinging(c) \/ RemoteEarlyMedia(c) \/ RemoteAnswer(c) \/ RemoteAck(c) \/ RemoteReinvite(c)
           \/ AnswerWith200(c)
    PROVE IInv'
<1>1. call \in [Call -> CallState] /\ call[c] \in CallState /\ Sound(c) /\ isRinging \in [Call -> BOOLEAN]
      /\ VectorsOK
  BY DEF IInv, TypeOK, ToneTypeOK, RingTypeOK
<1>2. ASSUME NEW m \in {"ACTIVE", "REMOTE_HOLD", "NONE"}, NEW i \in {"EARLY", "CONNECTING", "CONFIRMED"},
             MediaState(c, m, i, "none")
      PROVE IInv'
  <2>1. PICK e \in BOOLEAN :
          call' = [call EXCEPT ![c] = [@ EXCEPT !.media = m, !.inv = i, !.reinvite = "none", !.ending = e]]
    BY <1>2 DEF MediaState, DeviceFails
  <2>2. StopsRinging(c) /\ UNCHANGED calls /\ timers' \subseteq timers
    BY <1>2 DEF MediaState
  <2> DEFINE new == [call[c] EXCEPT !.media = m, !.inv = i, !.reinvite = "none", !.ending = e]
  <2>3. /\ new \in CallState /\ new.obj = call[c].obj /\ new.slot = call[c].slot
        /\ new.dialing = call[c].dialing /\ new.inv = i /\ new.media = m /\ new.lost = call[c].lost
    BY <1>1, ZenonT(60) DEF CallState
  <2>4. call' = [call EXCEPT ![c] = new]
    BY <1>1, <2>1
  <2> HIDE DEF new
  <2> QED BY <2>2, <2>3, <2>4, MediaKeeps
<1>3. CASE RemoteRinging(c)
  <2> DEFINE new == [call[c] EXCEPT !.inv = "EARLY"]
  <2>1. /\ new \in CallState /\ new.obj = call[c].obj /\ new.inv = "EARLY" /\ new.media = call[c].media
        /\ new.slot = call[c].slot /\ new.dialing = call[c].dialing /\ new.ending = call[c].ending
        /\ new.lost = call[c].lost
    BY <1>1 DEF CallState
  <2>2. call' = [call EXCEPT ![c] = new] /\ call'[c] = new /\ UNCHANGED calls /\ UNCHANGED timers
    BY <1>1, <1>3 DEF RemoteRinging
  <2> HIDE DEF new
  <2>3. Listed(c)' <=> Listed(c)
    BY <1>1, <2>2, VectorsKept
  <2>4. /\ UNCHANGED toneVars \/ \E tune \in Tune : StartsRinging(c, tune)
        /\ isRinging'[c] => isRinging[c] \/ call[c].media = "absent"
    <3>1. CASE StartsRinging(c, "RingBack") /\ call[c].media = "absent"
      BY <3>1 DEF Tune
    <3>2. CASE UNCHANGED toneVars
      BY <3>2 DEF toneVars, ringVars
    <3> QED BY <1>3, <3>1, <3>2 DEF RemoteRinging
  <2>5. Sound(c)'
    BY <1>1, <1>3, <2>1, <2>2, <2>3, <2>4 DEF Sound, Ongoing, Unborn, RemoteRinging
  <2> QED BY <2>1, <2>2, <2>4, <2>5, AloneKeeps
<1>4. CASE RemoteAck(c)
  <2> DEFINE new == [call[c] EXCEPT !.inv = "CONFIRMED"]
  <2>1. /\ new \in CallState /\ new.obj = call[c].obj /\ new.inv = "CONFIRMED" /\ new.media = call[c].media
        /\ new.slot = call[c].slot /\ new.dialing = call[c].dialing /\ new.ending = call[c].ending
        /\ new.lost = call[c].lost
    BY <1>1 DEF CallState
  <2>2. call' = [call EXCEPT ![c] = new] /\ call'[c] = new /\ UNCHANGED <<calls, timers, toneVars>>
    BY <1>1, <1>4 DEF RemoteAck
  <2> HIDE DEF new
  <2>3. (Listed(c)' <=> Listed(c)) /\ UNCHANGED isRinging
    BY <1>1, <2>2, VectorsKept DEF toneVars, ringVars
  <2>5. Sound(c)'
    BY <1>1, <1>4, <2>1, <2>2, <2>3 DEF Sound, Ongoing, Unborn, RemoteAck
  <2> QED BY <2>1, <2>2, <2>5, AloneKeeps
<1>5. CASE RemoteEarlyMedia(c)
  BY <1>2, <1>5 DEF RemoteEarlyMedia
<1>6. CASE RemoteAnswer(c)
  BY <1>2, <1>6, CallsAssumption DEF RemoteAnswer
<1>7. CASE RemoteReinvite(c)
  BY <1>2, <1>7, CallsAssumption DEF RemoteReinvite
<1>8. CASE AnswerWith200(c)
  BY <1>2, <1>8 DEF AnswerWith200
<1> QED BY <1>3, <1>4, <1>5, <1>6, <1>7, <1>8

LEMMA TimedAnswerKeeps ==
    ASSUME IInv, NEW t \in timers, TimedAnswer(t)
    PROVE IInv'
<1>1. call \in [Call -> CallState] /\ OwnSlots /\ t \in [slot : Slot, for : Call]
  BY DEF IInv, TypeOK
<1>2. CASE \E c \in Call : call[c].slot = t.slot /\ Ongoing(c) /\ call[c].incoming /\ call[c].inv = "EARLY"
  <2>1. PICK c \in Call, e \in BOOLEAN :
          /\ call[c].slot = t.slot /\ StopsRinging(c)
          /\ call' = [call EXCEPT ![c] = [@ EXCEPT !.inv = "CONNECTING", !.media = "ACTIVE", !.ending = e]]
    BY <1>2 DEF TimedAnswer, DeviceFails
  <2>2. Ongoing(c)
    BY <1>1, <1>2, <2>1, CallsAssumption DEF OwnSlots
  <2>3. StopsRinging(c) /\ UNCHANGED calls /\ timers' \subseteq timers
    BY <2>1 DEF TimedAnswer
  <2> DEFINE new == [call[c] EXCEPT !.inv = "CONNECTING", !.media = "ACTIVE", !.ending = e]
  <2>4. /\ new \in CallState /\ new.obj = call[c].obj /\ new.slot = call[c].slot
        /\ new.dialing = call[c].dialing /\ new.inv = "CONNECTING" /\ new.media = "ACTIVE"
        /\ new.lost = call[c].lost
    <3>1. call[c] \in CallState
      BY <1>1
    <3> QED BY <3>1 DEF CallState
  <2>5. call' = [call EXCEPT ![c] = new]
    BY <1>1, <2>1
  <2> HIDE DEF new
  <2> QED BY <2>2, <2>3, <2>4, <2>5, MediaKeeps
<1>3. CASE UNCHANGED <<call, toneVars, calls>>
  <2>1. timers' \subseteq timers
    BY DEF TimedAnswer
  <2>2. call' \in [Call -> CallState] /\ \A d \in Call : Marked(d)
    BY <1>1, <1>3 DEF Marked
  <2> QED BY <1>3, <2>1, <2>2, MarksKeep
<1> QED BY <1>2, <1>3 DEF TimedAnswer

LEMMA MarkingKeeps ==
    ASSUME IInv, NEW c \in Call, call[c].obj # "none", NEW r \in {"none", "hold", "unhold"},
           NEW e \in BOOLEAN, call[c].ending => e,
           call' = [call EXCEPT ![c] = [@ EXCEPT !.reinvite = r, !.ending = e]],
           UNCHANGED <<calls, timers, toneVars>>
    PROVE IInv'
<1> DEFINE new == [call[c] EXCEPT !.reinvite = r, !.ending = e]
<1>1. call \in [Call -> CallState] /\ call[c] \in CallState
  BY DEF IInv, TypeOK
<1>2. /\ new \in CallState /\ new.obj = call[c].obj /\ new.inv = call[c].inv /\ new.media = call[c].media
      /\ new.slot = call[c].slot /\ new.dialing = call[c].dialing /\ new.ending = e
      /\ new.incoming = call[c].incoming /\ new.lost = call[c].lost
  BY <1>1 DEF CallState
<1>3. call' = [call EXCEPT ![c] = new]
  BY <1>1
<1> HIDE DEF new
<1>4. call' \in [Call -> CallState] /\ \A d \in Call : Marked(d)
  BY <1>1, <1>2, <1>3 DEF Marked
<1> QED BY <1>4, MarksKeep

LEMMA UserKeeps ==
    ASSUME IInv, NEW c \in Call, Answer(c) \/ Hold(c) \/ UnHold(c) \/ Hangup(c) \/ ReinviteAnswered(c)
    PROVE IInv'
<1>1. call \in [Call -> CallState] /\ call[c] \in CallState /\ Sound(c)
  BY DEF IInv, TypeOK
<1>2. Ongoing(c)
  BY DEF Answer, AnswerWith200, Hold, UnHold, Hangup, ReinviteAnswered
<1>3. call[c].obj # "none" /\ ~call[c].ending
  BY <1>1, <1>2 DEF Sound, Unborn, Ongoing
<1>4. CASE Answer(c)
  BY <1>2, <1>4, RemoteKeeps DEF Answer
<1>5. ASSUME NEW r \in {"none", "hold", "unhold"}, call' = [call EXCEPT ![c].reinvite = r],
             UNCHANGED <<calls, timers, toneVars>>
      PROVE IInv'
  <2>1. call' = [call EXCEPT ![c] = [@ EXCEPT !.reinvite = r, !.ending = FALSE]]
    BY <1>1, <1>3, <1>5 DEF CallState
  <2> QED BY <1>3, <1>5, <2>1, MarkingKeeps
<1>6. CASE Hold(c) \/ UnHold(c)
  BY <1>5, <1>6 DEF Hold, UnHold
<1>7. CASE Hangup(c)
  <2>1. call' = [call EXCEPT ![c] = [@ EXCEPT !.reinvite = call[c].reinvite, !.ending = TRUE]]
    BY <1>1, <1>7 DEF CallState, Hangup
  <2>2. UNCHANGED <<calls, timers, toneVars>>
    BY <1>7 DEF Hangup
  <2>3. call[c].reinvite \in {"none", "hold", "unhold"}
    BY <1>1 DEF CallState
  <2> QED BY <1>3, <2>1, <2>2, <2>3, MarkingKeeps
<1>8. CASE ReinviteAnswered(c)
  <2>1. ASSUME NEW m \in {"ACTIVE", "LOCAL_HOLD", "REMOTE_HOLD", "NONE"}, MediaState(c, m, "CONFIRMED", "none") PROVE IInv'
    <3>1. PICK e \in BOOLEAN :
            call' = [call EXCEPT ![c] = [@ EXCEPT !.media = m, !.inv = "CONFIRMED", !.reinvite = "none",
                                                  !.ending = e]]
      BY <2>1 DEF MediaState, DeviceFails
    <3>2. StopsRinging(c) /\ UNCHANGED calls /\ timers' \subseteq timers
      BY <2>1 DEF MediaState
    <3> DEFINE new == [call[c] EXCEPT !.media = m, !.inv = "CONFIRMED", !.reinvite = "none", !.ending = e]
    <3>3. /\ new \in CallState /\ new.obj = call[c].obj /\ new.slot = call[c].slot
          /\ new.dialing = call[c].dialing /\ new.inv = "CONFIRMED" /\ new.media = m
          /\ new.lost = call[c].lost
      BY <1>1, ZenonT(60) DEF CallState
    <3>4. call' = [call EXCEPT ![c] = new]
      BY <1>1, <3>1
    <3> HIDE DEF new
    <3> QED BY <1>2, <3>2, <3>3, <3>4, MediaKeeps
  <2> QED BY <1>5, <1>8, <2>1, CallsAssumption DEF ReinviteAnswered
<1> QED BY <1>4, <1>6, <1>7, <1>8

LEMMA HangupAllKeeps ==
    ASSUME IInv, HangupAll
    PROVE IInv'
<1>1. call \in [Call -> CallState] /\ \A d \in Call : Sound(d)
  BY DEF IInv, TypeOK
<1>2. ASSUME NEW d \in Call PROVE call'[d] \in CallState /\ Marked(d)
  <2>1. call[d] \in CallState /\ Sound(d)
    BY <1>1
  <2>2. CASE Ongoing(d)
    <3>1. call'[d] = [call[d] EXCEPT !.ending = TRUE]
      BY <2>2 DEF HangupAll
    <3>2. call[d].obj # "none"
      BY <2>1, <2>2 DEF Sound, Unborn, Ongoing
    <3> QED BY <2>1, <3>1, <3>2 DEF Marked, CallState
  <2>3. CASE ~Ongoing(d)
    <3>1. call'[d] = call[d]
      BY <2>3 DEF HangupAll
    <3> QED BY <2>1, <3>1 DEF Marked
  <2> QED BY <2>2, <2>3
<1>3. call' \in [Call -> CallState]
  BY <1>2 DEF HangupAll
<1>4. UNCHANGED <<calls, toneVars>> /\ timers' \subseteq timers
  BY DEF HangupAll
<1> QED BY <1>2, <1>3, <1>4, MarksKeep

LEMMA DisconnectedKeeps ==
    ASSUME IInv, NEW c \in Call, Disconnected(c)
    PROVE IInv'
<1>1. call \in [Call -> CallState] /\ call[c] \in CallState /\ Sound(c) /\ isRinging \in [Call -> BOOLEAN]
      /\ VectorsOK
  BY DEF IInv, TypeOK, ToneTypeOK, RingTypeOK
<1> DEFINE over == [call[c] EXCEPT !.inv = "DISCONNECTED", !.reinvite = "none", !.ending = FALSE]
           lost == [over EXCEPT !.slot = NoSlot, !.media = "absent", !.lost = "unpublished"]
<1>2. /\ over \in CallState /\ over.obj = call[c].obj /\ over.slot = call[c].slot
      /\ over.dialing = call[c].dialing /\ over.inv = "DISCONNECTED" /\ over.lost = call[c].lost
  BY <1>1 DEF CallState
<1>3. /\ lost \in CallState /\ lost.obj = call[c].obj /\ lost.slot = NoSlot
      /\ lost.dialing = call[c].dialing /\ lost.inv = "DISCONNECTED" /\ lost.lost = "unpublished"
  BY <1>1, ZenonT(60) DEF CallState
<1>4. /\ UNCHANGED <<calls, timers>>
      /\ \/ call' = [call EXCEPT ![c] = over] /\ StopsRinging(c)
         \/ call' = [call EXCEPT ![c] = lost] /\ UNCHANGED toneVars
  BY DEF Disconnected, Publishes
<1> HIDE DEF over, lost
<1>5. Listed(c)' <=> Listed(c)
  BY <1>1, <1>4, VectorsKept
<1>6. CASE call' = [call EXCEPT ![c] = over] /\ StopsRinging(c)
  <2>1. call'[c] = over /\ ~isRinging'[c]
    BY <1>1, <1>6, TonesStep, IInvParts
  <2>2. Sound(c)'
    BY <1>1, <1>2, <1>5, <2>1 DEF Sound, Ongoing, Unborn, Disconnected
  <2> QED BY <1>2, <1>4, <1>6, <2>2, AloneKeeps
<1>7. CASE call' = [call EXCEPT ![c] = lost] /\ UNCHANGED toneVars
  <2>1. call'[c] = lost
    BY <1>1, <1>7
  <2>2. Sound(c)'
    BY <1>1, <1>3, <1>5, <1>7, <2>1 DEF Sound, Ongoing, Unborn, Disconnected
  <2> QED BY <1>3, <1>4, <1>7, <2>2, AloneKeeps
<1> QED BY <1>4, <1>6, <1>7

(* A call is put into the vector of its account. *)
LEMMA ListingKeeps ==
    ASSUME IInv, NEW c \in Call, ~Listed(c), calls' = [calls EXCEPT ![AccountOf[c]] = Append(@, c)],
           call' \in [Call -> CallState], \A d \in Call \ {c} : Marked(d), timers' \subseteq [slot : Slot, for : Call],
           UNCHANGED toneVars \/ StopsRinging(c) \/ \E tune \in Tune : StartsRinging(c, tune),
           NEW new \in CallState, call'[c] = new, new.slot \in {call[c].slot, NoSlot} \cup FreeSlots,
           new.obj # "none", ~new.dialing, new.inv \in {"CONNECTING", "CONFIRMED"} => new.media # "absent",
           new.inv = "NULL" => new.slot = NoSlot,
           new.lost # "no" => new.inv = "DISCONNECTED" /\ new.slot = NoSlot,
           new.obj = "live" \/ new.lost = "late", new.slot # NoSlot \/ new.lost # "no",
           isRinging'[c] => (new.inv = "EARLY" /\ new.media = "absent") \/ new.lost = "unpublished"
    PROVE IInv'
<1>1. VectorsOK
  BY DEF IInv
<1>2. VectorsOK' /\ \A d \in Call : Listed(d)' <=> Listed(d) \/ d = c
  BY <1>1, VectorsGrow
<1>3. Sound(c)'
  BY <1>2 DEF Sound, Ongoing
<1>4. call'[c].slot \in {call[c].slot, NoSlot} \cup FreeSlots
  OBVIOUS
<1>5. \A d \in Call \ {c} : Marked(d) /\ (Listed(d)' <=> Listed(d))
  BY <1>2
<1> QED BY <1>2, <1>3, <1>4, <1>5, StepKeeps

(* onCallEstablished marks the calls that it holds. *)
LEMMA HeldAreMarked ==
    ASSUME IInv, NEW c \in Call, NEW new \in CallState, call' = WithHeld(HeldBefore(c), c, new)
    PROVE call' \in [Call -> CallState] /\ call'[c] = new /\ \A d \in Call \ {c} : Marked(d)
<1>1. call \in [Call -> CallState] /\ \A d \in Call : Sound(d)
  BY DEF IInv, TypeOK
<1>2. call'[c] = new
  BY DEF WithHeld
<1>3. ASSUME NEW d \in Call \ {c} PROVE call'[d] \in CallState /\ Marked(d)
  <2>1. call[d] \in CallState /\ Sound(d)
    BY <1>1
  <2>2. CASE d \in HeldBefore(c)
    <3>1. call'[d] = [call[d] EXCEPT !.reinvite = "hold"]
      BY <2>2 DEF WithHeld
    <3>2. call[d].obj # "none"
      BY <2>1, <2>2 DEF Sound, Unborn, HeldBefore, Holds
    <3> QED BY <2>1, <3>1, <3>2 DEF Marked, CallState
  <2>3. CASE d \notin HeldBefore(c)
    <3>1. call'[d] = call[d]
      BY <2>3 DEF WithHeld
    <3> QED BY <2>1, <3>1 DEF Marked
  <2> QED BY <2>2, <2>3
<1>4. call' = [d \in Call |-> call'[d]]
  BY DEF WithHeld
<1>5. \A d \in Call : call'[d] \in CallState
  BY <1>2, <1>3
<1> QED BY <1>2, <1>3, <1>4, <1>5

(* makeCall throws: the object is lost. *)
LEMMA LeakKeeps ==
    ASSUME IInv, NEW c \in Call, call[c].obj = "none", call' = [call EXCEPT ![c].obj = "leaked"],
           UNCHANGED <<calls, timers, toneVars>>
    PROVE IInv'
<1>1. call \in [Call -> CallState] /\ call[c] = Unborn /\ ~Listed(c) /\ VectorsOK
      /\ isRinging \in [Call -> BOOLEAN] /\ Sound(c)
  BY DEF IInv, TypeOK, ToneTypeOK, RingTypeOK, Sound
<1>2. call[c] \in CallState
  BY <1>1
<1>3. /\ call[c].media = "absent" /\ ~call[c].dialing /\ call[c].slot = NoSlot /\ call[c].inv = "NULL"
      /\ call[c].lost = "no"
  BY <1>1 DEF Unborn
<1>4. (Listed(c)' <=> Listed(c)) /\ UNCHANGED isRinging
  <2>1. UNCHANGED calls
    OBVIOUS
  <2> QED BY <1>1, <2>1, VectorsKept DEF toneVars, ringVars
<1> DEFINE new == [call[c] EXCEPT !.obj = "leaked"]
<1>5. /\ new \in CallState /\ new.obj = "leaked" /\ new.slot = NoSlot /\ new.inv = "NULL"
      /\ ~new.dialing /\ new.media = "absent" /\ new.lost = "no"
  BY <1>2, <1>3 DEF CallState
<1>6. call' = [call EXCEPT ![c] = new]
  BY <1>1
<1> HIDE DEF new
<1>7. call'[c] = new
  BY <1>1, <1>6
<1>8. ~isRinging[c]
  BY <1>1 DEF Sound, Unborn
<1>9. Sound(c)'
  BY <1>1, <1>4, <1>5, <1>7, <1>8 DEF Sound, Ongoing
<1> QED BY <1>5, <1>6, <1>9, AloneKeeps

LEMMA DialKeeps ==
    ASSUME IInv, NEW c \in Call, Dial(c)
    PROVE IInv'
<1>1. call \in [Call -> CallState] /\ call[c] = Unborn /\ ~Listed(c) /\ VectorsOK
      /\ isRinging \in [Call -> BOOLEAN] /\ Sound(c)
  BY DEF IInv, TypeOK, ToneTypeOK, RingTypeOK, Dial, Sound
<1>5. call[c] \in CallState
  BY <1>1
<1>6. /\ call[c].media = "absent" /\ ~call[c].dialing /\ call[c].slot = NoSlot /\ call[c].inv = "NULL"
      /\ call[c].lost = "no"
  BY <1>1 DEF Unborn
<1>2. UNCHANGED <<calls, timers, toneVars>> /\ (Listed(c)' <=> Listed(c)) /\ UNCHANGED isRinging
  <2>1. UNCHANGED calls
    BY DEF Dial
  <2> QED BY <1>1, <2>1, VectorsKept DEF Dial, toneVars, ringVars
<1>3. CASE FreeSlots = {}
  BY <1>2, <1>3, LeakKeeps DEF Dial
<1>4. CASE FreeSlots # {}
  <2>1. PICK s \in FreeSlots :
          call' = [call EXCEPT ![c] = [@ EXCEPT !.obj = "live", !.inv = "CALLING", !.slot = s, !.dialing = TRUE]]
    BY <1>4 DEF Dial
  <2> DEFINE new == [call[c] EXCEPT !.obj = "live", !.inv = "CALLING", !.slot = s, !.dialing = TRUE]
  <2>2. /\ new \in CallState /\ new.obj = "live" /\ new.slot = s /\ new.inv = "CALLING"
        /\ new.dialing /\ new.media = "absent" /\ new.lost = "no"
    BY <1>5, <1>6 DEF CallState, FreeSlots
  <2>3. call' = [call EXCEPT ![c] = new]
    BY <1>1, <2>1
  <2> HIDE DEF new
  <2>4. call'[c] = new /\ s # NoSlot
    BY <1>1, <2>3, CallsAssumption DEF FreeSlots
  <2>5. ~isRinging[c]
    BY <1>1 DEF Sound, Unborn
  <2>6. Sound(c)'
    BY <1>1, <1>2, <2>2, <2>4, <2>5 DEF Sound, Ongoing
  <2> QED BY <1>2, <2>2, <2>3, <2>6, AloneKeeps
<1> QED BY <1>3, <1>4

LEMMA DialReturnsKeeps ==
    ASSUME IInv, NEW c \in Call, DialReturns(c)
    PROVE IInv'
<1>1. call \in [Call -> CallState] /\ call[c] \in CallState /\ Sound(c) /\ call[c].dialing /\ ~Listed(c)
      /\ timers \subseteq [slot : Slot, for : Call]
  BY DEF IInv, TypeOK, Sound, DialReturns
<1>2. call[c].obj # "none"
  BY <1>1 DEF Sound, Unborn
<1> DEFINE new == [call[c] EXCEPT !.dialing = FALSE]
<1>3. /\ new \in CallState /\ new.obj = call[c].obj /\ new.slot = call[c].slot /\ new.inv = call[c].inv
      /\ ~new.dialing /\ new.media = call[c].media /\ new.lost = call[c].lost
  BY <1>1 DEF CallState
<1>4. call' = WithHeld(HeldBefore(c), c, new) /\ UNCHANGED timers /\ UNCHANGED toneVars /\ UNCHANGED isRinging
  BY DEF DialReturns, toneVars, ringVars
<1>5. calls' = [calls EXCEPT ![AccountOf[c]] = Append(@, c)]
  BY DEF DialReturns
<1> HIDE DEF new
<1>6. call' \in [Call -> CallState] /\ call'[c] = new /\ \A d \in Call \ {c} : Marked(d)
  BY <1>3, <1>4, HeldAreMarked
<1>7. /\ new.inv \in {"CONNECTING", "CONFIRMED"} => new.media # "absent"
      /\ new.inv = "NULL" => new.slot = NoSlot
      /\ new.lost # "no" => new.inv = "DISCONNECTED" /\ new.slot = NoSlot
      /\ new.obj = "live" \/ new.lost = "late"
      /\ new.slot # NoSlot \/ new.lost # "no"
      /\ isRinging'[c] => (new.inv = "EARLY" /\ new.media = "absent") \/ new.lost = "unpublished"
  BY <1>1, <1>3, <1>4 DEF Sound
<1>8. /\ timers' \subseteq [slot : Slot, for : Call] /\ new.obj # "none" /\ ~new.dialing
      /\ new.slot \in {call[c].slot, NoSlot} \cup FreeSlots
  BY <1>1, <1>2, <1>3, <1>4
<1> QED BY <1>1, <1>3, <1>4, <1>5, <1>6, <1>7, <1>8, ListingKeeps

(* The outcomes of onIncomingCall: refused, answered at once, ringing. *)
LEMMA IncomingOutcomes ==
    ASSUME NEW c \in Call, IncomingCall(c)
    PROVE \E new \in CallState :
            /\ new.obj = "live" /\ new.slot \in FreeSlots /\ ~new.dialing /\ new.lost = "no"
            /\ \/ /\ new.inv = "EARLY" /\ new.media = "absent" /\ new.ending
                  /\ call' = [call EXCEPT ![c] = new] /\ UNCHANGED <<calls, timers, toneVars>>
               \/ /\ new.inv = "CONNECTING" /\ new.media = "ACTIVE"
                  /\ calls' = [calls EXCEPT ![AccountOf[c]] = Append(@, c)]
                  /\ call' = WithHeld(HeldBefore(c), c, new) /\ UNCHANGED <<timers, toneVars>>
               \/ /\ new.inv = "EARLY" /\ new.media = "absent"
                  /\ calls' = [calls EXCEPT ![AccountOf[c]] = Append(@, c)]
                  /\ call' = [call EXCEPT ![c] = new] /\ StartsRinging(c, "Ringing")
                  /\ timers' = timers \union IF AutoAnswer THEN {[slot |-> new.slot, for |-> c]} ELSE {}
<1>3. PICK s \in FreeSlots, published \in Publishes, failed \in DeviceFails :
         LET new == [Unborn EXCEPT !.obj = "live", !.incoming = TRUE, !.slot = s, !.inv = "EARLY"]
             answered == [new EXCEPT !.inv = "CONNECTING", !.media = "ACTIVE"]
         IN  IF ~published
             THEN /\ call' = [call EXCEPT ![c] = [new EXCEPT !.ending = TRUE]]
                  /\ UNCHANGED <<calls, timers, toneVars>>
             ELSE /\ calls' = [calls EXCEPT ![AccountOf[c]] = Append(@, c)]
                  /\ IF AutoAnswer /\ ~AnswerDelay
                     THEN /\ call' = WithHeld(HeldBefore(c), c,
                                       [answered EXCEPT !.ending = failed \/ HoldOthersThrows(c)])
                          /\ UNCHANGED <<timers, toneVars>>
                     ELSE /\ call' = [call EXCEPT ![c] = new]
                          /\ StartsRinging(c, "Ringing")
                          /\ timers' = timers \union
                               IF AutoAnswer THEN {[slot |-> s, for |-> c]} ELSE {}
  BY DEF IncomingCall
<1> DEFINE new == [Unborn EXCEPT !.obj = "live", !.incoming = TRUE, !.slot = s, !.inv = "EARLY"]
           refused == [new EXCEPT !.ending = TRUE]
           answered == [[new EXCEPT !.inv = "CONNECTING", !.media = "ACTIVE"]
                          EXCEPT !.ending = failed \/ HoldOthersThrows(c)]
<1>4. s \in Slot /\ s # NoSlot /\ failed \in BOOLEAN /\ (failed \/ HoldOthersThrows(c)) \in BOOLEAN
  BY CallsAssumption DEF FreeSlots, DeviceFails, HoldOthersThrows
<1>5. /\ new \in CallState /\ new.obj = "live" /\ new.slot = s /\ new.inv = "EARLY" /\ new.media = "absent"
      /\ ~new.dialing /\ new.lost = "no"
  BY <1>4 DEF Unborn, CallState
<1>6. /\ refused \in CallState /\ refused.obj = "live" /\ refused.slot = s /\ refused.inv = "EARLY"
      /\ refused.media = "absent" /\ ~refused.dialing /\ refused.ending /\ refused.lost = "no"
  BY <1>4 DEF Unborn, CallState
<1>7. /\ answered \in CallState /\ answered.obj = "live" /\ answered.slot = s /\ answered.inv = "CONNECTING"
      /\ answered.media = "ACTIVE" /\ ~answered.dialing /\ answered.lost = "no"
  BY <1>4 DEF Unborn, CallState
<1>8. \/ call' = [call EXCEPT ![c] = refused] /\ UNCHANGED <<calls, timers, toneVars>>
      \/ /\ calls' = [calls EXCEPT ![AccountOf[c]] = Append(@, c)]
         /\ call' = WithHeld(HeldBefore(c), c, answered) /\ UNCHANGED <<timers, toneVars>>
      \/ /\ calls' = [calls EXCEPT ![AccountOf[c]] = Append(@, c)]
         /\ call' = [call EXCEPT ![c] = new] /\ StartsRinging(c, "Ringing")
         /\ timers' = timers \union IF AutoAnswer THEN {[slot |-> s, for |-> c]} ELSE {}
  BY <1>3
<1> HIDE DEF new, refused, answered
<1> QED BY <1>4, <1>5, <1>6, <1>7, <1>8

LEMMA IncomingCallKeeps ==
    ASSUME IInv, NEW c \in Call, IncomingCall(c)
    PROVE IInv'
<1>1. /\ call \in [Call -> CallState] /\ call[c] = Unborn /\ ~Listed(c) /\ VectorsOK /\ Sound(c)
      /\ timers \subseteq [slot : Slot, for : Call]
  BY DEF IInv, TypeOK, IncomingCall, Sound
<1>2. ~isRinging[c]
  BY <1>1 DEF Sound, Unborn
<1> DEFINE Lists == calls' = [calls EXCEPT ![AccountOf[c]] = Append(@, c)]
           Refused(new) ==
             /\ new.inv = "EARLY" /\ new.media = "absent" /\ new.ending
             /\ call' = [call EXCEPT ![c] = new] /\ UNCHANGED <<calls, timers, toneVars>>
           Answered(new) ==
             /\ new.inv = "CONNECTING" /\ new.media = "ACTIVE" /\ Lists
             /\ call' = WithHeld(HeldBefore(c), c, new) /\ UNCHANGED <<timers, toneVars>>
           Rings(new) ==
             /\ new.inv = "EARLY" /\ new.media = "absent" /\ Lists
             /\ call' = [call EXCEPT ![c] = new] /\ StartsRinging(c, "Ringing")
             /\ timers' = timers \union IF AutoAnswer THEN {[slot |-> new.slot, for |-> c]} ELSE {}
<1>3. PICK new \in CallState : /\ new.obj = "live" /\ new.slot \in FreeSlots /\ ~new.dialing /\ new.lost = "no"
                               /\ Refused(new) \/ Answered(new) \/ Rings(new)
  BY IncomingOutcomes
<1>4. new.slot \in Slot /\ new.slot # NoSlot
  BY <1>3, CallsAssumption DEF FreeSlots
<1>9. CASE Refused(new)
  <2>1. call'[c] = new /\ (Listed(c)' <=> Listed(c)) /\ UNCHANGED isRinging
    <3>1. UNCHANGED calls
      BY <1>9
    <3> QED BY <1>1, <1>9, <3>1, VectorsKept DEF toneVars, ringVars
  <2>2. Sound(c)'
    BY <1>1, <1>2, <1>3, <1>9, <2>1 DEF Sound, Ongoing
  <2> QED BY <1>3, <1>9, <2>2, AloneKeeps
<1>10. CASE Answered(new)
  <2>1. call' \in [Call -> CallState] /\ call'[c] = new /\ \A d \in Call \ {c} : Marked(d)
    BY <1>10, HeldAreMarked
  <2>2. ~isRinging'[c]
    BY <1>2, <1>10 DEF toneVars, ringVars
  <2>3. timers' \subseteq [slot : Slot, for : Call]
    BY <1>1, <1>10
  <2> QED BY <1>1, <1>3, <1>4, <1>10, <2>1, <2>2, <2>3, ListingKeeps
<1>11. CASE Rings(new)
  <2>1. call' \in [Call -> CallState] /\ call'[c] = new /\ \A d \in Call \ {c} : Marked(d)
    BY <1>1, <1>11 DEF Marked
  <2>2. timers' \subseteq [slot : Slot, for : Call]
    BY <1>1, <1>4, <1>11
  <2>3. \E tune \in Tune : StartsRinging(c, tune)
    BY <1>11 DEF Tune
  <2> QED BY <1>1, <1>3, <1>4, <1>11, <2>1, <2>2, <2>3, ListingKeeps
<1> QED BY <1>3, <1>9, <1>10, <1>11

(* What removeCall, onCallEnd and the delete leave: the calls in H are resumed. *)
LEMMA RemovalOutcome ==
    ASSUME NEW c \in Call, CallRemoved(c)
    PROVE \E o \in {"leaked", "deleted"}, l \in {"no", "late"}, H \in SUBSET Call :
            /\ call[c].dialing => l = "late"
            /\ \A d \in H : UnHolds(d)
            /\ call' = [d \in Call |->
                  IF d = c THEN [Unborn EXCEPT !.obj = o, !.inv = "DISCONNECTED", !.dialing = call[c].dialing,
                                               !.lost = l]
                  ELSE IF d \in H THEN [call[d] EXCEPT !.reinvite = "unhold"] ELSE call[d]]
<1>1. PICK failed \in DeviceFails :
       LET unheld == \A d \in Resumed(c) : ~UnHoldThrows(d)
           threw == ~unheld \/ (DeviceRefresh /\ failed)
           gone == [Unborn EXCEPT !.obj = IF threw THEN "leaked" ELSE "deleted",
                                  !.inv = "DISCONNECTED", !.dialing = call[c].dialing,
                                  !.lost = IF call[c].dialing THEN "late" ELSE "no"]
       IN  call' = [d \in Call |->
                      IF d = c THEN gone
                      ELSE IF unheld /\ d \in Resumed(c) /\ UnHolds(d)
                      THEN [call[d] EXCEPT !.reinvite = "unhold"]
                      ELSE call[d]]
  BY DEF CallRemoved
<1> DEFINE unheld == \A d \in Resumed(c) : ~UnHoldThrows(d)
           o == IF ~unheld \/ (DeviceRefresh /\ failed) THEN "leaked" ELSE "deleted"
           l == IF call[c].dialing THEN "late" ELSE "no"
           H == {d \in Call : unheld /\ d \in Resumed(c) /\ UnHolds(d)}
<1>2. /\ o \in {"leaked", "deleted"} /\ H \in SUBSET Call /\ \A d \in H : UnHolds(d)
      /\ l \in {"no", "late"} /\ (call[c].dialing => l = "late")
  OBVIOUS
<1>3. call' = [d \in Call |->
                IF d = c THEN [Unborn EXCEPT !.obj = o, !.inv = "DISCONNECTED", !.dialing = call[c].dialing,
                                               !.lost = l]
                ELSE IF d \in H THEN [call[d] EXCEPT !.reinvite = "unhold"] ELSE call[d]]
  BY <1>1
<1> HIDE DEF o, l, H
<1> QED BY <1>2, <1>3

LEMMA CallRemovedKeeps ==
    ASSUME IInv, NEW c \in Call, CallRemoved(c)
    PROVE IInv'
<1>1. /\ call \in [Call -> CallState] /\ call[c] \in CallState /\ Sound(c) /\ VectorsOK
      /\ timers \subseteq [slot : Slot, for : Call] /\ \A d \in Call : Sound(d)
  BY DEF IInv, TypeOK
<1>2. /\ call[c].inv = "DISCONNECTED" /\ call[c].slot # NoSlot
      /\ calls' = [calls EXCEPT ![AccountOf[c]] = RemoveFirst(@, c)] /\ UNCHANGED timers /\ UNCHANGED toneVars
  BY DEF CallRemoved
<1>3. PICK o \in {"leaked", "deleted"}, l \in {"no", "late"}, H \in SUBSET Call :
         /\ call[c].dialing => l = "late"
         /\ \A d \in H : UnHolds(d)
         /\ call' = [d \in Call |->
                      IF d = c THEN [Unborn EXCEPT !.obj = o, !.inv = "DISCONNECTED", !.dialing = call[c].dialing,
                                               !.lost = l]
                      ELSE IF d \in H THEN [call[d] EXCEPT !.reinvite = "unhold"] ELSE call[d]]
  BY RemovalOutcome
<1> DEFINE new == [Unborn EXCEPT !.obj = o, !.inv = "DISCONNECTED", !.dialing = call[c].dialing,
                                               !.lost = l]
<1>4. /\ new \in CallState /\ new.obj # "none" /\ new.slot = NoSlot /\ new.inv = "DISCONNECTED"
      /\ new.dialing = call[c].dialing /\ new.media = "absent" /\ new.lost = l
  <2>1. call[c].dialing \in BOOLEAN
    BY <1>1 DEF CallState
  <2> QED BY <2>1 DEF Unborn, CallState
<1>5. call' = [d \in Call |-> IF d = c THEN new
                ELSE IF d \in H THEN [call[d] EXCEPT !.reinvite = "unhold"] ELSE call[d]]
  BY <1>3
<1> HIDE DEF new
<1>6. ASSUME NEW d \in Call \ {c} PROVE call'[d] \in CallState /\ Marked(d)
  <2>1. call[d] \in CallState /\ Sound(d)
    BY <1>1
  <2>2. CASE d \in H
    <3>1. call'[d] = [call[d] EXCEPT !.reinvite = "unhold"]
      BY <1>5, <2>2
    <3>2. call[d].obj # "none"
      BY <1>3, <2>1, <2>2 DEF Sound, Unborn, UnHolds
    <3> QED BY <2>1, <3>1, <3>2 DEF Marked, CallState
  <2>3. CASE d \notin H
    <3>1. call'[d] = call[d]
      BY <1>5, <2>3
    <3> QED BY <2>1, <3>1 DEF Marked
  <2> QED BY <2>2, <2>3
<1>7. call'[c] = new
  BY <1>5
<1>8. call' \in [Call -> CallState]
  BY <1>4, <1>5, <1>6, <1>7
<1>9. VectorsOK' /\ \A d \in Call : Listed(d)' <=> Listed(d) /\ d # c
  BY <1>1, <1>2, VectorsShrink
<1>10. Sound(c)'
  <2>1. ~isRinging'[c]
    BY <1>1, <1>2 DEF Sound, toneVars, ringVars
  <2> QED BY <1>1, <1>2, <1>3, <1>4, <1>7, <1>9, <2>1 DEF Sound, Ongoing
<1>11. /\ \A d \in Call \ {c} : Marked(d) /\ (Listed(d)' <=> Listed(d))
       /\ call'[c].slot \in {call[c].slot, NoSlot} \cup FreeSlots /\ timers' \subseteq [slot : Slot, for : Call]
  BY <1>1, <1>2, <1>4, <1>6, <1>7, <1>9
<1> QED BY <1>2, <1>8, <1>9, <1>10, <1>11, StepKeeps

LEMMA IInvInit == Init => IInv
<1> SUFFICES ASSUME Init PROVE IInv
  OBVIOUS
<1>1. TonesOK
  BY TonesInit DEF Init
<1>2. \A c \in Call : call[c] = Unborn
  BY DEF Init
<1>3. Unborn \in CallState
  BY DEF Unborn, CallState
<1>4. call \in [Call -> CallState] /\ timers \subseteq [slot : Slot, for : Call]
  BY <1>3 DEF Init
<1>5. VectorsOK /\ \A c \in Call : ~Listed(c)
  <2>1. \A c \in Call : AccountOf[c] \in Account
    BY CallsAssumption
  <2> QED BY <2>1 DEF Init, VectorsOK, Listed, Once, Range
<1>6. OwnSlots
  BY <1>2 DEF OwnSlots, Unborn
<1>7. \A c \in Call : Sound(c)
  BY <1>2, <1>5 DEF Sound, Ongoing, Unborn, Init, ToneInit, RingInit
<1> QED BY <1>1, <1>4, <1>5, <1>6, <1>7, IInvParts DEF CallsOK

(* A handler, in a state of which something is said. *)
Handler ==
    \/ \E c \in Call : User(c) \/ Remote(c) \/ ReinviteAnswered(c)
    \/ \E c \in Call : DialReturns(c) \/ Disconnected(c) \/ CallRemoved(c)
    \/ \E t \in timers : TimedAnswer(t)
    \/ HangupAll

LEMMA NextIsHandler == Next => Handler
  BY DEF Next, Handler

(* Every handler keeps the invariant. *)
LEMMA IInvStep == IInv /\ [Handler]_vars => IInv'
<1> SUFFICES ASSUME IInv, [Handler]_vars PROVE IInv'
  OBVIOUS
<1>1. ASSUME NEW c \in Call, User(c) \/ Remote(c) \/ ReinviteAnswered(c) PROVE IInv'
  <2>1. CASE Dial(c)
    BY <2>1, DialKeeps
  <2>2. CASE Answer(c) \/ Hold(c) \/ UnHold(c) \/ Hangup(c) \/ ReinviteAnswered(c)
    BY <2>2, UserKeeps
  <2>3. CASE IncomingCall(c)
    BY <2>3, IncomingCallKeeps
  <2>4. CASE RemoteRinging(c) \/ RemoteEarlyMedia(c) \/ RemoteAnswer(c) \/ RemoteAck(c) \/ RemoteReinvite(c)
    <3>1. Ongoing(c)
      BY <2>4 DEF RemoteRinging, RemoteEarlyMedia, RemoteAnswer, RemoteAck, RemoteReinvite
    <3> QED BY <2>4, <3>1, RemoteKeeps
  <2> QED BY <1>1, <2>1, <2>2, <2>3, <2>4 DEF User, Remote
<1>2. ASSUME NEW c \in Call, DialReturns(c) \/ Disconnected(c) \/ CallRemoved(c) PROVE IInv'
  BY <1>2, DialReturnsKeeps, DisconnectedKeeps, CallRemovedKeeps
<1>3. ASSUME NEW t \in timers, TimedAnswer(t) PROVE IInv'
  BY <1>3, TimedAnswerKeeps
<1>4. CASE HangupAll
  BY <1>4, HangupAllKeeps
<1>5. CASE UNCHANGED vars
  <2>1. call' \in [Call -> CallState] /\ \A d \in Call : Marked(d)
    BY <1>5 DEF IInv, TypeOK, vars, Marked
  <2>2. UNCHANGED <<calls, toneVars>> /\ timers' \subseteq timers
    BY <1>5 DEF vars
  <2> QED BY <2>1, <2>2, MarksKeep
<1> QED BY <1>1, <1>2, <1>3, <1>4, <1>5 DEF Handler

-----------------------------------------------------------------------------
(* What a step does to a call *)

(* What the routes do to the calls besides what Calls does: re-INVITEs for  *)
(* confirmed calls, a hang-up (onCallTransferStatus, too), a lost object.   *)
Reinvites(H, r) ==
    /\ \A d \in H : call[d].inv = "CONFIRMED"
    /\ call' = [d \in Call |-> IF d \in H THEN [call[d] EXCEPT !.reinvite = r] ELSE call[d]]
    /\ UNCHANGED <<calls, timers, toneVars>>
Ends(c) ==
    /\ Ongoing(c)
    /\ call' = [call EXCEPT ![c].ending = TRUE]
    /\ UNCHANGED <<calls, timers, toneVars>>
Leaks(c) ==
    /\ call[c].obj = "none"
    /\ call' = [call EXCEPT ![c].obj = "leaked"]
    /\ UNCHANGED <<calls, timers, toneVars>>

(* An object that was made is not unmade, and gets no slot once it has none. *)
Stays(c) ==
    call[c].obj # "none" =>
      /\ call'[c].obj # "none"
      /\ call[c].slot = NoSlot => call'[c].slot = NoSlot

Dials(c) == call[c].dialing => call'[c].dialing

LEMMA MarkedStay ==
    ASSUME NEW d, Marked(d)
    PROVE Stays(d) /\ Dials(d)
  BY DEF Marked, Stays, Dials

LEMMA AloneStay ==
    ASSUME IInv, NEW c \in Call, NEW new \in CallState, call' = [call EXCEPT ![c] = new],
           new.obj # "none", call[c].dialing => new.dialing,
           call[c].obj # "none" => new.slot \in {call[c].slot, NoSlot}
    PROVE \A d \in Call : Stays(d) /\ Dials(d)
<1>1. call \in [Call -> CallState]
  BY DEF IInv, TypeOK
<1>2. call'[c] = new /\ \A d \in Call \ {c} : call'[d] = call[d]
  BY <1>1
<1> QED BY <1>2 DEF Stays, Dials

(* The handlers of a call that goes on: its object and its slot stay. *)
LEMMA OngoingStay ==
    ASSUME IInv, NEW c \in Call, Ongoing(c),
           RemoteRinging(c) \/ RemoteEarlyMedia(c) \/ RemoteAnswer(c) \/ RemoteAck(c) \/ RemoteReinvite(c)
           \/ AnswerWith200(c) \/ Hold(c) \/ UnHold(c) \/ Hangup(c) \/ ReinviteAnswered(c)
    PROVE \A d \in Call : Stays(d) /\ Dials(d)
<1>1. call \in [Call -> CallState] /\ call[c] \in CallState
  BY DEF IInv, TypeOK
<1> DEFINE Kept(new) == new.obj = call[c].obj /\ new.slot = call[c].slot /\ new.dialing = call[c].dialing
<1>2. ASSUME NEW new, call' = [call EXCEPT ![c] = new], Kept(new)
      PROVE \A d \in Call : Stays(d) /\ Dials(d)
  <2>1. call'[c] = new /\ \A d \in Call \ {c} : call'[d] = call[d]
    BY <1>1, <1>2
  <2> QED BY <1>2, <2>1 DEF Stays, Dials
<1>3. ASSUME NEW m, NEW i, NEW r, MediaState(c, m, i, r) PROVE \A d \in Call : Stays(d) /\ Dials(d)
  <2>1. PICK e \in BOOLEAN :
          call' = [call EXCEPT ![c] = [@ EXCEPT !.media = m, !.inv = i, !.reinvite = r, !.ending = e]]
    BY <1>3 DEF MediaState, DeviceFails
  <2> DEFINE new == [call[c] EXCEPT !.media = m, !.inv = i, !.reinvite = r, !.ending = e]
  <2>2. Kept(new)
    BY <1>1 DEF CallState
  <2>3. call' = [call EXCEPT ![c] = new]
    BY <1>1, <2>1
  <2> HIDE DEF new
  <2> QED BY <1>2, <2>2, <2>3
<1>4. ASSUME NEW new, call' = [call EXCEPT ![c] = new],
             \E i : new = [call[c] EXCEPT !.inv = i] \/ new = [call[c] EXCEPT !.reinvite = i]
                    \/ new = [call[c] EXCEPT !.ending = i]
      PROVE \A d \in Call : Stays(d) /\ Dials(d)
  <2>1. Kept(new)
    BY <1>1, <1>4 DEF CallState
  <2> QED BY <1>2, <1>4, <2>1
<1>5. CASE RemoteRinging(c) \/ RemoteAck(c)
  BY <1>1, <1>4, <1>5 DEF RemoteRinging, RemoteAck
<1>6. CASE Hold(c) \/ UnHold(c) \/ Hangup(c)
  BY <1>1, <1>4, <1>6 DEF Hold, UnHold, Hangup
<1>7. CASE ReinviteAnswered(c)
  BY <1>1, <1>3, <1>4, <1>7 DEF ReinviteAnswered
<1>8. CASE RemoteEarlyMedia(c) \/ RemoteAnswer(c) \/ RemoteReinvite(c) \/ AnswerWith200(c)
  BY <1>3, <1>8 DEF RemoteEarlyMedia, RemoteAnswer, RemoteReinvite, AnswerWith200
<1> QED BY <1>5, <1>6, <1>7, <1>8

LEMMA TimedAnswerStays ==
    ASSUME IInv, NEW t \in timers, TimedAnswer(t)
    PROVE \A d \in Call : Stays(d) /\ Dials(d)
<1>1. call \in [Call -> CallState]
  BY DEF IInv, TypeOK
<1>2. CASE UNCHANGED call
  BY <1>2 DEF Stays, Dials
<1>3. ASSUME NEW c \in Call, NEW e,
             call' = [call EXCEPT ![c] = [@ EXCEPT !.inv = "CONNECTING", !.media = "ACTIVE", !.ending = e]]
      PROVE \A d \in Call : Stays(d) /\ Dials(d)
  <2>1. call[c] \in CallState
    BY <1>1
  <2>2. /\ call'[c].obj = call[c].obj /\ call'[c].slot = call[c].slot /\ call'[c].dialing = call[c].dialing
        /\ \A d \in Call \ {c} : call'[d] = call[d]
    BY <1>1, <1>3, <2>1 DEF CallState
  <2> QED BY <2>2 DEF Stays, Dials
<1> QED BY <1>2, <1>3 DEF TimedAnswer

LEMMA DialStays ==
    ASSUME IInv, NEW c \in Call, Dial(c) \/ Leaks(c)
    PROVE \A d \in Call : Stays(d) /\ Dials(d)
<1>1. call \in [Call -> CallState] /\ call[c].obj = "none" /\ call[c] = Unborn
  BY DEF IInv, TypeOK, Sound, Dial, Leaks
<1>2. \A d \in Call \ {c} : call'[d] = call[d]
  BY <1>1 DEF Dial, Leaks
<1>3. ~call[c].dialing
  BY <1>1 DEF Unborn
<1> QED BY <1>1, <1>2, <1>3 DEF Stays, Dials

LEMMA DialReturnsStays ==
    ASSUME IInv, NEW c \in Call, DialReturns(c)
    PROVE \A d \in Call : Stays(d) /\ (Dials(d) \/ DialReturns(d))
<1>1. call \in [Call -> CallState] /\ call[c] \in CallState /\ Sound(c)
  BY DEF IInv, TypeOK
<1>2. call[c].obj # "none"
  BY <1>1 DEF Sound, Unborn, DialReturns
<1> DEFINE new == [call[c] EXCEPT !.dialing = FALSE]
<1>3. new \in CallState /\ new.obj = call[c].obj /\ new.slot = call[c].slot
  BY <1>1 DEF CallState
<1>4. call' = WithHeld(HeldBefore(c), c, new)
  BY DEF DialReturns
<1> HIDE DEF new
<1>5. call'[c] = new /\ \A d \in Call \ {c} : Marked(d)
  BY <1>3, <1>4, HeldAreMarked
<1>6. Stays(c)
  BY <1>2, <1>3, <1>5 DEF Stays
<1> QED BY <1>5, <1>6, MarkedStay

LEMMA DisconnectedStays ==
    ASSUME IInv, NEW c \in Call, Disconnected(c)
    PROVE \A d \in Call : Stays(d) /\ Dials(d)
<1>1. call \in [Call -> CallState] /\ call[c] \in CallState /\ Sound(c)
  BY DEF IInv, TypeOK
<1>2. call[c].obj # "none"
  BY <1>1 DEF Sound, Unborn, Disconnected
<1> DEFINE over == [call[c] EXCEPT !.inv = "DISCONNECTED", !.reinvite = "none", !.ending = FALSE]
           lost == [over EXCEPT !.slot = NoSlot, !.media = "absent", !.lost = "unpublished"]
<1>3. over \in CallState /\ over.obj = call[c].obj /\ over.dialing = call[c].dialing /\ over.slot = call[c].slot
  BY <1>1 DEF CallState
<1>4. lost \in CallState /\ lost.obj = call[c].obj /\ lost.dialing = call[c].dialing /\ lost.slot = NoSlot
  BY <1>1, ZenonT(60) DEF CallState
<1>5. PICK new \in {over, lost} : call' = [call EXCEPT ![c] = new]
  BY DEF Disconnected
<1> HIDE DEF over, lost
<1> QED BY <1>2, <1>3, <1>4, <1>5, AloneStay

LEMMA IncomingStays ==
    ASSUME IInv, NEW c \in Call, IncomingCall(c)
    PROVE \A d \in Call : Stays(d) /\ Dials(d)
<1>1. call \in [Call -> CallState] /\ call[c].obj = "none" /\ call[c] = Unborn
  BY DEF IInv, TypeOK, IncomingCall, Sound
<1>2. ~call[c].dialing
  BY <1>1 DEF Unborn
<1>3. PICK new \in CallState :
        call' = [call EXCEPT ![c] = new] \/ call' = WithHeld(HeldBefore(c), c, new)
  BY IncomingOutcomes
<1>4. \A d \in Call \ {c} : Marked(d)
  <2>1. CASE call' = [call EXCEPT ![c] = new]
    BY <1>1, <2>1 DEF Marked
  <2>2. CASE call' = WithHeld(HeldBefore(c), c, new)
    BY <2>2, HeldAreMarked
  <2> QED BY <1>3, <2>1, <2>2
<1>5. Stays(c) /\ Dials(c)
  BY <1>1, <1>2 DEF Stays, Dials
<1> QED BY <1>4, <1>5, MarkedStay

LEMMA RemovedStays ==
    ASSUME IInv, NEW c \in Call, CallRemoved(c)
    PROVE (\A d \in Call : Stays(d) /\ Dials(d)) /\ call'[c].slot = NoSlot
<1>1. call \in [Call -> CallState]
  BY DEF IInv, TypeOK
<1>2. PICK o \in {"leaked", "deleted"}, l \in {"no", "late"}, H \in SUBSET Call :
         /\ call[c].dialing => l = "late"
         /\ \A d \in H : UnHolds(d)
         /\ call' = [d \in Call |->
                   IF d = c THEN [Unborn EXCEPT !.obj = o, !.inv = "DISCONNECTED", !.dialing = call[c].dialing,
                                               !.lost = l]
                   ELSE IF d \in H THEN [call[d] EXCEPT !.reinvite = "unhold"] ELSE call[d]]
  BY RemovalOutcome
<1>3. Stays(c) /\ Dials(c) /\ call'[c].slot = NoSlot
  <2>1. call'[c] = [Unborn EXCEPT !.obj = o, !.inv = "DISCONNECTED", !.dialing = call[c].dialing, !.lost = l]
    BY <1>2
  <2> QED BY <2>1 DEF Stays, Dials, Unborn
<1>4. ASSUME NEW d \in Call \ {c} PROVE Stays(d) /\ Dials(d)
  <2>1. call'[d] = [call[d] EXCEPT !.reinvite = "unhold"] \/ call'[d] = call[d]
    BY <1>2
  <2>2. call[d] \in CallState
    BY <1>1
  <2> QED BY <2>1, <2>2 DEF Stays, Dials, CallState
<1> QED BY <1>3, <1>4

LEMMA HangupAllStays ==
    ASSUME IInv, HangupAll
    PROVE \A d \in Call : Stays(d) /\ Dials(d)
<1>1. call \in [Call -> CallState]
  BY DEF IInv, TypeOK
<1>2. ASSUME NEW d \in Call PROVE Stays(d) /\ Dials(d)
  <2>1. call'[d] = [call[d] EXCEPT !.ending = TRUE] \/ call'[d] = call[d]
    BY DEF HangupAll
  <2>2. call[d] \in CallState
    BY <1>1
  <2> QED BY <2>1, <2>2 DEF Stays, Dials, CallState
<1> QED BY <1>2

(* An object stays; and only MakeCall ends a dial. *)
LEMMA EveryStep == IInv /\ [Handler]_vars => \A d \in Call : Stays(d) /\ (Dials(d) \/ DialReturns(d))
<1> DEFINE P == \A d \in Call : Stays(d) /\ (Dials(d) \/ DialReturns(d))
<1> SUFFICES ASSUME IInv, [Handler]_vars PROVE P
  OBVIOUS
<1>1. ASSUME NEW c \in Call, User(c) \/ Remote(c) \/ ReinviteAnswered(c) PROVE P
  <2>1. CASE Dial(c)
    BY <2>1, DialStays
  <2>2. CASE IncomingCall(c)
    BY <2>2, IncomingStays
  <2>3. CASE Answer(c)
    BY <2>3, OngoingStay DEF Answer, AnswerWith200
  <2>4. CASE \/ RemoteRinging(c) \/ RemoteEarlyMedia(c) \/ RemoteAnswer(c) \/ RemoteAck(c)
             \/ RemoteReinvite(c) \/ Hold(c) \/ UnHold(c) \/ Hangup(c) \/ ReinviteAnswered(c)
    <3>1. Ongoing(c)
      BY <2>4 DEF RemoteRinging, RemoteEarlyMedia, RemoteAnswer, RemoteAck, RemoteReinvite, Hold, UnHold,
                  Hangup, ReinviteAnswered
    <3> QED BY <2>4, <3>1, OngoingStay
  <2> QED BY <1>1, <2>1, <2>2, <2>3, <2>4 DEF User, Remote
<1>2. ASSUME NEW c \in Call, DialReturns(c) \/ Disconnected(c) \/ CallRemoved(c) PROVE P
  BY <1>2, DialReturnsStays, DisconnectedStays, RemovedStays
<1>3. ASSUME NEW t \in timers, TimedAnswer(t) PROVE P
  BY <1>3, TimedAnswerStays
<1>4. CASE HangupAll
  BY <1>4, HangupAllStays
<1>5. CASE UNCHANGED vars
  BY <1>5 DEF vars, Stays, Dials
<1> QED BY <1>1, <1>2, <1>3, <1>4, <1>5 DEF Handler

-----------------------------------------------------------------------------
(* The actions of CallApi *)

LEMMA RouteKinds ==
    ASSUME IInv, NEW c \in Call, Route(c)
    PROVE \/ UNCHANGED vars
          \/ \E H \in SUBSET Call, r \in {"hold", "unhold"} : Reinvites(H, r)
          \/ Ends(c) \/ Leaks(c) \/ (Ongoing(c) /\ AnswerWith200(c)) \/ Dial(c) \/ DialReturns(c)
<1> DEFINE Kinds ==
          \/ UNCHANGED vars
          \/ \E H \in SUBSET Call, r \in {"hold", "unhold"} : Reinvites(H, r)
          \/ Ends(c) \/ Leaks(c) \/ (Ongoing(c) /\ AnswerWith200(c)) \/ Dial(c) \/ DialReturns(c)
<1>1. call \in [Call -> CallState]
  BY DEF IInv, TypeOK
<1>2. ASSUME Holds(c) \/ UnHolds(c), NEW r \in {"hold", "unhold"},
             call' = [call EXCEPT ![c].reinvite = r], UNCHANGED <<calls, timers, toneVars>>
      PROVE Kinds
  <2>1. call' = [d \in Call |-> IF d \in {c} THEN [call[d] EXCEPT !.reinvite = r] ELSE call[d]]
    BY <1>1, <1>2
  <2>2. Reinvites({c}, r)
    BY <1>2, <2>1 DEF Reinvites, Holds, UnHolds
  <2> QED BY <2>2
<1>3. CASE AnswerRoute(c)
  BY <1>3 DEF AnswerRoute, Fails, confVars
<1>4. CASE HoldRoute(c)
  <2>1. \/ UNCHANGED vars
        \/ Holds(c) /\ call' = [call EXCEPT ![c].reinvite = "hold"] /\ UNCHANGED <<calls, timers, toneVars>>
    BY <1>4, ZenonT(40) DEF HoldRoute, Fails, confVars, vars
  <2> QED BY <1>2, <2>1
<1>5. CASE UnHoldRoute(c)
  <2>1. \/ UNCHANGED vars
        \/ UnHolds(c) /\ call' = [call EXCEPT ![c].reinvite = "unhold"] /\ UNCHANGED <<calls, timers, toneVars>>
    BY <1>5, ZenonT(40) DEF UnHoldRoute, Fails, confVars, vars
  <2> QED BY <1>2, <2>1
<1>6. CASE ConferenceRoute(c)
  <2>1. UNCHANGED vars \/ \E ds : Resume(ds) /\ UNCHANGED <<calls, timers, toneVars>>
    BY <1>6, ZenonT(40) DEF ConferenceRoute, Conference, Fails, confVars, vars
  <2>2. ASSUME NEW ds, Resume(ds), UNCHANGED <<calls, timers, toneVars>> PROVE Kinds
    <3> DEFINE H == {d \in Call : d \in ds /\ UnHolds(d) /\ ~UnHoldThrows(d)}
    <3>1. call' = [d \in Call |-> IF d \in H THEN [call[d] EXCEPT !.reinvite = "unhold"] ELSE call[d]]
      BY <2>2 DEF Resume
    <3>2. H \in SUBSET Call /\ \A d \in H : call[d].inv = "CONFIRMED"
      BY DEF UnHolds
    <3> HIDE DEF H
    <3> QED BY <2>2, <3>1, <3>2 DEF Reinvites
  <2> QED BY <2>1, <2>2
<1>7. CASE BreakRoute(c)
  <2>1. UNCHANGED vars \/ \E ds : Suspend(ds) /\ UNCHANGED <<calls, timers, toneVars>>
    BY <1>7, ZenonT(40) DEF BreakRoute, BreakConference, Fails, confVars, vars
  <2>2. ASSUME NEW ds, Suspend(ds), UNCHANGED <<calls, timers, toneVars>> PROVE Kinds
    <3> DEFINE H == {d \in Call : d \in ds /\ Holds(d) /\ ~HoldThrows(d)}
    <3>1. call' = [d \in Call |-> IF d \in H THEN [call[d] EXCEPT !.reinvite = "hold"] ELSE call[d]]
      BY <2>2 DEF Suspend
    <3>2. H \in SUBSET Call /\ \A d \in H : call[d].inv = "CONFIRMED"
      BY DEF Holds
    <3> HIDE DEF H
    <3> QED BY <2>2, <3>1, <3>2 DEF Reinvites
  <2> QED BY <2>1, <2>2
<1>8. CASE TransferRoute(c) \/ AttendedTransferRoute(c) \/ DtmfRoute(c)
  BY <1>8 DEF TransferRoute, AttendedTransferRoute, DtmfRoute, confVars
<1>9. CASE HangupRoute(c)
  BY <1>9 DEF HangupRoute, Fails, confVars, vars, Ends
<1>10. CASE DialRoute(c)
  BY <1>10 DEF DialRoute, confVars, Leaks
<1>11. CASE DialRouteCalls(c) \/ DialRouteReturns(c)
  BY <1>11 DEF DialRouteCalls, DialRouteReturns
<1> QED BY <1>3, <1>4, <1>5, <1>6, <1>7, <1>8, <1>9, <1>10, <1>11 DEF Route

(* A call stays in the vector until PJSIP has forgotten it. *)
Persist == \A d \in Call : Stays(d) /\ (Listed(d) => Listed(d)' \/ call'[d].slot = NoSlot)

LEMMA MarksPersist ==
    ASSUME UNCHANGED calls, \A d \in Call : Marked(d)
    PROVE Persist
  BY DEF Persist, Marked, Stays, Listed

LEMMA UnchangedKeeps == IInv /\ UNCHANGED vars => IInv' /\ Persist
<1> SUFFICES ASSUME IInv, UNCHANGED vars PROVE IInv' /\ Persist
  OBVIOUS
<1>1. call' \in [Call -> CallState] /\ \A d \in Call : Marked(d)
  BY DEF IInv, TypeOK, vars, Marked
<1>2. UNCHANGED <<calls, toneVars>> /\ timers' \subseteq timers
  BY DEF vars
<1> QED BY <1>1, <1>2, MarksKeep, MarksPersist

LEMMA ReinvitesKeep ==
    ASSUME IInv, NEW H \in SUBSET Call, NEW r \in {"hold", "unhold"}, Reinvites(H, r)
    PROVE IInv' /\ Persist
<1>1. call \in [Call -> CallState] /\ \A d \in Call : Sound(d)
  BY DEF IInv, TypeOK
<1>2. ASSUME NEW d \in Call PROVE call'[d] \in CallState /\ Marked(d)
  <2>1. call[d] \in CallState /\ Sound(d)
    BY <1>1
  <2>2. CASE d \in H
    <3>1. call'[d] = [call[d] EXCEPT !.reinvite = r]
      BY <2>2 DEF Reinvites
    <3>2. call[d].obj # "none"
      BY <2>1, <2>2 DEF Sound, Unborn, Reinvites
    <3> QED BY <2>1, <3>1, <3>2 DEF Marked, CallState
  <2>3. CASE d \notin H
    <3>1. call'[d] = call[d]
      BY <2>3 DEF Reinvites
    <3> QED BY <2>1, <3>1 DEF Marked
  <2> QED BY <2>2, <2>3
<1>3. call' \in [Call -> CallState] /\ UNCHANGED <<calls, toneVars>> /\ timers' \subseteq timers
  BY <1>2 DEF Reinvites
<1> QED BY <1>2, <1>3, MarksKeep, MarksPersist

LEMMA EndsKeeps ==
    ASSUME IInv, NEW c \in Call, Ends(c)
    PROVE IInv' /\ Persist
<1>1. call \in [Call -> CallState] /\ call[c] \in CallState /\ Sound(c)
  BY DEF IInv, TypeOK
<1>2. call[c].obj # "none"
  BY <1>1 DEF Sound, Unborn, Ongoing, Ends
<1>3. ASSUME NEW d \in Call PROVE call'[d] \in CallState /\ Marked(d)
  BY <1>1, <1>2 DEF Ends, Marked, CallState
<1>4. call' \in [Call -> CallState] /\ UNCHANGED <<calls, toneVars>> /\ timers' \subseteq timers
  BY <1>1, <1>3 DEF Ends
<1> QED BY <1>3, <1>4, MarksKeep, MarksPersist

LEMMA HandlerPersists == IInv /\ [Handler]_vars => Persist
<1> SUFFICES ASSUME IInv, [Handler]_vars PROVE Persist
  OBVIOUS
<1>1. \A d \in Call : Stays(d)
  BY EveryStep
<1>2. VectorsOK /\ call \in [Call -> CallState]
  BY DEF IInv, TypeOK
<1>3. CASE UNCHANGED calls
  BY <1>1, <1>3 DEF Persist, Listed
<1>4. ASSUME NEW c \in Call, ~Listed(c), calls' = [calls EXCEPT ![AccountOf[c]] = Append(@, c)] PROVE Persist
  BY <1>1, <1>2, <1>4, VectorsGrow DEF Persist
<1>5. ASSUME NEW c \in Call, CallRemoved(c) PROVE Persist
  <2>1. \A d \in Call : Listed(d)' <=> Listed(d) /\ d # c
    BY <1>2, <1>5, VectorsShrink DEF CallRemoved
  <2>2. call'[c].slot = NoSlot
    BY <1>5, RemovedStays
  <2> QED BY <1>1, <2>1, <2>2 DEF Persist
<1>6. ASSUME NEW c \in Call, DialReturns(c) \/ IncomingCall(c) PROVE Persist
  <2>1. ~Listed(c)
    BY <1>6 DEF IInv, Sound, DialReturns, IncomingCall
  <2>2. UNCHANGED calls \/ calls' = [calls EXCEPT ![AccountOf[c]] = Append(@, c)]
    <3>1. CASE DialReturns(c)
      BY <3>1 DEF DialReturns
    <3>2. CASE IncomingCall(c)
      BY <3>2, IncomingOutcomes
    <3> QED BY <1>6, <3>1, <3>2
  <2> QED BY <1>3, <1>4, <2>1, <2>2
<1>7. \/ UNCHANGED calls
      \/ \E c \in Call : DialReturns(c) \/ IncomingCall(c) \/ CallRemoved(c)
  <2>1. ASSUME NEW c \in Call, User(c) \/ Remote(c) \/ ReinviteAnswered(c), ~IncomingCall(c)
        PROVE UNCHANGED calls
    BY <2>1 DEF User, Remote, ReinviteAnswered, Dial, Answer, AnswerWith200, Hold, UnHold, Hangup,
                RemoteRinging, RemoteEarlyMedia, RemoteAnswer, RemoteAck, RemoteReinvite, MediaState
  <2>2. ASSUME NEW t \in timers, TimedAnswer(t) PROVE UNCHANGED calls
    BY <2>2 DEF TimedAnswer
  <2>3. ASSUME HangupAll \/ UNCHANGED vars \/ \E c \in Call : Disconnected(c) PROVE UNCHANGED calls
    BY <2>3 DEF HangupAll, vars, Disconnected
  <2> QED BY <2>1, <2>2, <2>3 DEF Handler
<1> QED BY <1>3, <1>5, <1>6, <1>7

LEMMA AnswerPersists ==
    ASSUME IInv, NEW c \in Call, Ongoing(c), AnswerWith200(c)
    PROVE IInv' /\ Persist
<1>1. (\A d \in Call : Stays(d)) /\ UNCHANGED calls
  BY OngoingStay DEF AnswerWith200, MediaState
<1>2. Persist
  BY <1>1 DEF Persist, Listed
<1> QED BY <1>2, RemoteKeeps

LEMMA RouteKeeps ==
    ASSUME IInv, NEW c \in Call, Route(c)
    PROVE IInv' /\ Persist
<1>1. CASE Dial(c) \/ DialReturns(c)
  <2>1. Handler
    BY <1>1 DEF Handler, User
  <2> QED BY <2>1, IInvStep, HandlerPersists
<1>2. CASE Leaks(c)
  <2>1. IInv'
    BY <1>2, LeakKeeps DEF Leaks
  <2>2. call \in [Call -> CallState]
    BY DEF IInv, TypeOK
  <2>3. Persist
    BY <1>2, <2>2 DEF Leaks, Persist, Stays, Listed
  <2> QED BY <2>1, <2>3
<1> QED BY <1>1, <1>2, RouteKinds, UnchangedKeeps, ReinvitesKeep, EndsKeeps, AnswerPersists

LEMMA ElsewhereKeeps ==
    ASSUME IInv, Elsewhere
    PROVE IInv' /\ Persist
<1>1. ASSUME NEW c \in Call, TransferStatus(c) PROVE IInv' /\ Persist
  BY <1>1, EndsKeeps DEF TransferStatus, Ends
<1>2. (\E c \in Call : TransferStatus(c)) \/ Handler
  BY DEF Elsewhere, Handler
<1> QED BY <1>1, <1>2, IInvStep, HandlerPersists

LEMMA ApiStepKeeps == IInv /\ [ApiNext]_apiVars => IInv' /\ Persist
<1> SUFFICES ASSUME IInv, [ApiNext]_apiVars PROVE IInv' /\ Persist
  OBVIOUS
<1>1. CASE UNCHANGED confVars
  BY <1>1, UnchangedKeeps DEF confVars
<1>2. CASE HangupAllRoute
  <2>1. CASE HangupAll
    BY <2>1, IInvStep, HandlerPersists DEF Handler
  <2> QED BY <1>1, <1>2, <2>1 DEF HangupAllRoute
<1> QED BY <1>1, <1>2, RouteKeeps, ElsewhereKeeps
        DEF ApiNext, apiVars, confVars, Lookup, FollowsDangling, CallsRoute, GetCallsAsync

-----------------------------------------------------------------------------
(* The request and the bridge *)

HttpOK ==
    http \in [at   : {"idle", "found", "dialing", "shown", "undefined"},
              ptr  : Call \union {Nobody},
              text : Dialled \union Header \union {<<>>},
              told : {"nothing", "ok", "null"}]

(* The call that a route has looked up is listed as long as PJSIP knows it. *)
PtrOK == http.at = "found" =>
    /\ http.ptr \in Call /\ call[http.ptr].obj # "none"
    /\ Listed(http.ptr) \/ call[http.ptr].slot = NoSlot

(* The bridge connects different calls that are listed. *)
BridgeOK == \A l \in bridge :
    \E x, y \in Call : l = <<x, y>> /\ x # y /\ Listed(x) /\ Listed(y)

ApiInv == IInv /\ HttpOK /\ PtrOK /\ BridgeOK

LEMMA Answers ==
    ASSUME NEW code, NEW object \in {"ok", "nothing"}
    PROVE Received(code, object) \in {"nothing", "ok", "null"}
  BY DEF Received

LEMMA ToldTyped ==
    ASSUME NEW answer \in {"nothing", "ok", "null"}, Told(answer)
    PROVE HttpOK' /\ http'.at = "idle" /\ http'.told = answer
  BY DEF Told, Idle, HttpOK

(* Every route but /dial ends the request it answers. *)
Answered == \E answer \in {"nothing", "ok", "null"} : Told(answer)

LEMMA RouteTells ==
    ASSUME NEW c \in Call, Route(c)
    PROVE \/ Answered
          \/ \E text \in Dialled : http' = [Idle EXCEPT !.at = "dialing", !.ptr = c, !.text = text]
<1>1. ASSUME NEW code, NEW object \in {"ok", "nothing"}, Told(Received(code, object)) PROVE Answered
  BY <1>1, Answers DEF Answered
<1>2. CASE AnswerRoute(c)
  BY <1>1, <1>2, ZenonT(40) DEF AnswerRoute, Fails, AnswerCallAsync
<1>3. ASSUME NEW code, NEW status, Told(HoldCallAsync(code, status)) PROVE Answered
  <2>1. CASE status
    BY <1>1, <1>3, <2>1, Zenon DEF HoldCallAsync
  <2>2. CASE ~status
    BY <1>1, <1>3, <2>2, Zenon DEF HoldCallAsync
  <2> QED BY <2>1, <2>2
<1>4. CASE HoldRoute(c)
  BY <1>3, <1>4, ZenonT(40) DEF HoldRoute, Fails
<1>5. CASE UnHoldRoute(c)
  BY <1>3, <1>5, ZenonT(40) DEF UnHoldRoute, Fails
<1>6. ASSUME NEW code, NEW status, Told(CreateConferenceAsync(code, status)) PROVE Answered
  <2>1. CASE status
    BY <1>1, <1>6, <2>1, Zenon DEF CreateConferenceAsync
  <2>2. CASE ~status
    BY <1>1, <1>6, <2>2, Zenon DEF CreateConferenceAsync
  <2> QED BY <2>1, <2>2
<1>7. CASE ConferenceRoute(c) \/ BreakRoute(c)
  BY <1>6, <1>7, ZenonT(40) DEF ConferenceRoute, BreakRoute, Fails
<1>8. CASE TransferRoute(c) \/ AttendedTransferRoute(c) \/ DtmfRoute(c)
  BY <1>1, <1>8, ZenonT(40) DEF TransferRoute, AttendedTransferRoute, DtmfRoute, TransferCallAsync, SendDtmfAsync
<1>9. CASE HangupRoute(c)
  BY <1>1, <1>9, ZenonT(40) DEF HangupRoute, Fails, HangupCallAsync
<1>10. CASE DialRoute(c) \/ DialRouteReturns(c)
  <2>1. ASSUME NEW code, Told(DialAsync(code)) PROVE Answered
    BY <1>1, <2>1 DEF DialAsync
  <2>2. \E code : Told(DialAsync(code))
    BY <1>10 DEF DialRoute, DialRouteReturns
  <2> QED BY <2>1, <2>2
<1>11. CASE DialRouteCalls(c)
  BY <1>11 DEF DialRouteCalls
<1> QED BY <1>2, <1>4, <1>5, <1>7, <1>8, <1>9, <1>10, <1>11 DEF Route

LEMMA HttpStep ==
    ASSUME HttpOK, [ApiNext]_apiVars
    PROVE HttpOK'
<1>1. CASE UNCHANGED http
  BY <1>1 DEF HttpOK
<1>2. ASSUME NEW s \in Slot, Lookup(s) PROVE HttpOK'
  <2>1. CallById(s) \in Call \cup {Nobody}
    BY DEF CallById
  <2>2. Received(400, "ok") \in {"nothing", "ok", "null"}
    BY Answers
  <2>3. CASE CallById(s) = Nobody
    BY <1>2, <2>2, <2>3 DEF Lookup, Idle, HttpOK
  <2>4. CASE CallById(s) # Nobody
    BY <1>2, <2>1, <2>4 DEF Lookup, Idle, HttpOK
  <2> QED BY <2>3, <2>4
<1>3. ASSUME NEW c \in Call, Route(c) PROVE HttpOK'
  <2>1. ASSUME NEW text \in Dialled, http' = [Idle EXCEPT !.at = "dialing", !.ptr = c, !.text = text]
        PROVE HttpOK'
    BY <2>1 DEF Idle, HttpOK
  <2> QED BY <1>3, <2>1, RouteTells, ToldTyped DEF Answered
<1>4. CASE FollowsDangling \/ CallsRoute
  BY <1>4 DEF FollowsDangling, CallsRoute, Idle, HttpOK
<1>5. CASE HangupAllRoute \/ GetCallsAsync
  BY <1>5, Answers, ToldTyped DEF HangupAllRoute, GetCallsAsync, HangupCallAsync
<1>6. CASE Elsewhere
  BY <1>6 DEF Elsewhere, HttpOK
<1> QED BY <1>1, <1>2, <1>3, <1>4, <1>5, <1>6 DEF ApiNext, apiVars

LEMMA PtrStep ==
    ASSUME ApiInv, [ApiNext]_apiVars
    PROVE PtrOK'
<1>1. Persist /\ HttpOK /\ IInv
  BY ApiStepKeeps DEF ApiInv
<1>2. CASE http'.at = http.at /\ http'.ptr = http.ptr
  <2> SUFFICES ASSUME http.at = "found"
               PROVE  /\ http.ptr \in Call /\ call'[http.ptr].obj # "none"
                      /\ Listed(http.ptr)' \/ call'[http.ptr].slot = NoSlot
    BY <1>2 DEF PtrOK, Listed
  <2>1. PICK c \in Call : c = http.ptr /\ call[c].obj # "none" /\ (Listed(c) \/ call[c].slot = NoSlot)
    BY DEF ApiInv, PtrOK
  <2>2. Stays(c) /\ (Listed(c) => Listed(c)' \/ call'[c].slot = NoSlot)
    BY <1>1 DEF Persist
  <2>4. call'[c].obj # "none" /\ (call[c].slot = NoSlot => call'[c].slot = NoSlot)
    BY <2>1, <2>2 DEF Stays
  <2>3. UNCHANGED http.ptr
    BY <1>2
  <2> QED BY <2>1, <2>2, <2>3, <2>4 DEF Listed
<1>3. ASSUME NEW s \in Slot, Lookup(s) PROVE PtrOK'
  <2>1. CASE CallById(s) = Nobody
    BY <1>3, <2>1 DEF Lookup, Idle, PtrOK
  <2>2. CASE CallById(s) # Nobody
    <3>1. CallById(s) \in Call /\ Listed(CallById(s))
      BY <2>2 DEF CallById
    <3>2. call[CallById(s)].obj # "none"
      BY <1>1, <3>1 DEF IInv, Sound
    <3>3. http'.ptr = CallById(s) /\ UNCHANGED call /\ UNCHANGED calls
      BY <1>3, <2>2 DEF Lookup, Idle, confVars, vars
    <3>4. Listed(CallById(s))'
      <4>1. PICK d \in Call : d = CallById(s) /\ Listed(d)
        BY <3>1
      <4>2. http'.ptr = d /\ Listed(d)' /\ call'[d].obj # "none"
        BY <3>2, <3>3, <4>1 DEF Listed
      <4> QED BY <3>3, <4>1, <4>2 DEF CallById, Listed
    <3> QED BY <3>1, <3>2, <3>3, <3>4 DEF PtrOK, Listed
  <2> QED BY <2>1, <2>2
<1>4. CASE http'.at # "found"
  BY <1>4 DEF PtrOK
<1>5. CASE UNCHANGED http
  BY <1>2, <1>5
<1>6. ASSUME NEW c \in Call, Route(c) PROVE PtrOK'
  <2>1. ASSUME NEW text \in Dialled, http' = [Idle EXCEPT !.at = "dialing", !.ptr = c, !.text = text]
        PROVE http'.at # "found"
    BY <2>1 DEF Idle
  <2> QED BY <1>4, <1>6, <2>1, RouteTells, ToldTyped DEF Answered
<1>7. CASE FollowsDangling \/ CallsRoute \/ HangupAllRoute \/ GetCallsAsync
  BY <1>4, <1>7 DEF FollowsDangling, CallsRoute, HangupAllRoute, GetCallsAsync, Told, Idle
<1>8. CASE Elsewhere
  BY <1>1, <1>2, <1>8 DEF Elsewhere, HttpOK
<1> QED BY <1>3, <1>5, <1>6, <1>7, <1>8 DEF ApiNext, apiVars

(* The others that the loops meet are listed, and none is the call itself. *)
LEMMA OthersListed ==
    ASSUME IInv, NEW c \in Call, ~InfoThrows(c)
    PROVE /\ \A p \in Others(c) : At(p) \in Call \ {c} /\ Listed(At(p))
          /\ \A d \in Call \ {c} : Listed(d) => \E p \in Others(c) : At(p) = d
<1>1. /\ calls \in [Account -> Seq(Call)] /\ \A a \in Account : \A d \in Range(calls[a]) : AccountOf[d] = a
      /\ OwnSlots /\ call[c].slot # NoSlot
  BY DEF IInv, VectorsOK, InfoThrows
<1>2. ASSUME NEW p \in Others(c) PROVE At(p) \in Call \ {c} /\ Listed(At(p))
  <2>1. PICK a \in Account : \E i \in DOMAIN calls[a] : p = <<a, i>>
    BY DEF Others, AllCalls
  <2>5. PICK i \in DOMAIN calls[a] : p = <<a, i>>
    BY <2>1
  <2>2. At(p) = calls[a][i] /\ At(p) \in Range(calls[a])
    BY <2>5 DEF At, Range
  <2>3. At(p) \in Call
    BY <1>1, <2>2, <2>5
  <2>4. Listed(At(p))
    BY <1>1, <2>2 DEF Listed
  <2> QED BY <2>3, <2>4 DEF Others
<1>3. ASSUME NEW d \in Call \ {c}, Listed(d) PROVE \E p \in Others(c) : At(p) = d
  <2>1. AccountOf[d] \in Account
    BY CallsAssumption
  <2>2. PICK i \in DOMAIN calls[AccountOf[d]] : calls[AccountOf[d]][i] = d
    BY <1>3 DEF Listed, Range
  <2> DEFINE p == <<AccountOf[d], i>>
  <2>3. p \in AllCalls /\ At(p) = d
    BY <2>1, <2>2 DEF AllCalls, At
  <2>4. call[d].slot # call[c].slot
    BY <1>1 DEF OwnSlots
  <2> QED BY <2>3, <2>4 DEF Others
<1> QED BY <1>2, <1>3

LEMMA BridgeStep ==
    ASSUME ApiInv, [ApiNext]_apiVars
    PROVE BridgeOK'
<1>1. Persist /\ BridgeOK /\ PtrOK /\ IInv
  BY ApiStepKeeps DEF ApiInv
<1>2. CASE PortsFollow
  <2> SUFFICES ASSUME NEW l \in bridge'
               PROVE  \E x, y \in Call : l = <<x, y>> /\ x # y /\ Listed(x)' /\ Listed(y)'
    BY DEF BridgeOK
  <2>1. l \in bridge /\ \A x \in Pair(l) : ~(x \in Call /\ call'[x].slot = NoSlot)
    BY <1>2 DEF PortsFollow
  <2>2. PICK x, y \in Call : l = <<x, y>> /\ x # y /\ Listed(x) /\ Listed(y)
    BY <1>1, <2>1 DEF BridgeOK
  <2>3. call'[x].slot # NoSlot /\ call'[y].slot # NoSlot
    BY <2>1, <2>2 DEF Pair
  <2>4. Listed(x)' /\ Listed(y)'
    BY <1>1, <2>2, <2>3 DEF Persist
  <2> QED BY <2>2, <2>4
<1>3. CASE UNCHANGED <<calls, bridge>>
  <2>1. \A d \in Call : Listed(d)' <=> Listed(d)
    BY <1>3 DEF Listed
  <2> QED BY <1>1, <1>3, <2>1 DEF BridgeOK
<1>4. CASE UNCHANGED confVars
  BY <1>3, <1>4 DEF confVars, vars
<1>5. ASSUME NEW c \in Call, ConferenceRoute(c) PROVE BridgeOK'
  <2>1. CASE UNCHANGED <<calls, bridge>>
    BY <1>3, <2>1
  <2>2. CASE ~UNCHANGED <<calls, bridge>>
    <3>1. /\ UNCHANGED calls /\ ~InfoThrows(c) /\ Handles(c)
          /\ \E ok \in BOOLEAN : Conference(c, ok)
      BY <1>5, <2>2 DEF ConferenceRoute, Fails, confVars, vars
    <3>2. Listed(c)
      BY <1>1, <3>1 DEF PtrOK, Handles, InfoThrows
    <3>3. \A p \in Others(c) : At(p) \in Call \ {c} /\ Listed(At(p))
      BY <1>1, <3>1, OthersListed
    <3>4. \A d \in Call : Listed(d)' <=> Listed(d)
      BY <3>1 DEF Listed
    <3>5. ASSUME NEW l \in bridge' \ bridge
          PROVE \E p \in Others(c) : l = <<c, At(p)>> \/ l = <<At(p), c>>
      <4>1. ASSUME NEW places \in SUBSET Others(c), l \in Both(c, CallsAt(places))
            PROVE \E p \in Others(c) : l = <<c, At(p)>> \/ l = <<At(p), c>>
        BY <4>1 DEF Both, CallsAt
      <4>2. \A q : Before(c, q) \in SUBSET Others(c)
        BY DEF Before
      <4>3. PICK ok \in BOOLEAN : Conference(c, ok)
        BY <3>1
      <4>4. CASE bridge' = bridge \union Both(c, CallsAt(Others(c)))
        BY <3>5, <4>1, <4>4
      <4>5. ASSUME NEW q \in Others(c), NEW ways \in {{}, {<<c, At(q)>>}},
                   bridge' = bridge \union Both(c, CallsAt(Before(c, q))) \union ways
            PROVE \E p \in Others(c) : l = <<c, At(p)>> \/ l = <<At(p), c>>
        BY <3>5, <4>1, <4>2, <4>5
      <4>6. CASE UNCHANGED bridge
        BY <3>5, <4>6
      <4> QED BY <4>3, <4>4, <4>5, <4>6 DEF Conference
    <3>6. ASSUME NEW l \in bridge' PROVE \E x, y \in Call : l = <<x, y>> /\ x # y /\ Listed(x)' /\ Listed(y)'
      <4>1. CASE l \in bridge
        BY <1>1, <3>4, <4>1 DEF BridgeOK
      <4>2. CASE l \notin bridge
        BY <3>2, <3>3, <3>4, <3>5, <3>6, <4>2
      <4> QED BY <4>1, <4>2
    <3> QED BY <3>6 DEF BridgeOK
  <2> QED BY <2>1, <2>2
<1>6. ASSUME NEW c \in Call, BreakRoute(c) PROVE BridgeOK'
  <2>1. UNCHANGED calls /\ bridge' \subseteq bridge
    BY <1>6 DEF BreakRoute, BreakConference, Fails, confVars, vars
  <2>2. \A d \in Call : Listed(d)' <=> Listed(d)
    BY <2>1 DEF Listed
  <2> QED BY <1>1, <2>1, <2>2 DEF BridgeOK
<1>7. ASSUME NEW c \in Call, Route(c) PROVE BridgeOK'
  <2>1. CASE HoldRoute(c) \/ UnHoldRoute(c) \/ HangupRoute(c) \/ DialRoute(c)
    <3>1. UNCHANGED <<calls, bridge>>
      BY <2>1, ZenonT(40) DEF HoldRoute, UnHoldRoute, HangupRoute, DialRoute, Fails, confVars, vars
    <3> QED BY <1>3, <3>1
  <2>2. CASE AnswerRoute(c) \/ DialRouteCalls(c) \/ DialRouteReturns(c)
    BY <1>2, <1>4, <2>2, Zenon DEF AnswerRoute, DialRouteCalls, DialRouteReturns, Fails
  <2>3. CASE TransferRoute(c) \/ AttendedTransferRoute(c) \/ DtmfRoute(c)
    BY <1>4, <2>3, Zenon DEF TransferRoute, AttendedTransferRoute, DtmfRoute
  <2> QED BY <1>5, <1>6, <1>7, <2>1, <2>2, <2>3 DEF Route
<1>8. CASE HangupAllRoute
  BY <1>2, <1>4, <1>8, Zenon DEF HangupAllRoute
<1>9. CASE Elsewhere
  BY <1>2, <1>9 DEF Elsewhere
<1> QED BY <1>4, <1>7, <1>8, <1>9
        DEF ApiNext, apiVars, Lookup, FollowsDangling, CallsRoute, GetCallsAsync

LEMMA ApiKeepsInv == ApiSpec => []ApiInv
<1>1. ApiInit => ApiInv
  <2> SUFFICES ASSUME ApiInit PROVE ApiInv
    OBVIOUS
  <2>1. IInv
    BY IInvInit DEF ApiInit
  <2>2. HttpOK /\ PtrOK /\ BridgeOK
    BY DEF ApiInit, HttpOK, PtrOK, BridgeOK, Idle
  <2> QED BY <2>1, <2>2 DEF ApiInv
<1>2. ApiInv /\ [ApiNext]_apiVars => ApiInv'
  <2> SUFFICES ASSUME ApiInv, [ApiNext]_apiVars PROVE ApiInv'
    OBVIOUS
  <2>1. IInv' /\ HttpOK'
    BY ApiStepKeeps, HttpStep DEF ApiInv
  <2> QED BY <2>1, PtrStep, BridgeStep DEF ApiInv
<1> QED BY <1>1, <1>2, PTL DEF ApiSpec

-----------------------------------------------------------------------------
(* The theorems *)

LEMMA SpecKeepsIInv == Spec => []IInv
<1>1. [Next]_vars => [Handler]_vars
  BY NextIsHandler
<1> QED BY <1>1, IInvInit, IInvStep, PTL DEF Spec

LEMMA ApiKeepsIInv == ApiSpec => []IInv
<1>1. ApiInit => Init
  BY DEF ApiInit
<1> QED BY <1>1, IInvInit, ApiStepKeeps, PTL DEF ApiSpec

(* Every state of the calls, their vectors, the timers and the tones has    *)
(* its type: no handler (call.cpp, account.cpp, phone.cpp) leaves a call in *)
(* a state that is none.                                                    *)
THEOREM CallsTyping == Spec => []TypeOK
<1>1. IInv => TypeOK
  BY DEF IInv
<1> QED BY <1>1, SpecKeepsIInv, PTL

(* A call that goes on and was not hung up is in the vector of its account, *)
(* where the routes of server.cpp find it, unless MakeCall has not returned *)
(* (phone.cpp MakeCall, account.cpp onIncomingCall): whatever fails.        *)
THEOREM OngoingAreListed == (Spec => []OngoingIsListed) /\ (ApiSpec => []OngoingIsListed)
<1>1. IInv => OngoingIsListed
  BY DEF IInv, Sound, OngoingIsListed
<1> QED BY <1>1, SpecKeepsIInv, ApiKeepsIInv, PTL

(* A handler that finds a deleted call in a vector finds one whose end was  *)
(* handled before MakeCall pushed it: any other is taken out of the vector  *)
(* before it is deleted (call.cpp:25-29), whichever step of its end fails,  *)
(* whatever the tone and publishEvent do.                                   *)
THEOREM ListedExist == (Spec => []ListedObjectExists) /\ (ApiSpec => []ListedObjectExists)
<1>1. IInv => ListedObjectExists
  BY DEF IInv, Sound, ListedObjectExists
<1> QED BY <1>1, SpecKeepsIInv, ApiKeepsIInv, PTL

(* PJSIP knows every call in a vector, so that no loop over the calls of an *)
(* account throws in getInfo, but for the calls whose end was handled       *)
(* before MakeCall pushed them and those whose end was not handled because  *)
(* publishEvent threw (call.cpp:21).                                        *)
THEOREM ListedAreKnown == (Spec => []ListedIsKnownToPJSIP) /\ (ApiSpec => []ListedIsKnownToPJSIP)
<1>1. IInv => ListedIsKnownToPJSIP
  BY DEF IInv, Sound, ListedIsKnownToPJSIP
<1> QED BY <1>1, SpecKeepsIInv, ApiKeepsIInv, PTL

(* A call rings only until it is answered, has media or ends: every way out *)
(* of EARLY passes a StopRinging (call.cpp onCallMediaState, onCallState),  *)
(* but that of a call whose event publishEvent did not take at its end.     *)
THEOREM RingEndsWithEarly == (Spec => []RingsOnlyWhileEarly) /\ (ApiSpec => []RingsOnlyWhileEarly)
<1>1. IInv => RingsOnlyWhileEarly
  BY DEF IInv, Sound, RingsOnlyWhileEarly, Ringers
<1> QED BY <1>1, SpecKeepsIInv, ApiKeepsIInv, PTL

(* What the theorem above says of the tones holds for the calls and the     *)
(* routes as they use them (call.cpp, account.cpp, server.cpp).             *)
THEOREM TonesOfCalls ==
    /\ Spec => [](CountsNotNegative /\ ToneMatchesCount /\ HeardUnlessCut /\ QuietWhenIdle)
    /\ ApiSpec => [](CountsNotNegative /\ ToneMatchesCount /\ HeardUnlessCut /\ QuietWhenIdle)
<1>1. IInv => CountsNotNegative /\ ToneMatchesCount /\ HeardUnlessCut /\ QuietWhenIdle
  BY TonesTell DEF IInv, TonesOK
<1> QED BY <1>1, SpecKeepsIInv, ApiKeepsIInv, PTL

-----------------------------------------------------------------------------
(* Steps of Calls *)

(* account.cpp:79 (onCallEstablished): when MakeCall returns and no HoldCall *)
(* has thrown, every other confirmed call of the account is on local hold  *)
(* or without audio, or its re-INVITE is on the way.                        *)
THEOREM DialHoldsOthers == Spec => AcceptedDialHoldsOthers
<1>1. ASSUME IInv, [Next]_vars,
             NEW c \in Call, call[c].dialing, ~call'[c].dialing, ~HoldOthersThrows(c),
             NEW d \in Range(calls[AccountOf[c]]), call'[d].inv = "CONFIRMED"
      PROVE call'[d].media \in {"LOCAL_HOLD", "NONE"} \/ call'[d].reinvite = "hold"
  <2>1. /\ call \in [Call -> CallState] /\ (\A x \in Call : Sound(x)) /\ AccountOf[c] \in Account
        /\ calls \in [Account -> Seq(Call)]
    BY <1>1, CallsAssumption DEF IInv, TypeOK
  <2>2. DialReturns(c)
    BY <1>1, EveryStep, NextIsHandler DEF Dials
  <2>3. PICK i \in DOMAIN calls[AccountOf[c]] : d = Sibling(c, i)
    BY DEF Range, Sibling
  <2>4. d \in Call /\ d # c
    <3>1. ~Listed(c)
      BY <1>1, <2>1 DEF Sound
    <3> QED BY <2>1, <2>3, <3>1 DEF Sibling, Listed, Range
  <2>5. i \in Siblings(c)
    BY <2>3, <2>4 DEF Siblings
  <2>6. Holds(d) => d \in HeldBefore(c)
    BY <1>1, <2>3, <2>4, <2>5 DEF HeldBefore, HoldOthersThrows
  <2>7. call'[d] = IF d \in HeldBefore(c) THEN [call[d] EXCEPT !.reinvite = "hold"] ELSE call[d]
    BY <2>2, <2>4 DEF DialReturns, WithHeld
  <2>8. call[d] \in CallState /\ Sound(d)
    BY <2>1, <2>4
  <2>9. CASE d \in HeldBefore(c)
    BY <2>7, <2>8, <2>9 DEF CallState
  <2>10. CASE d \notin HeldBefore(c)
    BY <1>1, <2>6, <2>7, <2>8, <2>10 DEF Sound, Holds, CallState
  <2> QED BY <2>9, <2>10
<1>2. IInv /\ [Next]_vars
        => [\A c \in Call : call[c].dialing /\ ~call'[c].dialing /\ ~HoldOthersThrows(c) =>
              \A d \in Range(calls[AccountOf[c]]) :
                call'[d].inv = "CONFIRMED" =>
                  call'[d].media \in {"LOCAL_HOLD", "NONE"} \/ call'[d].reinvite = "hold"]_vars
  BY <1>1
<1> QED BY <1>2, SpecKeepsIInv, PTL DEF Spec, AcceptedDialHoldsOthers

-----------------------------------------------------------------------------
(* Steps of CallApi *)

(* HangupRoute, HoldRoute and the others, when they answer with a success. *)
LEMMA MarkIsDone ==
    ASSUME ApiInv, NEW c \in Call, http'.told = "ok"
    PROVE /\ AnswerRoute(c) => call'[c].inv # "EARLY"
          /\ HoldRoute(c) => call'[c].reinvite = "hold"
          /\ UnHoldRoute(c) => call'[c].reinvite = "unhold"
          /\ HangupRoute(c) => call'[c].ending \/ call'[c].inv = "DISCONNECTED"
<1>1. call \in [Call -> CallState] /\ call[c] \in CallState /\ Sound(c)
  BY DEF ApiInv, IInv, TypeOK
<1>2. \A answer : Told(answer) => answer = "ok"
  BY DEF Told, Idle
<1>3. ASSUME AnswerRoute(c) PROVE call'[c].inv # "EARLY"
  <2>1. ~Told(AnswerCallAsync(500))
    BY <1>2 DEF AnswerCallAsync, Received
  <2>2. CASE AnswerWith200(c)
    <3>1. PICK failed \in DeviceFails :
            call' = [call EXCEPT ![c] = [@ EXCEPT !.media = "ACTIVE", !.inv = "CONNECTING", !.reinvite = "none",
                                                  !.ending = failed]]
      BY <2>2 DEF AnswerWith200, MediaState
    <3> QED BY <1>1, <3>1 DEF CallState
  <2>3. CASE call[c].inv = "CONNECTING" /\ UNCHANGED confVars
    BY <2>3 DEF confVars, vars
  <2> QED BY <1>3, <2>1, <2>2, <2>3 DEF AnswerRoute, Fails
<1>4. ASSUME HoldRoute(c) PROVE call'[c].reinvite = "hold"
  <2>1. ~Told(HoldCallAsync(500, FALSE)) /\ (Told(HoldCallAsync(202, Holds(c))) => Holds(c))
    BY <1>2 DEF HoldCallAsync, Received
  <2>2. call' = [call EXCEPT ![c].reinvite = "hold"]
    BY <1>4, <2>1 DEF HoldRoute, Fails
  <2> QED BY <1>1, <2>2 DEF CallState
<1>5. ASSUME UnHoldRoute(c) PROVE call'[c].reinvite = "unhold"
  <2>1. ~Told(HoldCallAsync(500, FALSE)) /\ (Told(HoldCallAsync(202, UnHolds(c))) => UnHolds(c))
    BY <1>2 DEF HoldCallAsync, Received
  <2>2. call' = [call EXCEPT ![c].reinvite = "unhold"]
    BY <1>5, <2>1 DEF UnHoldRoute, Fails
  <2> QED BY <1>1, <2>2 DEF CallState
<1>6. ASSUME HangupRoute(c) PROVE call'[c].ending \/ call'[c].inv = "DISCONNECTED"
  <2>1. ~Told(HangupCallAsync(500))
    BY <1>2 DEF HangupCallAsync, Received
  <2>2. ~InfoThrows(c)
    BY <1>6, <2>1 DEF HangupRoute, Fails
  <2>3. CASE Ongoing(c)
    <3>1. call' = [call EXCEPT ![c].ending = TRUE]
      BY <1>6, <2>2, <2>3 DEF HangupRoute
    <3> QED BY <1>1, <3>1 DEF CallState
  <2>4. CASE ~Ongoing(c)
    <3>1. call' = call
      BY <1>6, <2>2, <2>4 DEF HangupRoute
    <3> QED BY <1>1, <2>2, <2>4, <3>1 DEF Sound, InfoThrows, Ongoing, CallState
  <2> QED BY <2>3, <2>4
<1> QED BY <1>3, <1>4, <1>5, <1>6

(* The loops of Conference and BreakConference, when they did not throw. *)
LEMMA ConferenceIsDone ==
    ASSUME ApiInv, NEW c \in Call, http'.told = "ok"
    PROVE (ConferenceRoute(c) => Joined(c)) /\ (BreakRoute(c) => Apart(c))
<1>1. IInv /\ BridgeOK /\ call \in [Call -> CallState]
  BY DEF ApiInv, IInv, TypeOK
<1>2. \A answer : Told(answer) => answer = "ok"
  BY DEF Told, Idle
<1>3. ~Told(CreateConferenceAsync(500, FALSE)) /\ ~Told(CreateConferenceAsync(400, FALSE))
  BY <1>2 DEF CreateConferenceAsync, Received
<1>4. \A ok \in BOOLEAN : Told(CreateConferenceAsync(200, ok)) => ok
  BY <1>2 DEF CreateConferenceAsync, Received
<1>5. ASSUME ConferenceRoute(c) PROVE Joined(c)
  <2>1. ~InfoThrows(c)
    BY <1>3, <1>5 DEF ConferenceRoute, Fails
  <2>2. Conference(c, TRUE)
    BY <1>3, <1>4, <1>5, <2>1, ZenonT(40) DEF ConferenceRoute, Fails
  <2>3. bridge' = bridge \union Both(c, CallsAt(Others(c)))
    BY <2>2 DEF Conference
  <2>4. ASSUME NEW d \in Call \ {c}, Listed(d) PROVE d \in CallsAt(Others(c))
    BY <1>1, <2>1, <2>4, OthersListed DEF CallsAt
  <2> QED BY <2>3, <2>4 DEF Joined, Both
<1>6. ASSUME BreakRoute(c) PROVE Apart(c)
  <2>1. ~InfoThrows(c)
    BY <1>3, <1>6 DEF BreakRoute, Fails
  <2>2. BreakConference(c, TRUE)
    BY <1>3, <1>4, <1>6, <2>1, ZenonT(40) DEF BreakRoute, Fails
  <2>3. /\ bridge' = bridge \ Both(c, CallsAt(Others(c)))
        /\ Suspend(CallsAt(Others(c))) /\ \A p \in Others(c) : ~LeaveThrows(At(p))
    BY <2>2 DEF BreakConference
  <2>4. ASSUME NEW d \in Call \ {c}, Listed(d) PROVE d \in CallsAt(Others(c)) /\ ~HoldThrows(d)
    <3>1. PICK p \in Others(c) : At(p) = d
      BY <1>1, <2>1, <2>4, OthersListed
    <3> QED BY <2>3, <3>1 DEF CallsAt, LeaveThrows
  <2>5. ASSUME NEW l \in bridge' PROVE c \notin Pair(l)
    <3>1. PICK x, y \in Call : l = <<x, y>> /\ x # y /\ Listed(x) /\ Listed(y)
      BY <1>1, <2>3 DEF BridgeOK
    <3>2. l \notin Both(c, CallsAt(Others(c)))
      BY <2>3
    <3> QED BY <2>4, <3>1, <3>2 DEF Both, Pair
  <2>6. ASSUME NEW d \in Call \ {c}, Listed(d), Holds(d) PROVE call'[d].reinvite = "hold"
    <3>1. call'[d] = [call[d] EXCEPT !.reinvite = "hold"] /\ call[d] \in CallState
      BY <1>1, <2>3, <2>4, <2>6 DEF Suspend
    <3> QED BY <3>1 DEF CallState
  <2> QED BY <2>5, <2>6 DEF Apart
<1> QED BY <1>5, <1>6

(* TinyphoneService.cs with server.cpp and phone.cpp: a client that is told *)
(* of a success finds done what it has asked for: the call answered, held,  *)
(* resumed or hung up, joined to every other call that is listed, or parted *)
(* from all of them and those held, or dialled and listed; with any calls,  *)
(* accounts and failures.                                                   *)
THEOREM SuccessMeansDone == ApiSpec => SuccessIsDone
<1>1. ASSUME ApiInv, http'.told = "ok", NEW c \in {http.ptr} \ {Nobody}
      PROVE /\ call'[c].inv # "EARLY" \/ ~AnswerRoute(c)
            /\ call'[c].reinvite = "hold" \/ ~HoldRoute(c)
            /\ call'[c].reinvite = "unhold" \/ ~UnHoldRoute(c)
            /\ call'[c].ending \/ call'[c].inv = "DISCONNECTED" \/ ~HangupRoute(c)
            /\ Joined(c) \/ ~ConferenceRoute(c)
            /\ Apart(c) \/ ~BreakRoute(c)
            /\ c \in Range(calls'[AccountOf[c]]) \/ ~DialRouteReturns(c)
  <2>1. c \in Call
    BY <1>1 DEF ApiInv, HttpOK
  <2>2. c \in Range(calls'[AccountOf[c]]) \/ ~DialRouteReturns(c)
    <3>1. ASSUME DialRouteReturns(c) PROVE c \in Range(calls'[AccountOf[c]])
      <4>1. calls' = [calls EXCEPT ![AccountOf[c]] = Append(@, c)] /\ call[c].dialing
        BY <3>1 DEF DialRouteReturns, DialReturns
      <4>2. ~Listed(c) /\ VectorsOK
        BY <1>1, <2>1, <4>1 DEF ApiInv, IInv, Sound
      <4>3. Listed(c)'
        BY <2>1, <4>1, <4>2, VectorsGrow
      <4> QED BY <4>3 DEF Listed
    <3> QED BY <3>1
  <2> QED BY <1>1, <2>1, <2>2, MarkIsDone, ConferenceIsDone
<1>2. ApiInv /\ [ApiNext]_apiVars
        => [http'.told = "ok" => \A c \in {http.ptr} \ {Nobody} :
             /\ call'[c].inv # "EARLY" \/ ~AnswerRoute(c)
             /\ call'[c].reinvite = "hold" \/ ~HoldRoute(c)
             /\ call'[c].reinvite = "unhold" \/ ~UnHoldRoute(c)
             /\ call'[c].ending \/ call'[c].inv = "DISCONNECTED" \/ ~HangupRoute(c)
             /\ Joined(c) \/ ~ConferenceRoute(c)
             /\ Apart(c) \/ ~BreakRoute(c)
             /\ c \in Range(calls'[AccountOf[c]]) \/ ~DialRouteReturns(c)]_apiVars
  BY <1>1
<1> QED BY <1>2, ApiKeepsInv, PTL DEF ApiSpec, SuccessIsDone

(* A client of TinyphoneService.cs that gets null from a call route of      *)
(* server.cpp may ask again: nothing has been done.                         *)
THEOREM NullMeansNothing == ApiSpec => NullChangesNothing
<1>1. ASSUME ApiInv, [ApiNext]_apiVars, http'.told = "null", http.at = "found"
      PROVE UNCHANGED confVars
  <2>1. \A answer : Told(answer) => answer = "null"
    BY <1>1 DEF Told, Idle
  <2>2. \A code \in 200 .. 299, object \in {"ok", "nothing"} : ~Told(Received(code, object))
    BY <2>1 DEF Received
  <2>3. ASSUME NEW c \in Call, AnswerRoute(c) \/ HangupRoute(c) PROVE UNCHANGED confVars
    <3>1. ~Told(AnswerCallAsync(200)) /\ ~Told(HangupCallAsync(202))
      BY <2>2 DEF AnswerCallAsync, HangupCallAsync
    <3> QED BY <2>3, <3>1 DEF AnswerRoute, HangupRoute, Fails
  <2>4. ASSUME NEW c \in Call, HoldRoute(c) \/ UnHoldRoute(c) PROVE UNCHANGED confVars
    <3>1. ASSUME NEW status PROVE ~Told(HoldCallAsync(202, status))
      BY <2>2 DEF HoldCallAsync
    <3> QED BY <2>4, <3>1 DEF HoldRoute, UnHoldRoute, Fails
  <2>5. ASSUME NEW c \in Call, ConferenceRoute(c) \/ BreakRoute(c) PROVE UNCHANGED confVars
    <3>1. ASSUME NEW status PROVE ~Told(CreateConferenceAsync(200, status))
      BY <2>2 DEF CreateConferenceAsync
    <3> QED BY <2>5, <3>1 DEF ConferenceRoute, BreakRoute, Fails
  <2>6. ASSUME NEW c \in Call, Route(c) PROVE UNCHANGED confVars
    BY <1>1, <2>3, <2>4, <2>5, <2>6 DEF Route, TransferRoute, AttendedTransferRoute, DtmfRoute,
       DialRoute, DialRouteCalls, DialRouteReturns, Free
  <2>7. ~Elsewhere
    <3>1. Elsewhere => http'.told = "nothing"
      BY <1>1 DEF Elsewhere, ApiInv, HttpOK
    <3> QED BY <1>1, <3>1
  <2>8. CASE UNCHANGED apiVars
    BY <2>8 DEF apiVars
  <2> QED BY <1>1, <2>6, <2>7, <2>8
          DEF ApiNext, Lookup, FollowsDangling, HangupAllRoute, CallsRoute, GetCallsAsync, Free
<1>2. ApiInv /\ [ApiNext]_apiVars
        => [http'.told = "null" /\ http.at = "found" => UNCHANGED confVars]_apiVars
  BY <1>1
<1> QED BY <1>2, ApiKeepsInv, PTL DEF ApiSpec, NullChangesNothing

-----------------------------------------------------------------------------
(* Addresses *)

(* The elements of a concatenation. *)
Follows(x, y) ==
    /\ Len(x \o y) = Len(x) + Len(y)
    /\ \A i \in 1 .. Len(x) : (x \o y)[i] = x[i]
    /\ \A i \in 1 .. Len(y) : (x \o y)[Len(x) + i] = y[i]

LEMMA Concatenated ==
    ASSUME NEW S, NEW x \in Seq(S), NEW y \in Seq(S)
    PROVE Follows(x, y) /\ x \o y \in Seq(S)
<1> DEFINE z == x \o y
<1>1. /\ z \in Seq(S) /\ Len(z) = Len(x) + Len(y) /\ Len(x) \in Nat /\ Len(y) \in Nat
      /\ \A i \in 1 .. Len(x) + Len(y) : z[i] = IF i <= Len(x) THEN x[i] ELSE y[i - Len(x)]
  BY ConcatProperties, LenProperties
<1> HIDE DEF z
<1>2. ASSUME NEW i \in 1 .. Len(x) PROVE z[i] = x[i]
  BY <1>1
<1>3. ASSUME NEW i \in 1 .. Len(y) PROVE z[Len(x) + i] = y[i]
  <2>1. Len(x) + i \in 1 .. Len(x) + Len(y) /\ ~(Len(x) + i <= Len(x)) /\ Len(x) + i - Len(x) = i
    BY <1>1
  <2> QED BY <1>1, <2>1
<1> QED BY <1>1, <1>2, <1>3 DEF Follows, z

(* An address is put together from the left and taken apart from the left. *)
Associates(x, y, z) == (x \o y) \o z = x \o (y \o z)

LEMMA Assoc ==
    ASSUME NEW S, NEW x \in Seq(S), NEW y \in Seq(S), NEW z \in Seq(S)
    PROVE Associates(x, y, z)
  BY ConcatAssociative DEF Associates

LEMMA Joins ==
    ASSUME NEW S, NEW a \in Seq(S), NEW t \in S, NEW b \in Seq(S)
    PROVE /\ <<t>> \in Seq(S) /\ a \o <<t>> \in Seq(S) /\ a \o <<t>> \o b \in Seq(S)
          /\ Len(a) \in Nat /\ Len(b) \in Nat
          /\ Len(a \o <<t>> \o b) = Len(a) + 1 + Len(b)
          /\ \A i \in 1 .. Len(a) : (a \o <<t>> \o b)[i] = a[i]
          /\ (a \o <<t>> \o b)[Len(a) + 1] = t
          /\ \A i \in 1 .. Len(b) : (a \o <<t>> \o b)[Len(a) + 1 + i] = b[i]
<1> DEFINE u == <<t>>
           v == a \o u
           w == v \o b
<1>1. u \in Seq(S) /\ Len(u) = 1 /\ u[1] = t
  OBVIOUS
<1>2. Len(a) \in Nat /\ Len(b) \in Nat
  BY LenProperties
<1> HIDE DEF u
<1>3. v \in Seq(S) /\ Follows(a, u)
  BY <1>1, Concatenated
<1>4. Len(v) = Len(a) + 1 /\ (\A i \in 1 .. Len(a) : v[i] = a[i]) /\ v[Len(a) + 1] = t
  BY <1>1, <1>3 DEF Follows
<1> HIDE DEF v
<1>5. w \in Seq(S) /\ Follows(v, b)
  BY <1>3, Concatenated
<1>6. /\ Len(w) = Len(v) + Len(b)
      /\ \A i \in 1 .. Len(v) : w[i] = v[i]
      /\ \A i \in 1 .. Len(b) : w[Len(v) + i] = b[i]
  BY <1>5 DEF Follows
<1> HIDE DEF w
<1>7. \A i \in 1 .. Len(b) : w[Len(a) + 1 + i] = b[i]
  BY <1>4, <1>6
<1>8. w[Len(a) + 1] = t /\ \A i \in 1 .. Len(a) : w[i] = a[i]
  <2>1. Len(a) + 1 \in 1 .. Len(v) /\ \A i \in 1 .. Len(a) : i \in 1 .. Len(v)
    BY <1>2, <1>4
  <2> QED BY <1>4, <1>6, <2>1
<1>9. Len(w) = Len(a) + 1 + Len(b)
  BY <1>4, <1>6
<1> QED BY <1>1, <1>2, <1>3, <1>5, <1>7, <1>8, <1>9 DEF u, v, w

(* The smaller of two lengths. *)
LEMMA SmallerOf ==
    ASSUME NEW m \in Nat, NEW n \in Nat, m <= n
    PROVE Min({m, n}) = m
<1>1. Min({m, n}) \in {m, n} /\ \A k \in {m, n} : Min({m, n}) <= k
  BY LeastOf
<1> QED BY <1>1

(* std::string::find and substr, where the token is found: what precedes it *)
(* and what follows.                                                        *)
Without(a, t) == \A i \in DOMAIN a : a[i] # t
Cut(a, t, b) ==
    /\ Find(a \o <<t>> \o b, t, 0) = Len(a)
    /\ SubStr(a \o <<t>> \o b, 0, Len(a)) = a
    /\ From(a \o <<t>> \o b, Len(a) + 1) = b
    /\ From(a \o <<t>> \o b, Len(a)) = <<t>> \o b

LEMMA CutAt ==
    ASSUME NEW S, NEW a \in Seq(S), NEW t \in S, NEW b \in Seq(S), Without(a, t)
    PROVE Cut(a, t, b)
<1> USE DEF Without
<1> DEFINE s == a \o <<t>> \o b
           n == Len(a)
<1>1. /\ s \in Seq(S) /\ n \in Nat /\ Len(b) \in Nat /\ Len(s) = n + 1 + Len(b)
      /\ DOMAIN s = 1 .. Len(s) /\ DOMAIN a = 1 .. n
      /\ \A i \in 1 .. n : s[i] = a[i]
      /\ s[n + 1] = t
      /\ \A i \in 1 .. Len(b) : s[n + 1 + i] = b[i]
      /\ \A i \in 1 .. Len(s) : s[i] \in S
  BY Joins, LenProperties
<1>2. Find(s, t, 0) = n
  <2> DEFINE hits == {i \in DOMAIN s : i > 0 /\ s[i] = t}
  <2>1. n + 1 \in hits
    BY <1>1
  <2>2. \A i \in hits : n + 1 <= i
    <3>1. ASSUME NEW i \in hits, ~(n + 1 <= i) PROVE FALSE
      <4>1. i \in 1 .. n /\ s[i] = t
        BY <1>1, <3>1
      <4> QED BY <1>1, <4>1
    <3> QED BY <3>1
  <2>3. hits \in SUBSET Nat /\ hits # {}
    <3>1. hits \subseteq DOMAIN s /\ hits # {}
      BY <2>1
    <3> HIDE DEF hits, s, n
    <3>2. DOMAIN s \subseteq Nat
      BY <1>1
    <3> QED BY <3>1, <3>2
  <2>4. Find(s, t, 0) = IF hits = {} THEN -1 ELSE Min(hits) - 1
    BY DEF Find
  <2> HIDE DEF hits, s, n
  <2>5. Min(hits) = n + 1
    <3>1. Min(hits) \in hits /\ (\A i \in hits : Min(hits) <= i)
      BY <2>3, LeastOf
    <3>2. Min(hits) \in Nat /\ Min(hits) <= n + 1 /\ n + 1 <= Min(hits)
      BY <2>1, <2>2, <2>3, <3>1
    <3> QED BY <1>1, <3>2
  <2>6. Find(s, t, 0) = Min(hits) - 1
    BY <2>3, <2>4, Zenon
  <2> QED BY <1>1, <2>5, <2>6
<1>3. SubStr(s, 0, n) = a
  <2>1. Min({0 + n, Len(s)}) = n /\ ~(n < 0) /\ 0 + 1 = 1
    <3> HIDE DEF s, n
    <3>1. n <= Len(s) /\ Len(s) \in Nat /\ 0 + n = n
      BY <1>1
    <3> QED BY <1>1, <3>1, SmallerOf
  <2>2. SubStr(s, 0, n) = SubSeq(s, 1, n)
    <3> HIDE DEF s, n
    <3> QED BY <2>1 DEF SubStr
  <2>3. /\ SubSeq(s, 1, n) \in Seq(S) /\ Len(SubSeq(s, 1, n)) = IF 1 <= n THEN n - 1 + 1 ELSE 0
        /\ \A i \in 1 .. n - 1 + 1 : SubSeq(s, 1, n)[i] = s[1 + i - 1]
    <3> HIDE DEF s, n
    <3>1. \A i \in 1 .. n : s[i] \in S
      BY <1>1
    <3> QED BY <1>1, <3>1, SubSeqProperties
  <2>4. Len(SubSeq(s, 1, n)) = n
    <3> HIDE DEF s, n
    <3> QED BY <1>1, <2>3
  <2>5. ASSUME NEW i \in 1 .. n PROVE SubSeq(s, 1, n)[i] = a[i]
    <3> HIDE DEF s, n
    <3>1. i \in 1 .. n - 1 + 1 /\ 1 + i - 1 = i
      BY <1>1
    <3>2. SubSeq(s, 1, n)[i] = s[i]
      BY <2>3, <3>1
    <3> QED BY <1>1, <3>2
  <2> QED BY <2>2, <2>3, <2>4, <2>5, SeqEqual
<1>4. ASSUME NEW m \in {n, n + 1}, NEW r \in Seq(S), Len(r) = Len(s) - m,
             \A i \in 1 .. Len(r) : r[i] = s[m + i]
      PROVE From(s, m) = r
  <2> HIDE DEF s, n
  <2>1. From(s, m) = SubSeq(s, m + 1, Len(s))
    BY DEF From, SubStr
  <2>2. m \in Nat /\ m <= Len(s) /\ Len(s) \in Nat
    BY <1>1
  <2>3. /\ SubSeq(s, m + 1, Len(s)) \in Seq(S)
        /\ Len(SubSeq(s, m + 1, Len(s))) = IF m + 1 <= Len(s) THEN Len(s) - (m + 1) + 1 ELSE 0
        /\ \A i \in 1 .. Len(s) - (m + 1) + 1 : SubSeq(s, m + 1, Len(s))[i] = s[m + 1 + i - 1]
    <3>1. \A i \in m + 1 .. Len(s) : s[i] \in S
      BY <1>1, <2>2
    <3>2. m + 1 \in Int /\ Len(s) \in Int
      BY <2>2
    <3> QED BY <3>1, <3>2, SubSeqProperties
  <2>4. Len(SubSeq(s, m + 1, Len(s))) = Len(r)
    BY <1>4, <2>2, <2>3
  <2>5. ASSUME NEW i \in 1 .. Len(r) PROVE SubSeq(s, m + 1, Len(s))[i] = r[i]
    <3>1. i \in 1 .. Len(s) - (m + 1) + 1 /\ m + 1 + i - 1 = m + i
      BY <1>4, <2>2
    <3>2. SubSeq(s, m + 1, Len(s))[i] = s[m + i]
      BY <2>3, <3>1
    <3> QED BY <1>4, <3>2
  <2> QED BY <2>1, <2>3, <2>4, <2>5, SeqEqual
<1>5. From(s, n + 1) = b
  <2>1. Len(b) = Len(s) - (n + 1)
    BY <1>1
  <2> QED BY <1>1, <1>4, <2>1
<1>6. From(s, n) = <<t>> \o b
  <2> DEFINE u == <<t>>
             r == u \o b
  <2>1. u \in Seq(S) /\ Len(u) = 1 /\ u[1] = t
    OBVIOUS
  <2> HIDE DEF u
  <2>2. r \in Seq(S) /\ Follows(u, b)
    BY <2>1, Concatenated
  <2>3. Len(r) = 1 + Len(b) /\ r[1] = t /\ \A j \in 1 .. Len(b) : r[1 + j] = b[j]
    BY <2>1, <2>2 DEF Follows
  <2> HIDE DEF r, s, n
  <2>4. Len(r) = Len(s) - n
    BY <1>1, <2>3
  <2>5. ASSUME NEW i \in 1 .. Len(r) PROVE r[i] = s[n + i]
    <3> DEFINE j == i - 1
    <3>1. CASE i = 1
      BY <1>1, <2>3, <3>1
    <3>2. CASE i # 1
      <4>1. j \in 1 .. Len(b) /\ i = 1 + j /\ n + i = n + 1 + j
        BY <1>1, <2>3, <3>2
      <4> HIDE DEF j
      <4>2. r[1 + j] = b[j] /\ s[n + 1 + j] = b[j]
        BY <1>1, <2>3, <4>1
      <4> QED BY <4>1, <4>2
    <3> QED BY <3>1, <3>2
  <2> QED BY <1>4, <2>2, <2>4, <2>5 DEF r, u
<1> QED BY <1>2, <1>3, <1>5, <1>6 DEF Cut

(* find, where the token is not there. *)
LEMMA NotFound ==
    ASSUME NEW s, NEW t, \A i \in DOMAIN s : s[i] # t
    PROVE Find(s, t, 0) = -1
  BY DEF Find

LEMMA NotAmong ==
    ASSUME NEW T, NEW s \in Seq(T), NEW t, t \notin T
    PROVE Find(s, t, 0) = -1
<1>1. \A i \in DOMAIN s : s[i] \in T
  BY LenProperties
<1>2. \A i \in DOMAIN s : s[i] # t
  BY <1>1
<1> QED BY <1>2, NotFound

LEMMA AtTheEnd ==
    ASSUME NEW T, NEW s \in Seq(T), s # <<>>
    PROVE Last(s) \in T
<1>1. Len(s) \in 1 .. Len(s)
  BY EmptySeq
<1> QED BY <1>1, ElementOfSeq DEF Last

LEMMA LowerIsSame ==
    ASSUME NEW T, NEW s \in Seq(T), "SIP:" \notin T
    PROVE Lower(s) = s
<1>1. s \in [1 .. Len(s) -> T] /\ DOMAIN s = 1 .. Len(s)
  BY LenProperties
<1> HIDE DEF Lower
<1>2. \A i \in DOMAIN s : s[i] # "SIP:"
  BY <1>1
<1>3. s = [i \in DOMAIN s |-> s[i]]
  BY <1>1
<1>4. [i \in DOMAIN s |-> IF s[i] = "SIP:" THEN "sip:" ELSE s[i]] = [i \in DOMAIN s |-> s[i]]
  BY <1>2
<1> QED BY <1>3, <1>4 DEF Lower

(* The marks that divide an address, by name, and what they divide.  A part *)
(* of an address has none of them in it.                                    *)
Sip == "sip:"
AtSign == "@"
Semicolon == ";"
Query == "?"
Bracket == ">"
Tokens(Char) == Char \cup {Sip, AtSign, Semicolon, Query, Bracket, "q", " ", "<", "tcp", "tls"}
Plain(Char) == Char \cap {"sip:", "SIP:", "@", ";", "?", ">"} = {}
Parameters(Char) ==
    {<<>>} \cup {<<";">> \o p : p \in Seq(Char \cup {";", "tcp", "tls"})} \cup {<<"?">> \o p : p \in Seq(Char)}

LEMMA MarksDiffer ==
    /\ Sip # AtSign /\ Sip # Semicolon /\ Sip # Query /\ Sip # Bracket
    /\ AtSign # Semicolon /\ AtSign # Query /\ AtSign # Bracket
    /\ Semicolon # Query /\ Semicolon # Bracket /\ Query # Bracket
  BY Zenon DEF Sip, AtSign, Semicolon, Query, Bracket

LEMMA PlainHasNone ==
    ASSUME NEW Char, Plain(Char)
    PROVE /\ Sip \notin Char /\ AtSign \notin Char /\ Semicolon \notin Char /\ Query \notin Char
          /\ Bracket \notin Char /\ "SIP:" \notin Char
  BY Zenon DEF Plain, Sip, AtSign, Semicolon, Query, Bracket

LEMMA ParametersAre ==
    ASSUME NEW Char, NEW parameters \in Parameters(Char)
    PROVE \/ parameters = <<>>
          \/ \E p \in Seq(Char \cup {Semicolon, "tcp", "tls"}) : parameters = <<Semicolon>> \o p
          \/ \E p \in Seq(Char) : parameters = <<Query>> \o p
  BY Zenon DEF Parameters, Semicolon, Query

LEMMA DomainEnds ==
    ASSUME NEW rest
    PROVE DomainEnd(rest) = IF Find(rest, Semicolon, 0) >= 0 THEN Find(rest, Semicolon, 0)
                            ELSE Find(rest, Query, 0)
  BY Zenon DEF DomainEnd, Semicolon, Query

(* The domain and the parameters that follow it. *)
LEMMA DomainParsed ==
    ASSUME NEW Char, Plain(Char), NEW domain \in Seq(Char), NEW parameters \in Parameters(Char)
    PROVE /\ SubStr(domain \o parameters, 0, DomainEnd(domain \o parameters)) = domain
          /\ (IF DomainEnd(domain \o parameters) < 0 THEN <<>>
              ELSE From(domain \o parameters, DomainEnd(domain \o parameters))) = parameters
<1> DEFINE S == Tokens(Char)
           rest == domain \o parameters
<1>1. Semicolon \in S /\ Query \in S /\ Char \subseteq S /\ Char \cup {Semicolon, "tcp", "tls"} \subseteq S
  BY DEF Tokens
<1>2. Semicolon \notin Char /\ Query \notin Char
  BY PlainHasNone
<1> HIDE DEF S
<1>3. domain \in Seq(S) /\ Len(domain) \in Nat
  BY <1>1, SeqMonotonic, LenProperties
<1>4. \A i \in DOMAIN domain : domain[i] \in Char
  BY LenProperties
<1>5. CASE parameters = <<>>
  <2>1. rest = domain
    BY <1>5, ConcatEmptySeq
  <2>2. DomainEnd(rest) = -1
    <3>1. Find(domain, Semicolon, 0) = -1 /\ Find(domain, Query, 0) = -1
      BY <1>2, NotAmong
    <3> QED BY <2>1, <3>1, DomainEnds
  <2>3. SubStr(domain, 0, -1) = SubSeq(domain, 1, Len(domain))
    BY DEF SubStr
  <2>4. SubSeq(domain, 1, Len(domain)) = domain
    BY SubSeqFull
  <2> QED BY <1>5, <2>1, <2>2, <2>3, <2>4
<1>6. ASSUME NEW t \in {Semicolon, Query}, NEW p \in Seq(S), parameters = <<t>> \o p, DomainEnd(rest) = Len(domain)
      PROVE SubStr(rest, 0, Len(domain)) = domain /\ From(rest, Len(domain)) = parameters
  <2>1. t \in S /\ <<t>> \in Seq(S) /\ \A i \in DOMAIN domain : domain[i] # t
    <3>1. t \in S /\ t \notin Char
      BY <1>1, <1>2
    <3> QED BY <1>4, <3>1, Joins, <1>3
  <2>2. rest = domain \o <<t>> \o p
    <3>1. Associates(domain, <<t>>, p)
      BY <1>3, <2>1, Assoc
    <3> QED BY <1>6, <3>1, Zenon DEF Associates
  <2>3. /\ SubStr(domain \o <<t>> \o p, 0, Len(domain)) = domain
        /\ From(domain \o <<t>> \o p, Len(domain)) = <<t>> \o p
    <3>1. domain \in Seq(S) /\ t \in S /\ Without(domain, t)
      BY <1>3, <2>1 DEF Without
    <3>2. Cut(domain, t, p)
      BY <3>1, CutAt
    <3> QED BY <3>2 DEF Cut
  <2> QED BY <1>6, <2>2, <2>3
<1>7. ASSUME NEW t \in {Semicolon, Query}, NEW p \in Seq(S), parameters = <<t>> \o p
      PROVE Find(rest, t, 0) = Len(domain)
  <2>1. t \in S /\ <<t>> \in Seq(S) /\ \A i \in DOMAIN domain : domain[i] # t
    <3>1. t \in S /\ t \notin Char
      BY <1>1, <1>2
    <3> QED BY <1>4, <3>1, Joins, <1>3
  <2>2. rest = domain \o <<t>> \o p
    <3>1. Associates(domain, <<t>>, p)
      BY <1>3, <2>1, Assoc
    <3> QED BY <1>7, <3>1, Zenon DEF Associates
  <2>3. Without(domain, t)
    BY <2>1 DEF Without
  <2>4. Cut(domain, t, p)
    BY <1>3, <2>1, <2>3, CutAt
  <2> QED BY <2>2, <2>4 DEF Cut
<1>8. ASSUME NEW p \in Seq(Char \cup {Semicolon, "tcp", "tls"}), parameters = <<Semicolon>> \o p
      PROVE DomainEnd(rest) = Len(domain) /\ p \in Seq(S)
  <2>1. p \in Seq(S)
    BY <1>1, SeqMonotonic
  <2>2. Find(rest, Semicolon, 0) = Len(domain)
    BY <1>7, <1>8, <2>1
  <2> HIDE DEF rest
  <2> QED BY <1>3, <2>1, <2>2, DomainEnds
<1>9. ASSUME NEW p \in Seq(Char), parameters = <<Query>> \o p
      PROVE DomainEnd(rest) = Len(domain) /\ p \in Seq(S)
  <2>1. p \in Seq(S)
    BY <1>1, SeqMonotonic
  <2>2. Find(rest, Query, 0) = Len(domain)
    BY <1>7, <1>9, <2>1
  <2>3. rest \in Seq(Char \cup {Query})
    <3>1. domain \in Seq(Char \cup {Query}) /\ p \in Seq(Char \cup {Query}) /\ Query \in Char \cup {Query}
      BY SeqMonotonic
    <3>2. <<Query>> \in Seq(Char \cup {Query})
      BY <3>1, Joins
    <3>3. parameters \in Seq(Char \cup {Query})
      BY <1>9, <3>1, <3>2, ConcatProperties
    <3> QED BY <3>1, <3>3, ConcatProperties
  <2>4. Find(rest, Semicolon, 0) = -1
    <3>1. Semicolon \notin Char \cup {Query}
      BY <1>2, MarksDiffer
    <3> QED BY <2>3, <3>1, NotAmong
  <2> HIDE DEF rest
  <2>5. ~(Find(rest, Semicolon, 0) >= 0)
    BY <2>4
  <2>6. DomainEnd(rest) = Find(rest, Query, 0)
    BY <2>5, DomainEnds
  <2> QED BY <2>1, <2>2, <2>6
<1>10. ASSUME NEW t \in {Semicolon, Query}, NEW p \in Seq(S), parameters = <<t>> \o p, DomainEnd(rest) = Len(domain)
       PROVE /\ SubStr(rest, 0, DomainEnd(rest)) = domain
             /\ (IF DomainEnd(rest) < 0 THEN <<>> ELSE From(rest, DomainEnd(rest))) = parameters
  <2>1. SubStr(rest, 0, Len(domain)) = domain /\ From(rest, Len(domain)) = parameters
    BY <1>6, <1>10
  <2>2. ~(Len(domain) < 0)
    <3>1. PICK n \in Nat : n = Len(domain)
      BY <1>3
    <3> QED BY <3>1
  <2> HIDE DEF rest
  <2> QED BY <1>10, <2>1, <2>2
<1>11. CASE \E p \in Seq(Char \cup {Semicolon, "tcp", "tls"}) : parameters = <<Semicolon>> \o p
  <2>1. PICK p \in Seq(Char \cup {Semicolon, "tcp", "tls"}) : parameters = <<Semicolon>> \o p
    BY <1>11
  <2>2. DomainEnd(rest) = Len(domain) /\ p \in Seq(S) /\ Semicolon \in {Semicolon, Query}
    BY <1>8, <2>1
  <2> HIDE DEF rest
  <2>3. /\ SubStr(rest, 0, DomainEnd(rest)) = domain
        /\ (IF DomainEnd(rest) < 0 THEN <<>> ELSE From(rest, DomainEnd(rest))) = parameters
    BY <1>10, <2>1, <2>2
  <2> QED BY <2>3 DEF rest
<1>12. CASE \E p \in Seq(Char) : parameters = <<Query>> \o p
  <2>1. PICK p \in Seq(Char) : parameters = <<Query>> \o p
    BY <1>12
  <2>2. DomainEnd(rest) = Len(domain) /\ p \in Seq(S) /\ Query \in {Semicolon, Query}
    BY <1>9, <2>1
  <2> HIDE DEF rest
  <2>3. /\ SubStr(rest, 0, DomainEnd(rest)) = domain
        /\ (IF DomainEnd(rest) < 0 THEN <<>> ELSE From(rest, DomainEnd(rest))) = parameters
    BY <1>10, <2>1, <2>2
  <2> QED BY <2>3 DEF rest
<1> QED BY <1>5, <1>11, <1>12, ParametersAre

(* ParseSIPURI, after the bracket at the end is gone. *)
Body(user, domain, parameters) == user \o <<AtSign>> \o (domain \o parameters)
Unbracketed(in) == IF Last(in) = Bracket THEN Front(in) ELSE in
TakenApart(in, before, user, domain, parameters) ==
    ParseSIPURI(in) =
      [name       |-> NameBefore(before \o <<Sip>> \o Body(user, domain, parameters), Len(before)),
       user       |-> user,
       domain     |-> domain,
       parameters |-> parameters]

LEMMA Parsed ==
    ASSUME NEW Char, Plain(Char), NEW before \in Seq(Tokens(Char) \ {Sip}), NEW user \in Seq(Char),
           NEW domain \in Seq(Char), NEW parameters \in Parameters(Char), NEW in,
           Unbracketed(in) = before \o <<Sip>> \o Body(user, domain, parameters)
    PROVE TakenApart(in, before, user, domain, parameters)
<1> DEFINE S == Tokens(Char)
           rest == domain \o parameters
           body == user \o <<AtSign>> \o rest
           text == before \o <<Sip>> \o body
<1>1. Sip \in S /\ AtSign \in S /\ Char \subseteq S /\ S \ {Sip} \subseteq S /\ AtSign \notin Char
  BY PlainHasNone DEF Tokens
<1>2. parameters \in Seq(S)
  <2>4. Semicolon \in S /\ Query \in S /\ Char \cup {Semicolon, "tcp", "tls"} \subseteq S
    BY DEF Tokens
  <2> HIDE DEF S
  <2>5. \A t \in S : <<t>> \in Seq(S)
    OBVIOUS
  <2>1. /\ <<Semicolon>> \in Seq(S) /\ <<Query>> \in Seq(S) /\ <<>> \in Seq(S)
        /\ Char \cup {Semicolon, "tcp", "tls"} \subseteq S
    BY <2>4, <2>5
  <2>2. CASE \E p \in Seq(Char \cup {Semicolon, "tcp", "tls"}) : parameters = <<Semicolon>> \o p
    BY <2>1, <2>2, SeqMonotonic, ConcatProperties
  <2>3. CASE \E p \in Seq(Char) : parameters = <<Query>> \o p
    BY <1>1, <2>1, <2>3, SeqMonotonic, ConcatProperties
  <2> QED BY <2>1, <2>2, <2>3, ParametersAre
<1> HIDE DEF S
<1>3. before \in Seq(S) /\ user \in Seq(S) /\ domain \in Seq(S)
  <2>1. before \in Seq(S \ {Sip})
    BY DEF S
  <2> QED BY <1>1, <2>1, SeqMonotonic
<1>4. rest \in Seq(S)
  BY <1>2, <1>3, ConcatProperties
<1>5. body \in Seq(S)
  <2> HIDE DEF rest
  <2> QED BY <1>1, <1>3, <1>4, Joins
<1>6. /\ \A i \in DOMAIN before : before[i] # Sip
      /\ \A i \in DOMAIN user : user[i] # AtSign
  <2>1. \A i \in DOMAIN before : before[i] \in Tokens(Char) \ {Sip}
    BY LenProperties
  <2>2. \A i \in DOMAIN user : user[i] \in Char
    BY LenProperties
  <2> QED BY <1>1, <2>1, <2>2
<1>7. Find(text, Sip, 0) = Len(before) /\ From(text, Len(before) + 1) = body
  <2> HIDE DEF body
  <2>1. /\ Find(before \o <<Sip>> \o body, Sip, 0) = Len(before)
        /\ From(before \o <<Sip>> \o body, Len(before) + 1) = body
    <3>1. before \in Seq(S) /\ body \in Seq(S) /\ Sip \in S /\ Without(before, Sip)
      BY <1>1, <1>3, <1>5, <1>6 DEF Without
    <3>2. Cut(before, Sip, body)
      BY <3>1, CutAt
    <3> QED BY <3>2 DEF Cut
  <2> QED BY <2>1
<1>8. /\ Find(body, AtSign, 0) = Len(user) /\ SubStr(body, 0, Len(user)) = user
      /\ From(body, Len(user) + 1) = rest /\ ~(Len(user) < 0)
  <2>1. ~(Len(user) < 0)
    BY LenProperties
  <2> HIDE DEF rest
  <2>2. LET b == user \o <<AtSign>> \o rest
        IN  /\ Find(b, AtSign, 0) = Len(user) /\ SubStr(b, 0, Len(user)) = user
            /\ From(b, Len(user) + 1) = rest
    <3>1. user \in Seq(S) /\ rest \in Seq(S) /\ AtSign \in S /\ Without(user, AtSign)
      BY <1>1, <1>3, <1>4, <1>6 DEF Without
    <3>2. Cut(user, AtSign, rest)
      BY <3>1, CutAt
    <3> QED BY <3>2 DEF Cut
  <2> QED BY <2>1, <2>2
<1>9. /\ SubStr(rest, 0, DomainEnd(rest)) = domain
      /\ (IF DomainEnd(rest) < 0 THEN <<>> ELSE From(rest, DomainEnd(rest))) = parameters
  BY DomainParsed
<1>10. (IF Last(in) = Bracket THEN Front(in) ELSE in) = text
  BY Zenon DEF Unbracketed, Body
<1> HIDE DEF text, body, rest
<1>11. ParseSIPURI(in) = [name |-> NameBefore(text, Len(before)), user |-> user,
                          domain |-> domain, parameters |-> parameters]
  BY <1>7, <1>8, <1>9, <1>10, Zenon DEF ParseSIPURI, Sip, AtSign, Bracket
<1> QED BY <1>11, Zenon DEF TakenApart, Body, text, body, rest

LEMMA PartsTyped ==
    ASSUME NEW Char, Plain(Char)
    PROVE \E S : /\ S = Tokens(Char) \ {Bracket} /\ S \subseteq Tokens(Char) /\ Bracket \notin S
                 /\ Char \subseteq S /\ Sip \in S /\ AtSign \in S
                 /\ Parameters(Char) \subseteq Seq(S)
<1> DEFINE S == Tokens(Char) \ {Bracket}
<1>1. /\ Sip \in Tokens(Char) /\ AtSign \in Tokens(Char) /\ Semicolon \in Tokens(Char) /\ Query \in Tokens(Char)
      /\ "tcp" \in Tokens(Char) /\ "tls" \in Tokens(Char) /\ Char \subseteq Tokens(Char)
  BY DEF Tokens
<1>2. "tcp" # Bracket /\ "tls" # Bracket
  BY Zenon DEF Bracket
<1>3. /\ Sip \in S /\ AtSign \in S /\ Semicolon \in S /\ Query \in S
      /\ Char \subseteq S /\ Char \cup {Semicolon, "tcp", "tls"} \subseteq S
  BY <1>1, <1>2, MarksDiffer, PlainHasNone
<1>4. S \subseteq Tokens(Char) /\ Bracket \notin S
  OBVIOUS
<1> HIDE DEF S
<1>5. \A t \in S : <<t>> \in Seq(S)
  OBVIOUS
<1>6. ASSUME NEW parameters \in Parameters(Char) PROVE parameters \in Seq(S)
  <2>1. <<Semicolon>> \in Seq(S) /\ <<Query>> \in Seq(S) /\ <<>> \in Seq(S)
    BY <1>3, <1>5
  <2>2. CASE \E p \in Seq(Char \cup {Semicolon, "tcp", "tls"}) : parameters = <<Semicolon>> \o p
    BY <1>3, <2>1, <2>2, SeqMonotonic, ConcatProperties
  <2>3. CASE \E p \in Seq(Char) : parameters = <<Query>> \o p
    BY <1>3, <2>1, <2>3, SeqMonotonic, ConcatProperties
  <2> QED BY <2>1, <2>2, <2>3, ParametersAre
<1> QED BY <1>3, <1>4, <1>6 DEF S

Regroups(a, b, c, d, e) ==
    /\ a \o b \o (c \o d) \o e = a \o (b \o c \o (d \o e))

LEMMA Regroup ==
    ASSUME NEW S, NEW a \in Seq(S), NEW b \in Seq(S), NEW c \in Seq(S), NEW d \in Seq(S), NEW e \in Seq(S)
    PROVE /\ Regroups(a, b, c, d, e)
          /\ a \o b \o (c \o d) \in Seq(S) /\ b \o c \o (d \o e) \in Seq(S)
<1> DEFINE ab == a \o b
           cd == c \o d
           de == d \o e
           bc == b \o c
<1>1. ab \in Seq(S) /\ cd \in Seq(S) /\ de \in Seq(S) /\ bc \in Seq(S)
  OBVIOUS
<1>2. Associates(c, d, e)
  BY Assoc
<1>3. c \o de \in Seq(S)
  <2> HIDE DEF de
  <2> QED BY <1>1
<1>4. Associates(ab, cd, e)
  <2> HIDE DEF ab, cd
  <2> QED BY <1>1, Assoc
<1>5. Associates(a, b, c \o de)
  BY <1>3, Assoc
<1>6. Associates(b, c, de)
  <2> HIDE DEF de
  <2> QED BY <1>1, Assoc
<1>7. ab \o cd \in Seq(S) /\ bc \o de \in Seq(S)
  <2> HIDE DEF ab, cd, bc, de
  <2> QED BY <1>1
<1>8. (ab \o cd) \o e = a \o (bc \o de)
  <2>1. ab \o (cd \o e) = (ab \o cd) \o e
    BY <1>4, Zenon DEF Associates
  <2>2. cd \o e = c \o de
    BY <1>2, Zenon DEF Associates
  <2>3. ab \o (c \o de) = a \o (b \o (c \o de))
    BY <1>5, Zenon DEF Associates
  <2>4. b \o (c \o de) = bc \o de
    BY <1>6, Zenon DEF Associates
  <2> HIDE DEF ab, cd, bc, de
  <2> QED BY <2>1, <2>2, <2>3, <2>4, Zenon
<1> QED BY <1>7, <1>8, Zenon DEF Regroups, ab, cd, bc, de

AddressMade(user, domain, parameters) ==
    /\ Address(<<Sip>>, user, domain, parameters) = <<Sip>> \o Body(user, domain, parameters)
    /\ Address(<<Sip>>, user, domain, <<>>) \o parameters = Address(<<Sip>>, user, domain, parameters)
    /\ Address(<<Sip>>, user, domain, <<>>) = <<Sip>> \o user \o (<<AtSign>> \o domain)

LEMMA AddressIs ==
    ASSUME NEW S, Sip \in S, AtSign \in S, NEW user \in Seq(S), NEW domain \in Seq(S), domain # <<>>,
           NEW parameters \in Seq(S)
    PROVE AddressMade(user, domain, parameters) /\ Body(user, domain, parameters) \in Seq(S)
<1> DEFINE sip == <<Sip>>
           at == <<AtSign>>
<1>1. sip \in Seq(S) /\ at \in Seq(S)
  OBVIOUS
<1>2. \A p : Address(sip, user, domain, p) = sip \o user \o (at \o domain) \o p
  BY Zenon DEF Address, AtSign
<1>3. Body(user, domain, parameters) = user \o at \o (domain \o parameters)
  BY DEF Body
<1> HIDE DEF sip, at
<1>4. /\ Regroups(sip, user, at, domain, parameters)
      /\ sip \o user \o (at \o domain) \in Seq(S) /\ user \o at \o (domain \o parameters) \in Seq(S)
  BY <1>1, Regroup
<1>5. sip \o user \o (at \o domain) \o <<>> = sip \o user \o (at \o domain)
  BY <1>4, ConcatEmptySeq
<1> QED BY <1>2, <1>3, <1>4, <1>5, Zenon DEF AddressMade, Regroups, sip, at

(* An address that stands alone is taken apart into what it was made of. *)
LEMMA AddressParsed ==
    ASSUME NEW Char, Plain(Char), NEW user \in Seq(Char), NEW domain \in Seq(Char), domain # <<>>,
           NEW parameters \in Parameters(Char)
    PROVE ParseSIPURI(Address(<<Sip>>, user, domain, parameters)) =
            [name |-> <<>>, user |-> user, domain |-> domain, parameters |-> parameters]
<1> DEFINE body == Body(user, domain, parameters)
           in == <<Sip>> \o body
<1>1. PICK S : /\ S \subseteq Tokens(Char) /\ Bracket \notin S
               /\ Char \subseteq S /\ Sip \in S /\ AtSign \in S
               /\ Parameters(Char) \subseteq Seq(S)
  BY PartsTyped, Zenon
<1>2. user \in Seq(S) /\ domain \in Seq(S) /\ parameters \in Seq(S)
  BY <1>1, SeqMonotonic
<1>3. Address(<<Sip>>, user, domain, parameters) = in /\ body \in Seq(S)
  <2> HIDE DEF in, body
  <2>1. Sip \in S /\ AtSign \in S
    BY <1>1
  <2>2. AddressMade(user, domain, parameters) /\ Body(user, domain, parameters) \in Seq(S)
    BY <1>2, <2>1, AddressIs
  <2> QED BY <2>2, Zenon DEF AddressMade, in, body
<1> HIDE DEF body
<1>4. in \in Seq(S) /\ in # <<>> /\ <<>> \o <<Sip>> \o body = in
  <2>1. <<Sip>> \in Seq(S) /\ <<Sip>> # <<>> /\ <<>> \o <<Sip>> = <<Sip>>
    BY <1>1
  <2>2. in \in Seq(S) /\ Len(in) = Len(<<Sip>>) + Len(body)
    BY <1>3, <2>1, ConcatProperties
  <2>3. in # <<>>
    BY <1>3, <2>1, ConcatEqualIffEmpty
  <2> QED BY <2>1, <2>2, <2>3
<1> HIDE DEF in
<1>5. Unbracketed(in) = in
  BY <1>1, <1>4, AtTheEnd DEF Unbracketed
<1>6. <<>> \in Seq(Tokens(Char) \ {Sip}) /\ Len(<<>>) = 0
  OBVIOUS
<1>7. TakenApart(in, <<>>, user, domain, parameters)
  <2>1. Unbracketed(in) = <<>> \o <<Sip>> \o Body(user, domain, parameters)
    BY <1>4, <1>5, Zenon DEF body
  <2> QED BY <1>6, <2>1, Parsed
<1>8. \A text : NameBefore(text, Len(<<>>)) = <<>>
  BY <1>6 DEF NameBefore
<1> QED BY <1>3, <1>7, <1>8, Zenon DEF TakenApart

(* An address begins with its scheme, a display name has no scheme in it. *)
LEMMA AddressStarts ==
    ASSUME NEW Char, Plain(Char), NEW user \in Seq(Char), NEW domain \in Seq(Char), domain # <<>>,
           NEW parameters \in Parameters(Char), NEW name \in Seq(Char)
    PROVE Address(<<Sip>>, user, domain, parameters) # name
<1> DEFINE body == Body(user, domain, parameters)
           sip == <<Sip>>
           in == sip \o body
<1>1. PICK S : /\ Char \subseteq S /\ Sip \in S /\ AtSign \in S
               /\ Parameters(Char) \subseteq Seq(S)
  BY PartsTyped, Zenon
<1>2. user \in Seq(S) /\ domain \in Seq(S) /\ parameters \in Seq(S) /\ sip \in Seq(S)
  BY <1>1, SeqMonotonic
<1>3. Address(<<Sip>>, user, domain, parameters) = in /\ body \in Seq(S)
  <2> HIDE DEF in, body
  <2>1. AddressMade(user, domain, parameters) /\ Body(user, domain, parameters) \in Seq(S)
    BY <1>1, <1>2, AddressIs
  <2> QED BY <2>1, Zenon DEF AddressMade, in, body, sip
<1>4. Len(sip) = 1 /\ sip[1] = Sip
  OBVIOUS
<1> HIDE DEF body, sip
<1>5. in \in Seq(S) /\ Follows(sip, body)
  BY <1>2, <1>3, Concatenated
<1>6. in[1] = Sip /\ Len(in) = 1 + Len(body) /\ Len(body) \in Nat
  BY <1>3, <1>4, <1>5, LenProperties DEF Follows
<1> HIDE DEF in
<1>7. in # name
  <2> SUFFICES ASSUME in = name PROVE FALSE
    OBVIOUS
  <2>1. Len(name) \in Nat /\ 1 \in 1 .. Len(name)
    BY <1>6
  <2>2. name[1] \in Char
    BY <2>1, ElementOfSeq
  <2> QED BY <1>6, <2>2, PlainHasNone
<1> QED BY <1>3, <1>7

(* The display name stands between a quote and the address in brackets. *)
Quote == "q"
Opening == <<"q", " ", "<">>
Leading(name) == <<Quote>> \o name \o Opening

LEMMA Triple ==
    ASSUME NEW S, NEW x \in S, NEW y \in S, NEW z \in S
    PROVE <<x, y, z>> \in Seq(S) /\ Len(<<x, y, z>>) = 3
  OBVIOUS

LEMMA LeadingIs ==
    ASSUME NEW Char, NEW name \in Seq(Tokens(Char) \ {Sip})
    PROVE /\ Leading(name) \in Seq(Tokens(Char) \ {Sip})
          /\ Len(Leading(name)) = Len(name) + 4 /\ Len(name) \in Nat
          /\ \A i \in 1 .. Len(name) : Leading(name)[i + 1] = name[i]
<1> DEFINE S == Tokens(Char) \ {Sip}
           quote == <<Quote>>
           u == quote \o name
<1>1. Quote \in S
  BY Zenon DEF Tokens, Quote, Sip
<1>2. Opening \in Seq(S) /\ Len(Opening) = 3
  <2>1. " " \in S /\ "<" \in S
    BY Zenon DEF Tokens, Sip
  <2> QED BY <1>1, <2>1, Triple, Zenon DEF Opening, Quote
<1> HIDE DEF S
<1>3. quote \in Seq(S) /\ Len(quote) = 1
  BY <1>1
<1>4. name \in Seq(S) /\ Len(name) \in Nat
  BY LenProperties DEF S
<1> HIDE DEF quote
<1>5. u \in Seq(S) /\ Follows(quote, name)
  BY <1>3, <1>4, Concatenated
<1>6. Len(u) = 1 + Len(name) /\ \A i \in 1 .. Len(name) : u[1 + i] = name[i]
  BY <1>3, <1>5 DEF Follows
<1> HIDE DEF u
<1>7. u \o Opening \in Seq(S) /\ Follows(u, Opening)
  BY <1>2, <1>5, Concatenated
<1>8. Leading(name) = u \o Opening
  BY Zenon DEF Leading, u, quote
<1>9. ASSUME NEW i \in 1 .. Len(name) PROVE (u \o Opening)[i + 1] = name[i]
  <2>1. i + 1 \in 1 .. Len(u) /\ i + 1 = 1 + i
    BY <1>4, <1>6
  <2> QED BY <1>6, <1>7, <2>1 DEF Follows
<1>10. Len(u \o Opening) = Len(name) + 4
  <2>1. Len(u \o Opening) = Len(u) + 3
    BY <1>2, <1>7 DEF Follows
  <2> QED BY <1>4, <1>6, <2>1
<1> QED BY <1>4, <1>7, <1>8, <1>9, <1>10 DEF S

LEMMA NameWithin ==
    ASSUME NEW S, NEW text \in Seq(S), NEW name \in Seq(S), Len(name) + 1 <= Len(text),
           \A i \in 1 .. Len(name) : text[i + 1] = name[i]
    PROVE SubStr(text, 1, Len(name)) = name
<1> DEFINE n == Len(name)
<1>1. n \in Nat /\ Len(text) \in Nat /\ n + 1 <= Len(text) /\ \A i \in 1 .. Len(text) : text[i] \in S
  BY LenProperties
<1> HIDE DEF n
<1>2. Min({1 + n, Len(text)}) = 1 + n /\ ~(n < 0) /\ 1 + 1 = 2
  <2>1. 1 + n \in Nat /\ 1 + n <= Len(text)
    BY <1>1
  <2> QED BY <1>1, <2>1, SmallerOf
<1>3. SubStr(text, 1, n) = SubSeq(text, 2, 1 + n)
  BY <1>2 DEF SubStr
<1>4. PICK m \in Int : m = 1 + n
  BY <1>1
<1>5. /\ SubSeq(text, 2, m) \in Seq(S)
      /\ Len(SubSeq(text, 2, m)) = IF 2 <= m THEN m - 2 + 1 ELSE 0
      /\ \A i \in 1 .. m - 2 + 1 : SubSeq(text, 2, m)[i] = text[2 + i - 1]
  <2>1. \A i \in 2 .. m : text[i] \in S
    BY <1>1, <1>4
  <2> QED BY <2>1, SubSeqProperties
<1>6. Len(SubSeq(text, 2, m)) = n
  BY <1>1, <1>4, <1>5
<1>7. ASSUME NEW i \in 1 .. n PROVE SubSeq(text, 2, m)[i] = name[i]
  <2>1. i \in 1 .. m - 2 + 1 /\ 2 + i - 1 = i + 1
    BY <1>1, <1>4
  <2>2. SubSeq(text, 2, m)[i] = text[i + 1]
    BY <1>5, <2>1
  <2> QED BY <2>2 DEF n
<1>8. SubSeq(text, 2, m) = name
  BY <1>5, <1>6, <1>7, SeqEqual DEF n
<1> QED BY <1>3, <1>4, <1>8 DEF n

LEMMA BracketGoes ==
    ASSUME NEW S, NEW x \in Seq(S), Bracket \in S
    PROVE Unbracketed(x \o <<Bracket>>) = x
<1> DEFINE last == <<Bracket>>
           in == x \o last
           n == Len(x)
<1>1. last \in Seq(S) /\ Len(last) = 1 /\ last[1] = Bracket
  OBVIOUS
<1>3. n \in Nat /\ x \in [1 .. n -> S]
  BY LenProperties
<1> HIDE DEF last
<1>2. /\ in \in Seq(S) /\ Len(in) = n + 1
      /\ (\A i \in 1 .. n : in[i] = x[i]) /\ in[n + 1] = Bracket
  <2>1. in \in Seq(S) /\ Follows(x, last)
    BY <1>1, Concatenated
  <2> QED BY <1>1, <1>3, <2>1 DEF Follows
<1> HIDE DEF in, n
<1>4. Last(in) = Bracket
  BY <1>2 DEF Last
<1>5. Front(in) = SubSeq(in, 1, n)
  <2>1. Len(in) - 1 = n
    BY <1>2, <1>3
  <2> QED BY <2>1 DEF Front
<1>6. ASSUME NEW i \in 1 .. n PROVE in[i] = x[i]
  BY <1>2, <1>3
<1>7. /\ SubSeq(in, 1, n) \in Seq(S) /\ Len(SubSeq(in, 1, n)) = n
      /\ \A i \in 1 .. n : SubSeq(in, 1, n)[i] = in[i]
  <2>1. \A i \in 1 .. n : in[i] \in S
    BY <1>3, <1>6
  <2>2. /\ SubSeq(in, 1, n) \in Seq(S) /\ Len(SubSeq(in, 1, n)) = IF 1 <= n THEN n - 1 + 1 ELSE 0
        /\ \A i \in 1 .. n - 1 + 1 : SubSeq(in, 1, n)[i] = in[1 + i - 1]
    BY <1>3, <2>1, SubSeqProperties
  <2>3. ASSUME NEW i \in 1 .. n PROVE i \in 1 .. n - 1 + 1 /\ 1 + i - 1 = i
    BY <1>3
  <2> QED BY <1>3, <2>2, <2>3
<1>8. SubSeq(in, 1, n) = x
  BY <1>6, <1>7, SeqEqual DEF n
<1> QED BY <1>4, <1>5, <1>8 DEF Unbracketed, in, last

(* ParseSIPURI (utils.cpp) takes an address with a display name apart into  *)
(* what it was made of.                                                    *)
LEMMA NamedParsed ==
    ASSUME NEW Char, Plain(Char), NEW name \in Seq(Tokens(Char) \ {Sip}), name # <<>>, NEW bare,
           NEW user \in Seq(Char), NEW domain \in Seq(Char), domain # <<>>,
           NEW parameters \in Parameters(Char)
    PROVE ParseSIPURI(NameAddress(name, bare, Address(<<Sip>>, user, domain, parameters))) =
            [name |-> IF name = Unknown THEN <<>> ELSE name, user |-> user, domain |-> domain,
             parameters |-> parameters]
<1> DEFINE S == Tokens(Char)
           sip == <<Sip>>
           before == Leading(name)
           body == Body(user, domain, parameters)
           text == before \o sip \o body
           in == text \o <<Bracket>>
<1>1. /\ Sip \in S /\ AtSign \in S /\ Bracket \in S /\ Char \subseteq S /\ S \ {Sip} \subseteq S
      /\ Parameters(Char) \subseteq Seq(S)
  <2>1. PICK T : /\ T \subseteq Tokens(Char) /\ Char \subseteq T /\ Sip \in T /\ AtSign \in T
                 /\ Parameters(Char) \subseteq Seq(T)
    BY PartsTyped, Zenon
  <2>2. Seq(T) \subseteq Seq(Tokens(Char))
    BY <2>1, SeqMonotonic
  <2>3. Bracket \in Tokens(Char)
    BY Zenon DEF Tokens
  <2> QED BY <2>1, <2>2, <2>3
<1>2. /\ before \in Seq(S \ {Sip}) /\ Len(before) = Len(name) + 4 /\ Len(name) \in Nat
      /\ \A i \in 1 .. Len(name) : before[i + 1] = name[i]
  BY LeadingIs
<1> HIDE DEF S, before
<1>3. before \in Seq(S) /\ user \in Seq(S) /\ domain \in Seq(S) /\ parameters \in Seq(S) /\ sip \in Seq(S)
  BY <1>1, <1>2, SeqMonotonic
<1>4. name \in Seq(S)
  <2>1. name \in Seq(S \ {Sip})
    BY DEF S
  <2> QED BY <1>1, <2>1, SeqMonotonic
<1>5. AddressMade(user, domain, parameters) /\ body \in Seq(S)
  BY <1>1, <1>3, AddressIs
<1> HIDE DEF body, sip
<1>6. Associates(before, sip, body)
  BY <1>3, <1>5, Assoc
<1>7. /\ before \o sip \in Seq(S) /\ Follows(before, sip)
      /\ text \in Seq(S) /\ Follows(before \o sip, body)
  <2>1. before \o sip \in Seq(S) /\ Follows(before, sip)
    BY <1>3, Concatenated
  <2> QED BY <1>5, <2>1, Concatenated
<1>8. NameAddress(name, bare, Address(<<Sip>>, user, domain, parameters)) = in
  <2>1. NameAddress(name, bare, Address(<<Sip>>, user, domain, parameters))
          = before \o Address(<<Sip>>, user, domain, parameters) \o <<Bracket>>
    BY Zenon DEF NameAddress, before, Leading, Quote, Opening, Bracket
  <2>2. before \o Address(<<Sip>>, user, domain, parameters) = text
    BY <1>5, <1>6, Zenon DEF AddressMade, Associates, body, sip
  <2> QED BY <2>1, <2>2, Zenon
<1>9. Unbracketed(in) = text
  <2> HIDE DEF text
  <2> QED BY <1>1, <1>7, BracketGoes
<1>10. TakenApart(in, before, user, domain, parameters)
  <2>1. Unbracketed(in) = before \o <<Sip>> \o Body(user, domain, parameters)
    BY <1>9, Zenon DEF sip, body
  <2>2. before \in Seq(Tokens(Char) \ {Sip})
    BY <1>2 DEF S
  <2> HIDE DEF in
  <2> QED BY <2>1, <2>2, Parsed
<1>11. SubStr(text, 1, Len(name)) = name
  <2>1. Len(sip) = 1 /\ Len(body) \in Nat
    BY <1>5, LenProperties DEF sip
  <2>2. Len(text) = Len(name) + 4 + 1 + Len(body)
    BY <1>2, <1>7, <2>1 DEF Follows
  <2>3. ASSUME NEW i \in 1 .. Len(name) PROVE text[i + 1] = name[i]
    <3>1. i + 1 \in 1 .. Len(before) /\ i + 1 \in 1 .. Len(before \o sip)
      BY <1>2, <1>7, <2>1 DEF Follows
    <3> QED BY <1>2, <1>7, <3>1 DEF Follows
  <2> HIDE DEF text
  <2>4. Len(name) + 1 <= Len(text)
    BY <1>2, <2>1, <2>2
  <2> QED BY <1>4, <1>7, <2>3, <2>4, NameWithin
<1>12. NameBefore(text, Len(before)) = IF name = Unknown THEN <<>> ELSE name
  <2>1. ~(Len(before) <= 0) /\ Len(before) - 4 = Len(name)
    BY <1>2
  <2> HIDE DEF text
  <2> QED BY <1>11, <2>1 DEF NameBefore
<1> HIDE DEF in
<1> QED BY <1>8, <1>10, <1>12, Zenon DEF TakenApart, text, sip, body

(* ParseSIPURI (utils.cpp) of an address in brackets with no name before    *)
(* them: the length of the name is negative, and the name is all that       *)
(* follows the bracket.                                                     *)
LEMMA WholeRest ==
    ASSUME NEW S, NEW t \in S, NEW b \in Seq(S)
    PROVE SubStr(<<t>> \o b, 1, -3) = b
<1> DEFINE u == <<t>>
           s == u \o b
<1>1. u \in Seq(S) /\ Len(u) = 1 /\ Len(b) \in Nat
  BY LenProperties
<1> HIDE DEF u
<1>2. s \in Seq(S) /\ Follows(u, b)
  BY <1>1, Concatenated
<1>3. Len(s) = 1 + Len(b) /\ \A i \in 1 .. Len(b) : s[1 + i] = b[i]
  BY <1>1, <1>2 DEF Follows
<1> HIDE DEF s
<1>4. SubStr(s, 1, -3) = SubSeq(s, 2, Len(s))
  BY DEF SubStr
<1>5. PICK m \in Nat : m = Len(s) /\ m = 1 + Len(b) /\ \A i \in 2 .. m : s[i] \in S
  <2>1. \A i \in 1 .. Len(s) : s[i] \in S
    BY <1>2, LenProperties
  <2> QED BY <1>1, <1>3, <2>1
<1>6. /\ SubSeq(s, 2, m) \in Seq(S)
      /\ Len(SubSeq(s, 2, m)) = IF 2 <= m THEN m - 2 + 1 ELSE 0
      /\ \A i \in 1 .. m - 2 + 1 : SubSeq(s, 2, m)[i] = s[2 + i - 1]
  BY <1>5, SubSeqProperties
<1>7. Len(SubSeq(s, 2, m)) = Len(b)
  BY <1>1, <1>5, <1>6
<1>8. ASSUME NEW i \in 1 .. Len(b) PROVE SubSeq(s, 2, m)[i] = b[i]
  <2>1. i \in 1 .. m - 2 + 1 /\ 2 + i - 1 = 1 + i
    BY <1>1, <1>5
  <2> QED BY <1>3, <1>6, <2>1
<1>9. SubSeq(s, 2, m) = b
  BY <1>6, <1>7, <1>8, SeqEqual
<1> QED BY <1>4, <1>5, <1>9 DEF s, u

LEMMA NamelessParsed ==
    ASSUME NEW Char, Plain(Char), NEW user \in Seq(Char), NEW domain \in Seq(Char), domain # <<>>,
           NEW parameters \in Parameters(Char), NEW address,
           address = Address(<<Sip>>, user, domain, parameters), address # Unknown
    PROVE ParseSIPURI(NameAddress(<<>>, FALSE, address)) =
            [name |-> address, user |-> user, domain |-> domain, parameters |-> parameters]
<1> DEFINE S == Tokens(Char)
           left == "<"
           sip == <<Sip>>
           before == <<left>>
           body == Body(user, domain, parameters)
           text == before \o sip \o body
           in == text \o <<Bracket>>
<1>1. /\ Sip \in S /\ AtSign \in S /\ Bracket \in S /\ left \in S \ {Sip} /\ Char \subseteq S
      /\ S \ {Sip} \subseteq S /\ Parameters(Char) \subseteq Seq(S)
  <2>1. PICK T : /\ T \subseteq Tokens(Char) /\ Char \subseteq T /\ Sip \in T /\ AtSign \in T
                 /\ Parameters(Char) \subseteq Seq(T)
    BY PartsTyped, Zenon
  <2>2. Seq(T) \subseteq Seq(Tokens(Char))
    BY <2>1, SeqMonotonic
  <2>3. Bracket \in Tokens(Char) /\ left \in Tokens(Char) /\ left # Sip
    BY Zenon DEF Tokens, Sip
  <2> QED BY <2>1, <2>2, <2>3
<1> HIDE DEF S, left
<1>2. before \in Seq(S \ {Sip}) /\ Len(before) = 1 /\ Len(before) \in Nat
  BY <1>1
<1>3. before \in Seq(S) /\ user \in Seq(S) /\ domain \in Seq(S) /\ parameters \in Seq(S) /\ sip \in Seq(S)
  BY <1>1, SeqMonotonic
<1>4. AddressMade(user, domain, parameters) /\ body \in Seq(S)
  BY <1>1, <1>3, AddressIs
<1> HIDE DEF body, sip, before
<1>5. Associates(before, sip, body) /\ address = sip \o body /\ address \in Seq(S)
  <2>1. sip \o body \in Seq(S)
    BY <1>3, <1>4, Concatenated
  <2>2. address = sip \o body
    BY <1>4, Zenon DEF AddressMade, sip, body
  <2> QED BY <1>3, <1>4, <2>1, <2>2, Assoc
<1>6. text = before \o address /\ text \in Seq(S)
  <2>1. text = before \o address
    BY <1>5, Zenon DEF Associates
  <2>2. before \o address \in Seq(S)
    BY <1>3, <1>5, Concatenated
  <2> QED BY <2>1, <2>2, Zenon
<1>7. NameAddress(<<>>, FALSE, address) = in
  <2>1. NameAddress(<<>>, FALSE, address) = before \o address \o <<Bracket>>
    BY Zenon DEF NameAddress, before, left, Bracket
  <2> QED BY <1>6, <2>1, Zenon
<1>8. Unbracketed(in) = text
  <2> HIDE DEF text
  <2> QED BY <1>1, <1>6, BracketGoes
<1>9. TakenApart(in, before, user, domain, parameters)
  <2>1. Unbracketed(in) = before \o <<Sip>> \o Body(user, domain, parameters)
    BY <1>8, Zenon DEF sip, body
  <2>2. before \in Seq(Tokens(Char) \ {Sip})
    BY <1>2 DEF S
  <2> HIDE DEF in
  <2> QED BY <2>1, <2>2, Parsed
<1>10. SubStr(text, 1, -3) = address
  <2>1. SubStr(before \o address, 1, -3) = address
    BY <1>1, <1>5, WholeRest DEF before
  <2> QED BY <1>6, <2>1, Zenon
<1>11. NameBefore(text, Len(before)) = address
  <2>1. ~(Len(before) <= 0) /\ Len(before) - 4 = -3
    BY <1>2
  <2> HIDE DEF text
  <2> QED BY <1>10, <2>1 DEF NameBefore
<1> HIDE DEF in
<1> QED BY <1>7, <1>9, <1>11, Zenon DEF TakenApart, text, sip, body

(* GET /calls: a remote party is shown as it calls itself, or, where there  *)
(* is no name before the bracket, with its address for a name.              *)
LEMMA CallerShown ==
    ASSUME NEW Char, Plain(Char), Unknown \in Seq(Char), Unknown # <<>>,
           NEW name \in Seq(Tokens(Char) \ {Sip}), NEW bare \in BOOLEAN,
           NEW user \in Seq(Char), NEW domain \in Seq(Char), domain # <<>>,
           NEW parameters \in Parameters(Char)
    PROVE CallerIsShown(name, bare, user, domain, parameters)
<1> DEFINE address == Address(<<Sip>>, user, domain, parameters)
<1>1. CASE name = <<>> /\ bare = TRUE
  <2>1. NameAddress(name, bare, address) = address
    BY <1>1, Zenon DEF NameAddress
  <2>2. (IF name = <<>> /\ ~bare THEN address ELSE IF name = Unknown THEN <<>> ELSE name) = <<>>
    BY <1>1
  <2>3. ParseSIPURI(NameAddress(name, bare, address)) =
          [name |-> <<>>, user |-> user, domain |-> domain, parameters |-> parameters]
    BY <2>1, AddressParsed, Zenon
  <2> QED BY <2>2, <2>3, Zenon DEF CallerIsShown, Sip
<1>2. CASE name = <<>> /\ bare = FALSE
  <2>1. address # Unknown
    BY AddressStarts
  <2>2. ParseSIPURI(NameAddress(<<>>, FALSE, address)) =
          [name |-> address, user |-> user, domain |-> domain, parameters |-> parameters]
    BY <2>1, NamelessParsed, ZenonT(40)
  <2>3. NameAddress(name, bare, address) = NameAddress(<<>>, FALSE, address)
    BY <1>2
  <2>4. (IF name = <<>> /\ ~bare THEN address ELSE IF name = Unknown THEN <<>> ELSE name) = address
    BY <1>2
  <2> HIDE DEF address
  <2>5. ParseSIPURI(NameAddress(name, bare, address)) =
          [name |-> address, user |-> user, domain |-> domain, parameters |-> parameters]
    BY <2>2, <2>3, Zenon
  <2> QED BY <2>4, <2>5, Zenon DEF CallerIsShown, Sip, address
<1>3. CASE name # <<>>
  <2>1. ParseSIPURI(NameAddress(name, bare, address)) =
          [name |-> IF name = Unknown THEN <<>> ELSE name, user |-> user, domain |-> domain,
           parameters |-> parameters]
    BY <1>3, NamedParsed
  <2>2. (IF name = <<>> /\ ~bare THEN address ELSE IF name = Unknown THEN <<>> ELSE name)
          = IF name = Unknown THEN <<>> ELSE name
    BY <1>3
  <2> QED BY <2>1, <2>2, Zenon DEF CallerIsShown, Sip
<1> QED BY <1>1, <1>2, <1>3

LEMMA Present ==
    ASSUME NEW S, NEW a \in Seq(S), NEW t \in S, NEW b \in Seq(S)
    PROVE Find(a \o <<t>> \o b, t, 0) # -1
<1> DEFINE s == a \o <<t>> \o b
           hits == {i \in DOMAIN s : i > 0 /\ s[i] = t}
<1>1. /\ s \in Seq(S) /\ Len(s) = Len(a) + 1 + Len(b) /\ Len(a) \in Nat /\ Len(b) \in Nat
      /\ s[Len(a) + 1] = t
  BY Joins
<1> HIDE DEF s
<1>2. DOMAIN s = 1 .. Len(s) /\ Len(s) \in Nat
  BY <1>1, LenProperties
<1>3. hits \subseteq Nat /\ hits # {}
  <2>1. Len(a) + 1 \in DOMAIN s /\ Len(a) + 1 > 0
    BY <1>1, <1>2
  <2>2. Len(a) + 1 \in hits
    BY <1>1, <2>1
  <2> QED BY <1>2, <2>2
<1>4. Find(s, t, 0) = IF hits = {} THEN -1 ELSE Min(hits) - 1
  BY DEF Find
<1>5. \A i \in hits : i \in Nat /\ i > 0
  BY <1>2
<1> HIDE DEF hits
<1>6. Min(hits) \in hits
  BY <1>3, LeastOf
<1>7. Min(hits) - 1 # -1
  BY <1>5, <1>6
<1> QED BY <1>3, <1>4, <1>7 DEF s

(* GetSIPURI (utils.cpp) completes what the user has typed: the scheme and  *)
(* the domain of the account, each if there is none.                       *)
LEMMA Typed ==
    ASSUME NEW Char, Plain(Char), NEW scheme \in Scheme, NEW user \in Seq(Char), NEW domain \in Seq(Char),
           NEW own \in Char
    PROVE GetSIPURI(Address(scheme, user, domain, <<>>), own)
            = Address(<<Sip>>, user, IF domain = <<>> THEN <<own>> ELSE domain, <<>>)
<1> DEFINE S == Char \cup {Sip, AtSign}
           sip == <<Sip>>
           at == <<AtSign>>
           named == IF domain = <<>> THEN <<own>> ELSE domain
           su == scheme \o user
           text == Address(scheme, user, domain, <<>>)
           lead == IF scheme = <<>> THEN sip ELSE <<>>
           trail == IF domain = <<>> THEN at \o <<own>> ELSE <<>>
<1>1. /\ Sip \in S /\ AtSign \in S /\ Char \subseteq S
      /\ Sip \notin Char \cup {AtSign} /\ AtSign \notin Char \cup {Sip}
      /\ Char \cup {Sip} \subseteq S /\ Char \cup {AtSign} \subseteq S
  BY MarksDiffer, PlainHasNone
<1>2. "SIP:" \notin S
  <2>1. "SIP:" # Sip /\ "SIP:" # AtSign
    BY Zenon DEF Sip, AtSign
  <2> QED BY <2>1, PlainHasNone
<1>3. scheme = <<>> \/ scheme = sip
  BY Zenon DEF Scheme, Sip
<1> HIDE DEF S
<1>4. /\ sip \in Seq(S) /\ sip \in Seq(Char \cup {Sip}) /\ at \in Seq(S) /\ at \in Seq(Char \cup {AtSign})
      /\ sip # <<>>
  BY <1>1
<1>5. /\ user \in Seq(S) /\ user \in Seq(Char \cup {Sip}) /\ user \in Seq(Char \cup {AtSign})
      /\ domain \in Seq(S) /\ domain \in Seq(Char \cup {AtSign})
  BY <1>1, SeqMonotonic
<1>6. named \in Seq(S) /\ named # <<>>
  <2>1. <<own>> \in Seq(S) /\ <<own>> # <<>>
    BY <1>1
  <2> QED BY <1>5, <2>1
<1>7. text = su \o (IF domain = <<>> THEN <<>> ELSE at \o domain) \o <<>>
  BY Zenon DEF Address, AtSign
<1> HIDE DEF sip, at
<1>8. su \in Seq(S) /\ su \in Seq(Char \cup {Sip}) /\ at \o domain \in Seq(S)
  <2>1. scheme \in Seq(S) /\ scheme \in Seq(Char \cup {Sip})
    <3>1. <<>> \in Seq(S) /\ <<>> \in Seq(Char \cup {Sip})
      OBVIOUS
    <3> QED BY <1>3, <1>4, <3>1, Zenon
  <2> QED BY <1>4, <1>5, <2>1, Concatenated
<1>9. lead \o su = sip \o user /\ lead \in Seq(S)
  <2>1. <<>> \o user = user /\ <<>> \o (sip \o user) = sip \o user
    <3>1. sip \o user \in Seq(S)
      BY <1>4, <1>5, Concatenated
    <3> QED BY <1>5, <3>1, ConcatEmptySeq
  <2>2. <<>> \in Seq(S)
    OBVIOUS
  <2> QED BY <1>3, <1>4, <2>1, <2>2
<1>10. /\ domain = <<>> => text = su
       /\ domain # <<>> => text = su \o (at \o domain)
  <2>1. su \o <<>> = su
    BY <1>8, ConcatEmptySeq
  <2>2. su \o (at \o domain) \in Seq(S)
    BY <1>8, Concatenated
  <2>3. su \o (at \o domain) \o <<>> = su \o (at \o domain)
    BY <2>2, ConcatEmptySeq
  <2> HIDE DEF su, text
  <2>4. CASE domain = <<>>
    BY <1>7, <2>1, <2>4
  <2>5. CASE domain # <<>>
    BY <1>7, <2>3, <2>5
  <2> QED BY <2>4, <2>5
<1>11. text \in Seq(S)
  <2>1. su \o (at \o domain) \in Seq(S)
    BY <1>8, Concatenated
  <2> HIDE DEF su, text
  <2> QED BY <1>8, <1>10, <2>1
<1>12. Lower(text) = text
  <2> HIDE DEF text
  <2> QED BY <1>2, <1>11, LowerIsSame
<1>13. Find(text, Sip, 0) = -1 <=> scheme = <<>>
  <2>1. CASE scheme = <<>>
    <3>1. su = user
      BY <1>5, <2>1, ConcatEmptySeq
    <3>2. user \o (at \o domain) \in Seq(Char \cup {AtSign})
      <4>1. at \o domain \in Seq(Char \cup {AtSign})
        BY <1>4, <1>5, Concatenated
      <4> QED BY <1>5, <4>1, Concatenated
    <3> HIDE DEF su, text
    <3>3. text \in Seq(Char \cup {AtSign})
      BY <1>5, <1>10, <3>1, <3>2
    <3> QED BY <1>1, <2>1, <3>3, NotAmong
  <2>2. CASE scheme = sip
    <3>1. \E b \in Seq(S) : text = <<>> \o <<Sip>> \o b
      <4>1. sip \o (user \o (at \o domain)) = sip \o user \o (at \o domain) /\ user \o (at \o domain) \in Seq(S)
        <5>1. Associates(sip, user, at \o domain)
          BY <1>4, <1>5, <1>8, Assoc
        <5>2. user \o (at \o domain) \in Seq(S)
          BY <1>5, <1>8, Concatenated
        <5> QED BY <5>1, <5>2, Zenon DEF Associates
      <4>2. <<>> \o <<Sip>> = sip
        BY <1>4, ConcatEmptySeq DEF sip
      <4>3. CASE domain = <<>>
        <5>1. text = sip \o user
          BY <1>10, <2>2, <4>3, Zenon DEF su
        <5> HIDE DEF text
        <5> QED BY <1>5, <4>2, <5>1, Zenon
      <4>4. CASE domain # <<>>
        <5>1. text = sip \o user \o (at \o domain)
          BY <1>10, <2>2, <4>4, Zenon DEF su
        <5> HIDE DEF text
        <5> QED BY <4>1, <4>2, <5>1, Zenon
      <4> QED BY <4>3, <4>4
    <3> HIDE DEF text
    <3>2. PICK b \in Seq(S) : text = <<>> \o <<Sip>> \o b
      BY <3>1
    <3>3. <<>> \in Seq(S)
      OBVIOUS
    <3>4. Find(text, Sip, 0) # -1
      BY <1>1, <3>2, <3>3, Present
    <3> QED BY <1>4, <2>2, <3>4
  <2> QED BY <1>3, <2>1, <2>2
<1>14. Find(text, AtSign, 0) = -1 <=> domain = <<>>
  <2>1. CASE domain = <<>>
    <3>1. text \in Seq(Char \cup {Sip})
      BY <1>8, <1>10, <2>1, Zenon
    <3> HIDE DEF text
    <3> QED BY <1>1, <2>1, <3>1, NotAmong
  <2>2. CASE domain # <<>>
    <3>1. text = su \o <<AtSign>> \o domain
      <4>1. Associates(su, at, domain)
        <5> HIDE DEF su
        <5> QED BY <1>4, <1>5, <1>8, Assoc
      <4> QED BY <1>10, <2>2, <4>1, Zenon DEF Associates, at
    <3> HIDE DEF text, su
    <3>2. Find(text, AtSign, 0) # -1
      BY <1>1, <1>5, <1>8, <3>1, Present
    <3> QED BY <2>2, <3>2
  <2> QED BY <2>1, <2>2
<1>15. GetSIPURI(text, own) = lead \o text \o trail
  <2>1. GetSIPURI(text, own) =
          (IF Find(Lower(text), Sip, 0) = -1 THEN <<Sip>> ELSE <<>>) \o text
            \o (IF Find(Lower(text), AtSign, 0) = -1 THEN <<AtSign, own>> ELSE <<>>)
    BY Zenon DEF GetSIPURI, Sip, AtSign
  <2>2. <<AtSign, own>> = at \o <<own>>
    BY DEF at
  <2> HIDE DEF text
  <2> QED BY <1>12, <1>13, <1>14, <2>1, <2>2, Zenon DEF sip, lead, trail
<1>16. lead \o text \o trail = sip \o user \o (at \o named)
  <2>1. CASE domain = <<>>
    <3>1. text = su /\ trail = at \o <<own>> /\ named = <<own>>
      BY <1>10, <2>1, Zenon
    <3> HIDE DEF text, trail, named, su, lead
    <3> QED BY <1>9, <3>1, Zenon
  <2>2. CASE domain # <<>>
    <3>1. text = su \o (at \o domain) /\ trail = <<>> /\ named = domain
      BY <1>10, <2>2, Zenon
    <3>2. Associates(lead, su, at \o domain)
      <4> HIDE DEF lead, su
      <4> QED BY <1>8, <1>9, Assoc
    <3>3. lead \o text \in Seq(S)
      <4> HIDE DEF lead, text
      <4> QED BY <1>9, <1>11, Concatenated
    <3>4. lead \o text \o <<>> = lead \o text
      <4> HIDE DEF lead, text
      <4> QED BY <3>3, ConcatEmptySeq
    <3> HIDE DEF text, trail, named, su, lead
    <3> QED BY <1>9, <3>1, <3>2, <3>4, Zenon DEF Associates
  <2> QED BY <2>1, <2>2
<1>17. AddressMade(user, named, <<>>)
  <2>1. <<>> \in Seq(S)
    OBVIOUS
  <2> HIDE DEF named
  <2> QED BY <1>1, <1>5, <1>6, <2>1, AddressIs
<1> HIDE DEF named, text, lead, trail
<1>18. GetSIPURI(text, own) = Address(<<Sip>>, user, named, <<>>)
  BY <1>15, <1>16, <1>17, Zenon DEF AddressMade, sip, at
<1> QED BY <1>18, Zenon DEF text, named

LEMMA OneByOne ==
    ASSUME NEW x, NEW y
    PROVE <<x>> \o <<y>> = <<x, y>>
<1> DEFINE u == <<x>>
           v == <<y>>
           w == <<x, y>>
<1>1. /\ u \in Seq({x, y}) /\ Len(u) = 1 /\ u[1] = x
      /\ v \in Seq({x, y}) /\ Len(v) = 1 /\ v[1] = y
      /\ w \in Seq({x, y}) /\ Len(w) = 2 /\ w[1] = x /\ w[2] = y
  OBVIOUS
<1> HIDE DEF u, v, w
<1>2. u \o v \in Seq({x, y}) /\ Follows(u, v)
  BY <1>1, Concatenated
<1>3. Len(u \o v) = 2 /\ (u \o v)[1] = x /\ (u \o v)[2] = y
  BY <1>1, <1>2 DEF Follows
<1>4. \A i \in 1 .. Len(w) : w[i] = (u \o v)[i]
  <2>1. \A i \in 1 .. 2 : i = 1 \/ i = 2
    OBVIOUS
  <2> QED BY <1>1, <1>3, <2>1
<1>5. u \o v = w
  BY <1>1, <1>2, <1>3, <1>4, SeqEqual
<1> QED BY <1>5 DEF u, v, w

(* POST /dial, and what /calls shows of it: the user part as it was typed,  *)
(* the domain that was typed or else the one of the account.               *)
LEMMA DialledShown ==
    ASSUME NEW Char, Plain(Char), NEW scheme \in Scheme, NEW user \in Seq(Char), NEW domain \in Seq(Char),
           NEW own \in Char
    PROVE DialledIsShown(scheme, user, domain, own)
<1> DEFINE named == IF domain = <<>> THEN <<own>> ELSE domain
           dialled == GetSIPURI(Address(scheme, user, domain, <<>>), own)
<1>1. dialled = Address(<<Sip>>, user, named, <<>>)
  BY Typed
<1>2. named \in Seq(Char) /\ named # <<>>
  OBVIOUS
<1> HIDE DEF named
<1>3. PICK p \in Parameters(Char) : AddTransportSuffix(dialled) = Address(<<Sip>>, user, named, p)
  <2>1. CASE Transport = "udp"
    <3>1. <<>> \in Parameters(Char)
      BY Zenon DEF Parameters
    <3>2. AddTransportSuffix(dialled) = dialled
      BY <2>1 DEF AddTransportSuffix
    <3> QED BY <1>1, <3>1, <3>2, Zenon
  <2>2. CASE Transport # "udp"
    <3> DEFINE p == <<Semicolon>> \o <<Transport>>
    <3>1. p = <<Semicolon, Transport>>
      BY OneByOne
    <3>2. p \in Parameters(Char)
      <4>1. Transport \in Char \cup {Semicolon, "tcp", "tls"}
        BY <2>2, SipUriAssumption
      <4>2. <<Transport>> \in Seq(Char \cup {Semicolon, "tcp", "tls"})
        BY <4>1
      <4> QED BY <4>2, Zenon DEF Parameters, Semicolon
    <3>3. AddTransportSuffix(dialled) = dialled \o p
      BY <2>2, <3>1, Zenon DEF AddTransportSuffix, Semicolon
    <3>4. PICK S : /\ Char \subseteq S /\ Sip \in S /\ AtSign \in S /\ Parameters(Char) \subseteq Seq(S)
      BY PartsTyped, Zenon
    <3> HIDE DEF p
    <3>5. AddressMade(user, named, p)
      <4>1. user \in Seq(S) /\ named \in Seq(S) /\ p \in Seq(S)
        BY <1>2, <3>2, <3>4, SeqMonotonic
      <4> QED BY <1>2, <3>4, <4>1, AddressIs
    <3> QED BY <1>1, <3>2, <3>3, <3>5, Zenon DEF AddressMade
  <2> QED BY <2>1, <2>2
<1>4. ParseSIPURI(Address(<<Sip>>, user, named, p)) =
        [name |-> <<>>, user |-> user, domain |-> named, parameters |-> p]
  BY <1>2, AddressParsed
<1> HIDE DEF dialled
<1>5. /\ ParseSIPURI(AddTransportSuffix(dialled)).user = user
      /\ ParseSIPURI(AddTransportSuffix(dialled)).domain = named
  BY <1>3, <1>4
<1> QED BY <1>5, Zenon DEF DialledIsShown, dialled, named

(* The texts of the model: a user dials digits and letters, behind "sip:"   *)
(* or not, with a domain or not; a remote party has a display name in which *)
(* there is no "sip:", or none, in brackets or bare, a user part, a domain, *)
(* and parameters or headers.                                               *)
Grammar(Char) ==
    /\ Plain(Char) /\ OwnDomain \in Char /\ Unknown \in Seq(Char) \ {<<>>}
    /\ Dialled \subseteq [scheme : Scheme, user : Seq(Char), domain : Seq(Char)]
    /\ Header \subseteq [name : Seq(Tokens(Char) \ {Sip}), bare : BOOLEAN, user : Seq(Char),
                         domain : Seq(Char) \ {<<>>}, parameters : Parameters(Char)]

TextOK ==
    /\ http.at = "dialing" => http.text \in Dialled
    /\ http.at = "shown" => http.text \in Header

LEMMA TextStep ==
    ASSUME HttpOK, TextOK, [ApiNext]_apiVars
    PROVE TextOK'
<1>1. CASE UNCHANGED http
  BY <1>1 DEF TextOK
<1>2. ASSUME NEW s \in Slot, Lookup(s) PROVE TextOK'
  BY <1>2 DEF Lookup, Idle, TextOK
<1>3. \A answer \in {"nothing", "ok", "null"} : Told(answer) => TextOK'
  BY DEF Told, Idle, TextOK
<1>4. ASSUME NEW c \in Call, Route(c) PROVE TextOK'
  <2>1. ASSUME NEW text \in Dialled, http' = [Idle EXCEPT !.at = "dialing", !.ptr = c, !.text = text]
        PROVE TextOK'
    BY <2>1 DEF Idle, TextOK
  <2> QED BY <1>3, <1>4, <2>1, RouteTells DEF Answered
<1>5. CASE FollowsDangling \/ CallsRoute
  BY <1>5 DEF FollowsDangling, CallsRoute, Idle, TextOK
<1>6. CASE HangupAllRoute \/ GetCallsAsync
  BY <1>3, <1>6, Answers DEF HangupAllRoute, GetCallsAsync, HangupCallAsync
<1>7. CASE Elsewhere
  BY <1>7 DEF Elsewhere, HttpOK, TextOK
<1> QED BY <1>1, <1>2, <1>4, <1>5, <1>6, <1>7 DEF ApiNext, apiVars

(* What the user dials is what /calls shows of it, and a remote party is    *)
(* shown as it calls itself, or, where it stands in brackets without a      *)
(* name, with its address for a name (GetSIPURI, AddTransportSuffix and     *)
(* ParseSIPURI, utils.cpp): for texts of any length over any characters but *)
(* the marks that divide an address, with every transport.                  *)
THEOREM ShownIsTyped ==
    ASSUME NEW Char, Grammar(Char)
    PROVE ApiSpec => []ShownAsTyped
<1>1. ApiInit => TextOK
  BY DEF ApiInit, Idle, TextOK
<1>2. ApiInv /\ TextOK /\ [ApiNext]_apiVars => TextOK'
  BY TextStep DEF ApiInv
<1>3. TextOK => ShownAsTyped
  <2> SUFFICES ASSUME TextOK PROVE ShownAsTyped
    OBVIOUS
  <2>1. Plain(Char) /\ OwnDomain \in Char /\ Unknown \in Seq(Char) /\ Unknown # <<>>
    BY DEF Grammar
  <2>2. ASSUME http.at = "dialing"
        PROVE DialledIsShown(http.text.scheme, http.text.user, http.text.domain, OwnDomain)
    <3>1. http.text \in [scheme : Scheme, user : Seq(Char), domain : Seq(Char)]
      BY <2>2 DEF TextOK, Grammar
    <3>2. http.text.scheme \in Scheme /\ http.text.user \in Seq(Char) /\ http.text.domain \in Seq(Char)
      BY <3>1
    <3> QED BY <2>1, <3>2, DialledShown
  <2>3. ASSUME http.at = "shown"
        PROVE CallerIsShown(http.text.name, http.text.bare, http.text.user, http.text.domain,
                            http.text.parameters)
    <3>1. http.text \in [name : Seq(Tokens(Char) \ {Sip}), bare : BOOLEAN, user : Seq(Char),
                         domain : Seq(Char) \ {<<>>}, parameters : Parameters(Char)]
      BY <2>3 DEF TextOK, Grammar
    <3>2. /\ http.text.name \in Seq(Tokens(Char) \ {Sip}) /\ http.text.bare \in BOOLEAN /\ http.text.user \in Seq(Char)
          /\ http.text.domain \in Seq(Char) /\ http.text.domain # <<>>
          /\ http.text.parameters \in Parameters(Char)
      BY <3>1
    <3> QED BY <2>1, <3>2, CallerShown
  <2> QED BY <2>2, <2>3 DEF ShownAsTyped
<1> QED BY <1>1, <1>2, <1>3, ApiKeepsInv, PTL DEF ApiSpec

================================================================================
