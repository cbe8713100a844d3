-------------------------------- MODULE Tones --------------------------------
(***************************************************************************)
(* What the user hears of the two tone generators of Ringtones.  The       *)
(* handlers are those of Ringtones (src/tinyphone/phone.cpp: StartRinging, *)
(* StopRinging), each with the generators that throw in it; two ghosts     *)
(* remember what the program itself does not: which ringing calls another  *)
(* call has stopped ringing beside, and which generators a throw has left  *)
(* out of step with their counters.                                        *)
(***************************************************************************)
EXTENDS Ringtones

VARIABLES
    cut,    \* ghost: the ringing calls during whose ringing another call stopped
    amiss   \* ghost: the tunes whose last connection or disconnection threw or was skipped

toneVars == <<ringVars, cut, amiss>>

ToneTypeOK == RingTypeOK /\ cut \subseteq Call /\ amiss \subseteq Tune

ToneInit == RingInit /\ cut = {} /\ amiss = {}

-----------------------------------------------------------------------------
Skipped(bad) == {t \in Tune \ Tested(bad) : count[t] - 1 = 0}

StartsRinging(c, tune) ==
    IF isRinging[c]
    THEN UNCHANGED toneVars
    ELSE \E bad \in Throwing :
           /\ StartRinging(c, tune, bad)
           /\ amiss' = IF count[tune] + 1 # 1 THEN amiss
                       ELSE IF tune \in bad THEN amiss \union {tune} ELSE amiss \ {tune}
           /\ UNCHANGED cut

StopsRinging(c) ==
    IF isRinging[c]
    THEN \E bad \in Throwing :
           /\ StopRinging(c, bad)
           /\ cut' = Ringers \ {c}
           /\ amiss' = (amiss \ TakenDown(bad)) \union (TakenDown(bad) \intersect bad)
                         \union Skipped(bad)
    ELSE UNCHANGED toneVars

(* The handlers of the calls, in any order. *)
ToneNext == \E c \in Call : StopsRinging(c) \/ \E tune \in Tune : StartsRinging(c, tune)

ToneSpec == ToneInit /\ [][ToneNext]_toneVars

-----------------------------------------------------------------------------
(* A generator is connected to the speaker exactly while its counter is    *)
(* not zero: only a throw takes the two apart (the catch of StartRinging   *)
(* leaves the counter up, that of StopRinging the generator connected),    *)
(* and only until the generator is connected or disconnected again.        *)
ToneMatchesCount == \A t \in Tune \ amiss : t \in playing <=> count[t] # 0

(* The user hears a call that rings, for as long as no other call stops    *)
(* ringing beside it and no generator has thrown.  StopRinging takes every *)
(* counter down that stands at one, whosever tune it is: the answer to one *)
(* call may silence another.                                               *)
HeardUnlessCut ==
    \A c \in Ringers \ cut : rung[c] \in amiss \/ rung[c] \in playing

(* When nobody rings any more the speaker is quiet, unless two calls have  *)
(* rung the same tune together, whose counter StopRinging then leaves      *)
(* where it is, or a generator has thrown.                                 *)
QuietWhenIdle ==
    Ringers = {} => \A t \in playing : count[t] >= 2 \/ t \in amiss
=============================================================================
