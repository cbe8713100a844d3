------------------------------ MODULE Ringtones ------------------------------
(***************************************************************************)
(* The two tone generators TinyPhone shares between all calls             *)
(* (src/tinyphone/phone.cpp: StartRinging, StopRinging): "Ringing" is      *)
(* played for an incoming call, "RingBack" for an outgoing one that got    *)
(* 180.  Each handler is one step here; RingtoneThreads takes the two      *)
(* functions apart, Tones adds what the user hears of it.                  *)
(***************************************************************************)
EXTENDS Integers, FiniteSets

CONSTANTS
    Call,         \* the SIPCall objects
    ToneMayFail   \* startTransmit and stopTransmit of a generator may throw

ASSUME RingAssumption == ToneMayFail \in BOOLEAN

Tune == {"Ringing", "RingBack"}

VARIABLES
    isRinging,  \* SIPCall::isRinging, of each call
    rung,       \* ghost: the tune a call rings with
    count,      \* TinyPhone::ringing_count and ringback_count
    playing     \* the generators connected to the playback device

ringVars == <<isRinging, rung, count, playing>>

RingTypeOK ==
    /\ isRinging \in [Call -> BOOLEAN]
    /\ rung \in [Call -> Tune \union {"none"}]
    /\ count \in [Tune -> Int]
    /\ playing \subseteq Tune

Ringers == {c \in Call : isRinging[c]}

RingInit ==
    /\ isRinging = [c \in Call |-> FALSE]
    /\ rung = [c \in Call |-> "none"]
    /\ count = [t \in Tune |-> 0]
    /\ playing = {}

-----------------------------------------------------------------------------
(* The generators that throw in a handler, if it gets to them. *)
Throwing == IF ToneMayFail THEN SUBSET Tune ELSE {{}}

(* Variation: the counter is tested before it goes up. *)
StartRingingLate(c, tune, bad) ==
    /\ ~isRinging[c]
    /\ isRinging' = [isRinging EXCEPT ![c] = TRUE]
    /\ rung' = [rung EXCEPT ![c] = tune]
    /\ count' = [count EXCEPT ![tune] = @ + 1]
    /\ playing' = IF count[tune] = 1 /\ tune \notin bad
                  THEN playing \union {tune} ELSE playing

(* TinyPhone::StartRinging for a call that does not ring; for another it   *)
(* does nothing.  The first ringer of a tune connects it.  The counter is  *)
(* up when startTransmit throws, and stays up.                             *)
StartRinging(c, tune, bad) ==
    /\ ~isRinging[c]
    /\ isRinging' = [isRinging EXCEPT ![c] = TRUE]
    /\ rung' = [rung EXCEPT ![c] = tune]
    /\ count' = [count EXCEPT ![tune] = @ + 1]
    /\ playing' = IF count[tune] + 1 = 1 /\ tune \notin bad
                  THEN playing \union {tune} ELSE playing

Fallen(c) ==
    /\ isRinging[c]
    /\ isRinging' = [isRinging EXCEPT ![c] = FALSE]
    /\ rung' = [rung EXCEPT ![c] = "none"]

(* Variation: the generator stays connected. *)
StopRingingToneOn(c, bad) ==
    /\ Fallen(c)
    /\ count' = [t \in Tune |-> IF count[t] = 1 THEN 0 ELSE count[t]]
    /\ UNCHANGED playing

(* Variation: the incoming tone only. *)
StopRingingIncoming(c, bad) ==
    /\ Fallen(c)
    /\ count' = [count EXCEPT !["Ringing"] = IF @ = 1 THEN 0 ELSE @]
    /\ playing' = IF count["Ringing"] = 1 THEN playing \ {"Ringing"} ELSE playing

(* TinyPhone::StopRinging for a call that rings; for another it does       *)
(* nothing.  The function is not told which tune the call rings with; it   *)
(* takes down every counter that stands at one, and then disconnects its   *)
(* generator.  One try stands around both tunes: when the first generator  *)
(* throws, the second is not looked at.                                    *)
ThrowsFirst(bad) == count["Ringing"] - 1 = 0 /\ "Ringing" \in bad
Tested(bad) == IF ThrowsFirst(bad) THEN {"Ringing"} ELSE Tune
TakenDown(bad) == {t \in Tested(bad) : count[t] - 1 = 0}

StopRinging(c, bad) ==
    /\ Fallen(c)
    /\ count' = [t \in Tune |-> IF t \in TakenDown(bad) THEN count[t] - 1 ELSE count[t]]
    /\ playing' = playing \ (TakenDown(bad) \ bad)

(* The handlers of the calls, in any order. *)
Ring(c, tune) == \E bad \in Throwing : StartRinging(c, tune, bad)

Silence(c) == \E bad \in Throwing : StopRinging(c, bad)

RingNext == \E c \in Call : Silence(c) \/ \E tune \in Tune : Ring(c, tune)

RingSpec == RingInit /\ [][RingNext]_ringVars

-----------------------------------------------------------------------------
(* phone.cpp:431 says why the counter is tested before it is decremented:  *)
(* "otherwise can go below zero".                                          *)
CountsNotNegative == \A t \in Tune : count[t] >= 0

(* What two calls ringing together leave behind: a counter that reached    *)
(* two never comes down again, StopRinging only takes down a counter that  *)
(* is one.  The tone then plays until the program ends.                    *)
StuckTone == [][\A t \in Tune : count[t] >= 2 => count'[t] >= count[t]]_ringVars
=============================================================================
