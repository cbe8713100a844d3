--------------------------- MODULE RingtoneThreads ---------------------------
(***************************************************************************)
(* StartRinging and StopRinging of src/tinyphone/phone.cpp statement by    *)
(* statement.  They run in the callbacks of a call: on a PJSIP worker      *)
(* thread (pjThreadCount of them), on a thread of the HTTP server that     *)
(* answers or hangs up, or on the timer of TimedAnswer.  The handlers of   *)
(* one call exclude each other (PJSIP holds the lock of its dialog), those *)
(* of two calls do not, and neither function takes a lock.                 *)
(*                                                                         *)
(* The counters are plain ints, so ++ is a load and a store.  The test of  *)
(* StopRinging and its decrement are a load and a store too when the       *)
(* compiler keeps the loaded value (it then stores a zero), and two loads  *)
(* and a store when it does not (the Linux build sets no optimisation).    *)
(*                                                                         *)
(* Connecting and disconnecting a generator may throw.  Which of them will *)
(* throw for a handler, should it get there, is chosen when it begins.     *)
(***************************************************************************)
EXTENDS Integers, FiniteSets

CONSTANTS
    Call,        \* the SIPCall objects
    Threads,     \* how many handlers may be under way at the same time
    MaxCount,    \* bound on either counter
    ToneMayFail  \* startTransmit and stopTransmit of a generator may throw

Tune == {"Ringing", "RingBack"}

VARIABLES
    isRinging,  \* SIPCall::isRinging
    rung,       \* ghost: the tune a call rings with
    count,      \* TinyPhone::ringing_count and ringback_count
    playing,    \* the generators connected to the playback device
    pc,         \* the next statement of the call's handler
    loaded,     \* the value its ++ has loaded
    throwing    \* the generators that will throw

vars == <<isRinging, rung, count, playing, pc, loaded, throwing>>

Init ==
    /\ isRinging = [c \in Call |-> FALSE]
    /\ rung = [c \in Call |-> "none"]
    /\ count = [t \in Tune |-> 0]
    /\ playing = {}
    /\ pc = [c \in Call |-> "idle"]
    /\ loaded = [c \in Call |-> 0]
    /\ throwing = [c \in Call |-> {}]

Busy == {c \in Call : pc[c] # "idle"}
Goto(c, label) == pc' = [pc EXCEPT ![c] = label]
Throwing == IF ToneMayFail THEN SUBSET Tune ELSE {{}}
Fate(c) == \E bad \in Throwing : throwing' = [throwing EXCEPT ![c] = bad]
MayBegin(c) == c \notin Busy /\ Cardinality(Busy) < Threads

-----------------------------------------------------------------------------
(* if (call->isRinging == PJ_FALSE) { call->isRinging = PJ_TRUE; ...       *)
StartRinging(c, tune) ==
    /\ MayBegin(c)
    /\ ~isRinging[c]
    /\ count[tune] + Cardinality(Busy) < MaxCount
    /\ isRinging' = [isRinging EXCEPT ![c] = TRUE]
    /\ rung' = [rung EXCEPT ![c] = tune]
    /\ Fate(c)
    /\ Goto(c, "load")
    /\ UNCHANGED <<count, playing, loaded>>

(* int count = ++ringback_count (or ++ringing_count) *)
Load(c) ==
    /\ pc[c] = "load"
    /\ loaded' = [loaded EXCEPT ![c] = count[rung[c]] + 1]
    /\ Goto(c, "store")
    /\ UNCHANGED <<isRinging, rung, count, playing, throwing>>

(* the store of that ++, and if (count == 1) *)
Store(c) ==
    /\ pc[c] = "store"
    /\ count' = [count EXCEPT ![rung[c]] = loaded[c]]
    /\ Goto(c, IF loaded[c] = 1 THEN "connect" ELSE "idle")
    /\ UNCHANGED <<isRinging, rung, playing, loaded, throwing>>

(* ringingTone->startTransmit(play_med), or ringbackTone; the catch ends   *)
(* the function.                                                           *)
Connect(c) ==
    /\ pc[c] = "connect"
    /\ playing' = IF rung[c] \in throwing[c] THEN playing ELSE playing \union {rung[c]}
    /\ Goto(c, "idle")
    /\ UNCHANGED <<isRinging, rung, count, loaded, throwing>>

-----------------------------------------------------------------------------
(* if (call->isRinging) { call->isRinging = PJ_FALSE; ...                  *)
StopRinging(c) ==
    /\ MayBegin(c)
    /\ isRinging[c]
    /\ isRinging' = [isRinging EXCEPT ![c] = FALSE]
    /\ rung' = [rung EXCEPT ![c] = "none"]
    /\ Fate(c)
    /\ Goto(c, "testRinging")
    /\ UNCHANGED <<count, playing, loaded>>

TestOf(t) == IF t = "Ringing" THEN "testRinging" ELSE "testRingBack"
DecOf(t) == IF t = "Ringing" THEN "decRinging" ELSE "decRingBack"
After(t) == IF t = "Ringing" THEN "testRingBack" ELSE "idle"

(* if (ringing_count - 1 == 0), and the same for ringback_count *)
Test(c, t) ==
    /\ pc[c] = TestOf(t)
    /\ Goto(c, IF count[t] - 1 = 0 THEN DecOf(t) ELSE After(t))
    /\ UNCHANGED <<isRinging, rung, count, playing, loaded, throwing>>

(* { --ringing_count; ringingTone->stopTransmit(play_med); }: the catch is  *)
(* behind both tunes, a generator that throws ends the function.           *)
Decrement(c, t) ==
    /\ pc[c] = DecOf(t)
    /\ \E kept \in {0, count[t] - 1} : count' = [count EXCEPT ![t] = kept]
    /\ IF t \in throwing[c]
       THEN UNCHANGED playing /\ Goto(c, "idle")
       ELSE playing' = playing \ {t} /\ Goto(c, After(t))
    /\ UNCHANGED <<isRinging, rung, loaded, throwing>>

Next == \E c \in Call :
    \/ StopRinging(c)
    \/ Load(c)
    \/ Store(c)
    \/ Connect(c)
    \/ \E t \in Tune : StartRinging(c, t) \/ Test(c, t) \/ Decrement(c, t)

Spec == Init /\ [][Next]_vars

-----------------------------------------------------------------------------
(* phone.cpp:431: "test and then decrement, otherwise can go below zero".  *)
CountsNotNegative == \A t \in Tune : count[t] >= 0

(* What the counters and the generators will be when the handler that is   *)
(* under way has ended, if it is the only one.                             *)
Rising(t) == \E c \in Call : pc[c] \in {"load", "store"} /\ rung[c] = t
Connecting(t) == \E c \in Call : /\ pc[c] = "connect" \/ (pc[c] \in {"load", "store"} /\ count[t] = 0)
                                /\ rung[c] = t /\ t \notin throwing[c]

(* The counters that the handler of c has still to test, or to take down.  *)
ThrowsFirst(c) == count["Ringing"] = 1 /\ "Ringing" \in throwing[c]
ToTest(c, t) ==
    \/ pc[c] = "testRinging" /\ (t = "RingBack" => ~ThrowsFirst(c))
    \/ pc[c] = "decRinging" /\ t = "RingBack" /\ "Ringing" \notin throwing[c]
    \/ pc[c] = "testRingBack" /\ t = "RingBack"
Falls(c, t) == pc[c] = DecOf(t) \/ (ToTest(c, t) /\ count[t] = 1)
Falling(t) == \E c \in Call : Falls(c, t)
Disconnecting(t) == \E c \in Call : Falls(c, t) /\ t \notin throwing[c]

FinalCount == [t \in Tune |-> IF Falling(t) THEN 0 ELSE IF Rising(t) THEN count[t] + 1 ELSE count[t]]
FinalPlaying == {t \in Tune : (t \in playing \/ Connecting(t)) /\ ~Disconnecting(t)}

(* When no two handlers overlap, what their statements do amounts to the   *)
(* single steps of Ringtones, which Calls is made of: a handler takes      *)
(* effect with its first statement, and the others carry it out.           *)
Handlers == INSTANCE Ringtones WITH count <- FinalCount, playing <- FinalPlaying
ImplementsRingtones == Handlers!RingSpec
=============================================================================
