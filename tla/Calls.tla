-------------------------------- MODULE Calls --------------------------------
(***************************************************************************)
(* The calls of a tinyphone: the vector SIPAccount::calls of each account, *)
(* the SIPCall objects in it, and the handlers that run on them            *)
(* (src/tinyphone/call.cpp, account.cpp, phone.cpp, the call routes of     *)
(* server.cpp).  A step is one handler, from entry to return, but for the  *)
(* two handlers that leave the others time to run in the middle:           *)
(*                                                                         *)
(*   - MakeCall runs on a thread of the HTTP server.  Once makeCall has    *)
(*     sent the INVITE the callbacks of the call run on PJSIP's threads,   *)
(*     and only then is the call put into the vector;                      *)
(*   - onCallState(DISCONNECTED) plays a tone for one second (onCallEnd)   *)
(*     before it takes the call out of the vector and deletes it.          *)
(*                                                                         *)
(* What PJSIP and the remote party do is the environment: the state of the *)
(* INVITE session, the media state, the re-INVITE under way and the slot   *)
(* (call id) of each call change as PJSIP's callbacks say they may.        *)
(***************************************************************************)
EXTENDS Tones, FiniteSetsExt, SequencesExt

CONSTANTS
    Account,          \* the SIPAccount objects
    AccountOf,        \* SIPCall::account, fixed when the object is built
    Slot,             \* PJSIP's call ids, ApplicationConfig.maxCalls of them
    AutoAnswer,       \* ApplicationConfig.autoAnswer
    AnswerDelay,      \* ApplicationConfig.autoAnswerDelay > 0
    AutoUnHold,       \* ApplicationConfig.autoUnHold
    DeviceRefresh,    \* ApplicationConfig.autoDeviceRefresh
    PublishMayFail,   \* EventStream::publishEvent may throw
    DeviceMayFail,    \* connecting a call to the sound device may throw
    ToneOutlastsDial, \* the one second tone, when it plays, is longer than the rest of MakeCall
    Agreed,           \* what offer and answer may make of the media of a call, holds of ours aside
    NoSlot            \* PJSUA_INVALID_ID

ASSUME CallsAssumption ==
    /\ AccountOf \in [Call -> Account]
    /\ NoSlot \notin Slot
    /\ Agreed \subseteq {"ACTIVE", "REMOTE_HOLD", "NONE"}
    /\ {AutoAnswer, AnswerDelay, AutoUnHold, DeviceRefresh, PublishMayFail, DeviceMayFail,
        ToneOutlastsDial} \subseteq BOOLEAN

VARIABLES
    calls,   \* SIPAccount::calls of each account
    call,    \* each SIPCall object and the PJSIP call under it
    timers   \* the TimedAnswers scheduled, each with its slot and (ghost) its call

vars == <<calls, call, timers, toneVars>>

(* obj: "none" before new, "leaked" when nothing will delete it any more.  *)
(* inv, media, reinvite, slot: PJSIP's.  ending: BYE, CANCEL or a final    *)
(* response has been sent, the session is not over yet.  dialing: MakeCall *)
(* has not returned.  Media "NONE" is PJSIP's status of a call without     *)
(* audio, which the code treats like local hold; "ACTIVE" stands for ERROR *)
(* too, which it does not tell apart.  lost is a ghost: the handler of the *)
(* call's end has come before MakeCall was done ("late"), or could not     *)
(* publish its event ("unpublished").                                      *)
CallState == [
    obj      : {"none", "live", "deleted", "leaked"},
    incoming : BOOLEAN,
    inv      : {"NULL", "CALLING", "EARLY", "CONNECTING", "CONFIRMED", "DISCONNECTED"},
    media    : {"absent", "NONE", "ACTIVE", "LOCAL_HOLD", "REMOTE_HOLD"},
    reinvite : {"none", "hold", "unhold"},
    slot     : Slot \union {NoSlot},
    ending   : BOOLEAN,
    dialing  : BOOLEAN,
    lost     : {"no", "late", "unpublished"}]

(* Variation: a new call starts with call id 0. *)
UnbornWithIdZero == [obj |-> "none", incoming |-> FALSE, inv |-> "NULL", media |-> "absent",
           reinvite |-> "none", slot |-> 0, ending |-> FALSE, dialing |-> FALSE, lost |-> "no"]

Unborn == [obj |-> "none", incoming |-> FALSE, inv |-> "NULL", media |-> "absent",
           reinvite |-> "none", slot |-> NoSlot, ending |-> FALSE, dialing |-> FALSE, lost |-> "no"]

TypeOK ==
    /\ ToneTypeOK
    /\ calls \in [Account -> Seq(Call)]
    /\ call \in [Call -> CallState]
    /\ timers \subseteq [slot : Slot, for : Call]

Init ==
    /\ ToneInit
    /\ calls = [a \in Account |-> <<>>]
    /\ call = [c \in Call |-> Unborn]
    /\ timers = {}

-----------------------------------------------------------------------------
(* The calls of the accounts, as the handlers see them. *)
Listed(c) == c \in Range(calls[AccountOf[c]])
InfoThrows(c) == call[c].slot = NoSlot      \* getInfo() of a call PJSIP has forgotten
FreeSlots == Slot \ {call[c].slot : c \in Call}
Ongoing(c) == /\ call[c].inv \in {"CALLING", "EARLY", "CONNECTING", "CONFIRMED"}
              /\ ~call[c].ending
Publishes == IF PublishMayFail THEN BOOLEAN ELSE {TRUE}
DeviceFails == IF DeviceMayFail THEN BOOLEAN ELSE {FALSE}

(* SIPCall::HoldState and what HoldCall and UnHoldCall do with it.  PJSIP  *)
(* refuses a second re-INVITE while one is under way: pj::Error.           *)
OnHold(c) == call[c].inv = "CONFIRMED" /\ call[c].media \in {"NONE", "LOCAL_HOLD", "REMOTE_HOLD"}
Holds(c) == call[c].inv = "CONFIRMED" /\ call[c].media \in {"ACTIVE", "REMOTE_HOLD"}
UnHolds(c) == call[c].inv = "CONFIRMED" /\ call[c].media \in {"NONE", "LOCAL_HOLD"}
HoldThrows(c) == InfoThrows(c) \/ (Holds(c) /\ call[c].reinvite # "none")
UnHoldThrows(c) == InfoThrows(c) \/ (UnHolds(c) /\ call[c].reinvite # "none")

(* The loops over the calls of the account skip the call itself. *)
Sibling(c, i) == calls[AccountOf[c]][i]
Siblings(c) == {i \in DOMAIN calls[AccountOf[c]] : Sibling(c, i) # c}

(* Variation: the first call that can be held, and no further. *)
HeldBeforeFirst(c) ==
    LET hits == {i \in Siblings(c) : Holds(Sibling(c, i))}
    IN  IF hits = {} THEN {} ELSE {Sibling(c, Min(hits))}

(* SIPAccount::onCallEstablished: the loop over the other calls ends with  *)
(* the first HoldCall that throws; those before it are being held.         *)
HoldOthersThrows(c) == \E i \in Siblings(c) : HoldThrows(Sibling(c, i))
HeldBefore(c) ==
    {d \in Call :
        /\ Holds(d)
        /\ \E i \in Siblings(c) :
             Sibling(c, i) = d /\ \A j \in Siblings(c) : j <= i => ~HoldThrows(Sibling(c, j))}

(* The calls in held get their hold re-INVITE, c becomes new. *)
WithHeld(held, c, new) ==
    [d \in Call |-> IF d = c THEN new
                    ELSE IF d \in held THEN [call[d] EXCEPT !.reinvite = "hold"]
                    ELSE call[d]]

-----------------------------------------------------------------------------
(* POST /dial and TinyPhone::MakeCall up to makeCall.  The limit counts    *)
(* the calls in the vector of the account; PJSIP's own, the slots, covers  *)
(* all accounts, and makeCall throws when it is reached: the object is     *)
(* lost.                                                                   *)
MaxCalls == Cardinality(Slot)

Dial(c) ==
    /\ call[c].obj = "none"
    /\ Len(calls[AccountOf[c]]) < MaxCalls
    /\ IF FreeSlots = {}
       THEN call' = [call EXCEPT ![c].obj = "leaked"]
       ELSE \E s \in FreeSlots :
              call' = [call EXCEPT ![c] = [@ EXCEPT !.obj = "live", !.inv = "CALLING",
                                                    !.slot = s, !.dialing = TRUE]]
    /\ UNCHANGED <<calls, timers, toneVars>>

(* Variation: the call is never put into the vector. *)
DialReturnsUnlisted(c) ==
    /\ call[c].dialing
    /\ call' = [call EXCEPT ![c].dialing = FALSE]
    /\ UNCHANGED <<calls, timers, toneVars>>

(* The rest of MakeCall: push_back and onCallEstablished.  When a HoldCall *)
(* throws, the route answers 500 although the call goes on.                *)
DialReturns(c) ==
    /\ call[c].dialing
    /\ calls' = [calls EXCEPT ![AccountOf[c]] = Append(@, c)]
    /\ call' = WithHeld(HeldBefore(c), c, [call[c] EXCEPT !.dialing = FALSE])
    /\ UNCHANGED <<timers, toneVars>>

(* SIPAccount::onIncomingCall.  An exception (from publishEvent, or from   *)
(* the HoldCall of another call) hangs the new call up.                    *)
IncomingCall(c) ==
    /\ call[c].obj = "none"
    /\ \E s \in FreeSlots, published \in Publishes, failed \in DeviceFails :
         LET new == [Unborn EXCEPT !.obj = "live", !.incoming = TRUE, !.slot = s,
                                   !.inv = "EARLY"]
             answered == [new EXCEPT !.inv = "CONNECTING", !.media = "ACTIVE"]
         IN  IF ~published
             THEN /\ call' = [call EXCEPT ![c] = [new EXCEPT !.ending = TRUE]]
                  /\ UNCHANGED <<calls, timers, toneVars>>
             ELSE /\ calls' = [calls EXCEPT ![AccountOf[c]] = Append(@, c)]
                  /\ IF AutoAnswer /\ ~AnswerDelay
                     THEN /\ call' = WithHeld(HeldBefore(c), c,
                                       [answered EXCEPT !.ending = failed \/ HoldOthersThrows(c)])
                          /\ UNCHANGED <<timers, toneVars>>
                     ELSE /\ call' = [call EXCEPT ![c] = new]
                          /\ StartsRinging(c, "Ringing")
                          /\ timers' = timers \union
                               IF AutoAnswer THEN {[slot |-> s, for |-> c]} ELSE {}

-----------------------------------------------------------------------------
(* SIPCall::onCallMediaState: the tone stops, then the call is connected   *)
(* to the sound device, if it has audio; a failure hangs the call up.      *)
MediaState(c, m, inv, reinvite) ==
    /\ StopsRinging(c)
    /\ \E failed \in IF m = "NONE" THEN {FALSE} ELSE DeviceFails :
         call' = [call EXCEPT ![c] = [@ EXCEPT !.media = m, !.inv = inv, !.reinvite = reinvite,
                                               !.ending = failed]]
    /\ UNCHANGED <<calls, timers>>

(* 180 from the callee.  onCallState(EARLY) rings back unless there was an *)
(* SDP before.                                                             *)
RemoteRinging(c) ==
    /\ Ongoing(c) /\ ~call[c].incoming /\ call[c].inv \in {"CALLING", "EARLY"}
    /\ call' = [call EXCEPT ![c].inv = "EARLY"]
    /\ \E published \in Publishes :
         IF published /\ call[c].media = "absent"
         THEN StartsRinging(c, "RingBack")
         ELSE UNCHANGED toneVars
    /\ UNCHANGED <<calls, timers>>

(* 183 with an SDP from the callee: early media, with audio. *)
RemoteEarlyMedia(c) ==
    /\ Ongoing(c) /\ ~call[c].incoming /\ call[c].inv \in {"CALLING", "EARLY"}
    /\ MediaState(c, "ACTIVE", "EARLY", "none")

(* 200 from the callee; PJSIP acknowledges it. *)
RemoteAnswer(c) ==
    /\ Ongoing(c) /\ ~call[c].incoming /\ call[c].inv \in {"CALLING", "EARLY"}
    /\ \E m \in Agreed : MediaState(c, m, "CONFIRMED", "none")

(* POST /calls/<id>/answer (TinyPhone::Answer): 200 to the caller.  No     *)
(* onCallEstablished: the other calls are not held.                        *)
AnswerWith200(c) ==
    /\ Ongoing(c) /\ call[c].incoming /\ call[c].inv = "EARLY"
    /\ MediaState(c, "ACTIVE", "CONNECTING", "none")

Answer(c) == Listed(c) /\ AnswerWith200(c)

(* Variation: the timer goes off and answers nothing. *)
TimedAnswerDropped(t) ==
    /\ timers' = timers \ {t}
    /\ UNCHANGED <<calls, call, toneVars>>

(* TimedAnswer: the timer knows the slot only.  It answers whatever        *)
(* incoming call rings there now.                                          *)
TimedAnswer(t) ==
    /\ timers' = timers \ {t}
    /\ IF \E c \in Call : call[c].slot = t.slot /\ Ongoing(c) /\ call[c].incoming
                          /\ call[c].inv = "EARLY"
       THEN \E c \in Call, failed \in DeviceFails :
              /\ call[c].slot = t.slot
              /\ call' = [call EXCEPT ![c] = [@ EXCEPT !.inv = "CONNECTING", !.media = "ACTIVE",
                                                       !.ending = failed]]
              /\ StopsRinging(c)
       ELSE UNCHANGED <<call, toneVars>>
    /\ UNCHANGED calls

(* The caller's ACK. *)
RemoteAck(c) ==
    /\ Ongoing(c) /\ call[c].incoming /\ call[c].inv = "CONNECTING"
    /\ call' = [call EXCEPT ![c].inv = "CONFIRMED"]
    /\ UNCHANGED <<calls, timers, toneVars>>

(* A re-INVITE of the remote party: it holds the call, resumes it, or       *)
(* takes the audio out of it.                                              *)
RemoteReinvite(c) ==
    /\ Ongoing(c) /\ call[c].inv = "CONFIRMED" /\ call[c].reinvite = "none"
    /\ call[c].media \in Agreed
    /\ \E m \in Agreed \ {call[c].media} : MediaState(c, m, "CONFIRMED", "none")

(* The answer to a re-INVITE of ours: accepted, or refused. *)
ReinviteAnswered(c) ==
    /\ Ongoing(c) /\ call[c].reinvite # "none"
    /\ \/ /\ call[c].reinvite = "hold"
          /\ \E m \in {"LOCAL_HOLD"} \union (Agreed \ {"ACTIVE", "REMOTE_HOLD"}) : MediaState(c, m, "CONFIRMED", "none")
       \/ /\ call[c].reinvite = "unhold"
          /\ \E m \in Agreed : MediaState(c, m, "CONFIRMED", "none")
       \/ /\ call' = [call EXCEPT ![c].reinvite = "none"]
          /\ UNCHANGED <<calls, timers, toneVars>>

-----------------------------------------------------------------------------
(* PUT and DELETE /calls/<id>/hold. *)
Hold(c) ==
    /\ Listed(c) /\ Ongoing(c) /\ Holds(c) /\ ~HoldThrows(c)
    /\ call' = [call EXCEPT ![c].reinvite = "hold"]
    /\ UNCHANGED <<calls, timers, toneVars>>

UnHold(c) ==
    /\ Listed(c) /\ Ongoing(c) /\ UnHolds(c) /\ ~UnHoldThrows(c)
    /\ call' = [call EXCEPT ![c].reinvite = "unhold"]
    /\ UNCHANGED <<calls, timers, toneVars>>

(* POST /calls/<id>/hangup, and onCallTransferStatus with a 2xx. *)
Hangup(c) ==
    /\ Listed(c) /\ Ongoing(c)
    /\ call' = [call EXCEPT ![c].ending = TRUE]
    /\ UNCHANGED <<calls, timers, toneVars>>

(* POST /hangup_all: PJSIP hangs up every call it has, listed or not. *)
HangupAll ==
    /\ \E c \in Call : Ongoing(c)
    /\ call' = [c \in Call |-> IF Ongoing(c) THEN [call[c] EXCEPT !.ending = TRUE] ELSE call[c]]
    /\ UNCHANGED <<calls, timers, toneVars>>

-----------------------------------------------------------------------------
(* Variation: the disconnect handler does not stop the tone. *)
DisconnectedRingsOn(c) ==
    /\ call[c].inv \in {"CALLING", "EARLY", "CONNECTING", "CONFIRMED"}
    /\ call' = [call EXCEPT ![c].inv = "DISCONNECTED", ![c].reinvite = "none", ![c].ending = FALSE]
    /\ UNCHANGED <<calls, timers, toneVars>>

(* The session ends: hung up here, by the remote party, refused, timed out. *)
(* onCallState(DISCONNECTED) publishes the event, stops the tone and plays *)
(* the end-of-call tone.  When publishEvent throws, nothing else of the    *)
(* handler runs: PJSIP forgets the call, the vector keeps it.  What was    *)
(* under way, a re-INVITE or the hang-up, is over with the session.        *)
Disconnected(c) ==
    /\ call[c].inv \in {"CALLING", "EARLY", "CONNECTING", "CONFIRMED"}
    /\ LET over == [call[c] EXCEPT !.inv = "DISCONNECTED", !.reinvite = "none", !.ending = FALSE]
       IN  \E published \in Publishes :
             IF published
             THEN /\ call' = [call EXCEPT ![c] = over]
                  /\ StopsRinging(c)
             ELSE /\ call' = [call EXCEPT ![c] = [over EXCEPT !.slot = NoSlot, !.media = "absent",
                                                             !.lost = "unpublished"]]
                  /\ UNCHANGED toneVars
    /\ UNCHANGED <<calls, timers>>

(* SIPAccount::onCallEnd: the first other call that is on hold, whoever    *)
(* put it there, is resumed; the loop stops at a getInfo that throws.      *)
Resumed(c) ==
    LET hits == {i \in Siblings(c) : OnHold(Sibling(c, i)) \/ InfoThrows(Sibling(c, i))}
    IN  IF AutoUnHold /\ hits # {} THEN {Sibling(c, Min(hits))} ELSE {}

(* Variation: the object is deleted but stays in the vector. *)
CallDeletedOnly(c) ==
    /\ call[c].inv = "DISCONNECTED" /\ call[c].obj = "live" /\ call[c].slot # NoSlot
    /\ ToneOutlastsDial => ~call[c].dialing
    /\ call' = [call EXCEPT ![c] = [@ EXCEPT !.obj = "deleted", !.slot = NoSlot]]
    /\ UNCHANGED <<calls, timers, toneVars>>

(* The rest of onCallState(DISCONNECTED): removeCall, onCallEnd of the     *)
(* account, delete this.  An error of the sound device cuts the one second *)
(* tone of SIPCall::onCallEnd short, and MakeCall may then be still at     *)
(* work on the call: it will push a pointer to what is gone.  An exception *)
(* of the account's onCallEnd, where a call is resumed and the devices are *)
(* refreshed, skips the delete.                                            *)
CallRemoved(c) ==
    /\ call[c].inv = "DISCONNECTED" /\ call[c].obj = "live" /\ call[c].slot # NoSlot
    /\ \E silent \in DeviceFails : ToneOutlastsDial /\ ~silent => ~call[c].dialing
    /\ calls' = [calls EXCEPT ![AccountOf[c]] = RemoveFirst(@, c)]
    /\ \E failed \in DeviceFails :
         LET unheld == \A d \in Resumed(c) : ~UnHoldThrows(d)
             threw == ~unheld \/ (DeviceRefresh /\ failed)
             gone == [Unborn EXCEPT !.obj = IF threw THEN "leaked" ELSE "deleted",
                                    !.inv = "DISCONNECTED", !.dialing = call[c].dialing,
                                    !.lost = IF call[c].dialing THEN "late" ELSE "no"]
         IN  call' = [d \in Call |->
                        IF d = c THEN gone
                        ELSE IF unheld /\ d \in Resumed(c) /\ UnHolds(d)
                        THEN [call[d] EXCEPT !.reinvite = "unhold"]
                        ELSE call[d]]
    /\ UNCHANGED <<timers, toneVars>>

-----------------------------------------------------------------------------
User(c) == Dial(c) \/ Answer(c) \/ Hold(c) \/ UnHold(c) \/ Hangup(c)

Remote(c) ==
    \/ IncomingCall(c)
    \/ RemoteRinging(c) \/ RemoteEarlyMedia(c) \/ RemoteAnswer(c) \/ RemoteAck(c)
    \/ RemoteReinvite(c)

(* Nothing is said of what happens once MakeCall has put a deleted call    *)
(* into the vector: the next loop over it reads freed memory.              *)
Defined == \A c \in Call : Listed(c) => call[c].obj # "deleted"

Next ==
    /\ Defined
    /\ \/ \E c \in Call : User(c) \/ Remote(c)
       \/ \E c \in Call : ReinviteAnswered(c) \/ DialReturns(c) \/ Disconnected(c) \/ CallRemoved(c)
       \/ \E t \in timers : TimedAnswer(t)
       \/ HangupAll

(* A handler that has begun ends; a timer that is set fires; a call that   *)
(* has been hung up is disconnected, PJSIP's transaction timers see to it. *)
Fairness ==
    /\ \A c \in Call : /\ WF_vars(DialReturns(c))
                       /\ WF_vars(CallRemoved(c))
                       /\ WF_vars(call[c].ending /\ Disconnected(c))
    /\ \A s \in Slot, c \in Call :
         LET t == [slot |-> s, for |-> c] IN WF_vars(t \in timers /\ TimedAnswer(t))

Spec == Init /\ [][Next]_vars /\ Fairness

-----------------------------------------------------------------------------
(* A handler finds a deleted call in a vector in one case only: its end    *)
(* was handled before MakeCall pushed it, by a onCallState whose tone did  *)
(* not hold it up for longer than MakeCall took.  Every other end of a     *)
(* call takes it out of the vector before "delete this" (call.cpp,         *)
(* onCallState), through every failure.                                    *)
ListedObjectExists ==
    \A c \in Call : Listed(c) => call[c].obj = "live" \/ call[c].lost = "late"

(* A handler finds a call in a vector that PJSIP has forgotten (getInfo of *)
(* such a call throws, in every loop over the calls of the account) in two *)
(* cases only: that one, and an event of its end that publishEvent could   *)
(* not take, when nothing takes the call out any more.                     *)
ListedIsKnownToPJSIP ==
    \A c \in Call : Listed(c) => call[c].slot # NoSlot \/ call[c].lost # "no"

(* A call that has not been hung up can be found by its id, hence answered *)
(* and hung up by the user, unless MakeCall is still at work on it.  The   *)
(* error path of onIncomingCall hangs up what it does not list.            *)
OngoingIsListed ==
    \A c \in Call : Ongoing(c) /\ ~call[c].dialing => Listed(c)

(* A call rings only before it is answered and while no media was set up:  *)
(* every way out of EARLY passes a StopRinging (onCallMediaState,          *)
(* onCallEnd), but for a publishEvent that throws when the session ends:   *)
(* such a call rings for ever.                                             *)
RingsOnlyWhileEarly ==
    \A c \in Ringers : \/ call[c].inv = "EARLY" /\ call[c].media = "absent"
                       \/ call[c].lost = "unpublished"

(* account.cpp:79, onCallEstablished: when a dial has been accepted (202), *)
(* every other confirmed call of the account is on local hold, or on its   *)
(* way there, or without audio.                                            *)
AcceptedDialHoldsOthers ==
    [][\A c \in Call : call[c].dialing /\ ~call'[c].dialing /\ ~HoldOthersThrows(c) =>
         \A d \in Range(calls[AccountOf[c]]) :
           call'[d].inv = "CONFIRMED" =>
             call'[d].media \in {"LOCAL_HOLD", "NONE"} \/ call'[d].reinvite = "hold"]_vars

(* A call that has been hung up leaves the vector: the tone of onCallEnd   *)
(* ends, and nothing before removeCall can throw once publishEvent has     *)
(* returned.                                                               *)
HungUpIsRemoved == \A c \in Call : call[c].ending ~> ~Listed(c)

(* With autoAnswer and a delay no incoming call rings forever: TimedAnswer *)
(* finds it by its slot, whatever calls used the slot before.              *)
AutoAnswered ==
    AutoAnswer /\ AnswerDelay =>
      \A c \in Call : call[c].incoming /\ call[c].inv = "EARLY" ~> call[c].inv # "EARLY"
=============================================================================
