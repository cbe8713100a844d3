------------------------------ MODULE CallApi ------------------------------
(***************************************************************************)
(* The call routes of the HTTP server (src/tinyphone/server.cpp) as a user *)
(* of the C# client (TinyphoneService.cs) meets them.  A route first looks *)
(* the call up by its id and then works with the pointer it got; what the  *)
(* user learns is what the client makes of the response.  One request is   *)
(* followed step by step.  Meanwhile everything else goes on: the requests *)
(* of other clients, each in one step, the calls and PJSIP (Calls), and    *)
(* the conference bridge (Conference).                                     *)
(***************************************************************************)
EXTENDS Conference, SipUri

CONSTANTS
    Dialled,   \* what users dial: [scheme, user, domain]
    Header,    \* what remote parties call themselves: [name, bare, user, domain, parameters]
    OwnDomain, \* SIPAccount::domain
    Nobody     \* a null pointer

VARIABLE http  \* the request

apiVars == <<confVars, http>>

(* at "undefined": the route has followed a pointer to a deleted call.     *)
(* told: what the await has just come back with.  Which route the request  *)
(* takes makes no difference before the call is found, and is chosen then. *)
Idle == [at |-> "idle", ptr |-> Nobody, text |-> <<>>, told |-> "nothing"]
Free == http.at = "idle"

ApiTypeOK ==
    /\ ConfTypeOK
    /\ http \in [at   : {"idle", "found", "dialing", "shown", "undefined"},
                 ptr  : Call \union {Nobody},
                 text : Dialled \union Header \union {<<>>},
                 told : {"nothing", "ok", "null"}]

-----------------------------------------------------------------------------
(* The client: a response with a success code becomes an object, any other *)
(* one null.  An object that says no more than that a REFER or DTMF is on  *)
(* its way, or whose status is false, tells the user "nothing".            *)
Received(code, object) == IF code \in 200 .. 299 THEN object ELSE "null"

AnswerCallAsync(code) == Received(code, "ok")
DialAsync(code) == Received(code, "ok")
HoldCallAsync(code, status) == Received(code, IF status THEN "ok" ELSE "nothing")
CreateConferenceAsync(code, status) == Received(code, IF status THEN "ok" ELSE "nothing")
SendDtmfAsync(code) == Received(code, "nothing")
TransferCallAsync(code) == Received(code, "nothing")
HangupCallAsync(code) == Received(code, "ok")

(* A wrapper whose TimeoutSeconds are over throws instead: the route, which *)
(* knows nothing of it, does the same as ever.                             *)
Told(answer) == http' = [Idle EXCEPT !.told = answer]

-----------------------------------------------------------------------------
(* TinyPhone::CallById: a call that is listed, or a null pointer. *)
CallById(s) ==
    LET hits == {c \in Call : Listed(c) /\ call[c].slot = s}
    IN  IF hits = {} THEN Nobody ELSE CHOOSE c \in hits : TRUE

Lookup(s) ==
    /\ Free
    /\ http' = IF CallById(s) = Nobody
               THEN [Idle EXCEPT !.told = Received(400, "ok")]
               ELSE [Idle EXCEPT !.at = "found", !.ptr = CallById(s)]
    /\ UNCHANGED confVars

(* The route goes on with the pointer that CallById has found before. *)
Freed(c) == call[c].obj = "deleted"
Handles(c) == http.at = "found" /\ http.ptr = c /\ ~Freed(c)

(* Nothing is said of what happens after a use of freed memory. *)
FollowsDangling ==
    /\ http.at = "found" /\ Freed(http.ptr)
    /\ http' = [Idle EXCEPT !.at = "undefined"]
    /\ UNCHANGED confVars

(* The response 500: Crow's when a route lets an exception pass, or the    *)
(* route's own.                                                            *)
Fails(answer) == Told(answer) /\ UNCHANGED confVars

(* PJSIP sends a second 200 for a call it has just answered, or refuses.   *)
AnswerRoute(c) ==
    /\ Handles(c)
    /\ IF Ongoing(c) /\ call[c].incoming /\ call[c].inv = "EARLY"
       THEN AnswerWith200(c) /\ PortsFollow /\ Told(AnswerCallAsync(200))
       ELSE \/ Fails(AnswerCallAsync(500))
            \/ call[c].inv = "CONNECTING" /\ Told(AnswerCallAsync(200)) /\ UNCHANGED confVars

HoldRoute(c) ==
    /\ Handles(c)
    /\ IF HoldThrows(c)
       THEN Fails(HoldCallAsync(500, FALSE))
       ELSE /\ call' = IF Holds(c) THEN [call EXCEPT ![c].reinvite = "hold"] ELSE call
            /\ Told(HoldCallAsync(202, Holds(c)))
            /\ UNCHANGED <<calls, timers, toneVars, bridge>>

UnHoldRoute(c) ==
    /\ Handles(c)
    /\ IF UnHoldThrows(c)
       THEN Fails(HoldCallAsync(500, FALSE))
       ELSE /\ call' = IF UnHolds(c) THEN [call EXCEPT ![c].reinvite = "unhold"] ELSE call
            /\ Told(HoldCallAsync(202, UnHolds(c)))
            /\ UNCHANGED <<calls, timers, toneVars, bridge>>

(* Variation: the hold is looked at after the calls have been connected.   *)
ConferenceRouteLate(c) ==
    /\ Handles(c)
    /\ IF InfoThrows(c)
       THEN Fails(CreateConferenceAsync(500, FALSE))
       ELSE \E ok \in BOOLEAN :
              /\ Conference(c, ok)
              /\ IF UnHolds(c)
                 THEN Told(CreateConferenceAsync(400, FALSE))
                 ELSE Told(CreateConferenceAsync(200, ok))
              /\ UNCHANGED <<calls, timers, toneVars>>

(* HoldState of the call is looked at first; a call on local hold is       *)
(* refused with 400.                                                       *)
ConferenceRoute(c) ==
    /\ Handles(c)
    /\ IF InfoThrows(c)
       THEN Fails(CreateConferenceAsync(500, FALSE))
       ELSE IF UnHolds(c)
       THEN Fails(CreateConferenceAsync(400, FALSE))
       ELSE \E ok \in BOOLEAN :
              /\ Conference(c, ok)
              /\ Told(CreateConferenceAsync(200, ok))
              /\ UNCHANGED <<calls, timers, toneVars>>

BreakRoute(c) ==
    /\ Handles(c)
    /\ IF InfoThrows(c)
       THEN Fails(CreateConferenceAsync(500, FALSE))
       ELSE \E ok \in BOOLEAN :
              /\ BreakConference(c, ok)
              /\ Told(CreateConferenceAsync(200, ok))
              /\ UNCHANGED <<calls, timers, toneVars>>

(* REFER, with Replaces for the attended transfer, whose second call is    *)
(* found only now: the calls stay as they are until the remote party       *)
(* reports (onCallTransferStatus).                                         *)
TransferRoute(c) ==
    /\ Handles(c)
    /\ \E code \in IF InfoThrows(c) THEN {500} ELSE {202, 500} : Told(TransferCallAsync(code))
    /\ UNCHANGED confVars

AttendedTransferRoute(c) ==
    /\ Handles(c)
    /\ \E t \in Slot, code \in {200, 400, 500} :
          /\ code = 400 <=> CallById(t) = Nobody
          /\ code = 200 => ~InfoThrows(c) /\ ~InfoThrows(CallById(t))
          /\ Told(TransferCallAsync(code))
    /\ UNCHANGED confVars

DtmfRoute(c) ==
    /\ Handles(c)
    /\ \E code \in IF MediaThrows(c) THEN {500} ELSE {202, 500} : Told(SendDtmfAsync(code))
    /\ UNCHANGED confVars

(* Variation: the call is left alone when it is not confirmed yet. *)
HangupRouteConfirmed(c) ==
    /\ Handles(c)
    /\ IF InfoThrows(c)
       THEN Fails(HangupCallAsync(500))
       ELSE /\ call' = IF Ongoing(c) /\ call[c].inv = "CONFIRMED"
                       THEN [call EXCEPT ![c].ending = TRUE] ELSE call
            /\ Told(HangupCallAsync(202))
            /\ UNCHANGED <<calls, timers, toneVars, bridge>>

(* SIPCall::Hangup: CANCEL, BYE or a final response, whatever the state.   *)
(* Without getInfo there is only hangup(), which throws too.               *)
HangupRoute(c) ==
    /\ Handles(c)
    /\ IF InfoThrows(c)
       THEN Fails(HangupCallAsync(500))
       ELSE /\ call' = IF Ongoing(c) THEN [call EXCEPT ![c].ending = TRUE] ELSE call
            /\ Told(HangupCallAsync(202))
            /\ UNCHANGED <<calls, timers, toneVars, bridge>>

HangupAllRoute ==
    /\ Free
    /\ IF \E c \in Call : Ongoing(c)
       THEN HangupAll /\ PortsFollow
       ELSE UNCHANGED confVars
    /\ Told(HangupCallAsync(202))

-----------------------------------------------------------------------------
(* POST /dial up to makeCall.  No account is registered (400), the account *)
(* has all the calls it may have (429), PJSIP has (500), or the text is    *)
(* none that PJSIP can dial (500).  The object of a call that makeCall     *)
(* refuses is lost.                                                        *)
DialRoute(c) ==
    /\ Free /\ call[c].obj = "none"
    /\ \E code \in {400, 429, 500} :
          /\ code = 429 <=> Len(calls[AccountOf[c]]) >= MaxCalls
          /\ IF code = 500
             THEN /\ call' = [call EXCEPT ![c].obj = "leaked"]
                  /\ UNCHANGED <<calls, timers, toneVars, bridge>>
             ELSE UNCHANGED confVars
          /\ Told(DialAsync(code))

DialRouteCalls(c) ==
    /\ Free
    /\ FreeSlots # {} /\ Dial(c) /\ PortsFollow
    /\ \E text \in Dialled :
         http' = [Idle EXCEPT !.at = "dialing", !.ptr = c, !.text = text]

(* The rest of the route.  getInfo throws when the event of a call that    *)
(* has ended already could not be published.                               *)
DialRouteReturns(c) ==
    /\ http.at = "dialing" /\ http.ptr = c
    /\ DialReturns(c) /\ PortsFollow
    /\ Told(DialAsync(IF HoldOthersThrows(c) \/ InfoThrows(c) THEN 500 ELSE 202))

(* GET /calls: what it shows of a call. *)
CallsRoute ==
    /\ Free
    /\ \E c \in Call : Listed(c) /\ ~InfoThrows(c)
    /\ \E text \in Header :
         http' = [Idle EXCEPT !.at = "shown", !.text = text]
    /\ UNCHANGED confVars

GetCallsAsync ==
    /\ http.at = "shown"
    /\ Told(Received(200, "ok"))
    /\ UNCHANGED confVars

-----------------------------------------------------------------------------
(* onCallTransferStatus with a 2xx: the call has been transferred. *)
TransferStatus(c) ==
    /\ Ongoing(c) /\ call[c].inv = "CONFIRMED"
    /\ call' = [call EXCEPT ![c].ending = TRUE]
    /\ UNCHANGED <<calls, timers, toneVars>>

(* All that is not a step of the request. *)
Elsewhere ==
    /\ \/ \E c \in Call : \/ User(c) \/ Remote(c) \/ ReinviteAnswered(c) \/ TransferStatus(c)
                          \/ Disconnected(c) \/ CallRemoved(c)
                          \/ http.ptr # c /\ DialReturns(c)
       \/ \E t \in timers : TimedAnswer(t)
       \/ HangupAll
    /\ PortsFollow
    /\ http' = [http EXCEPT !.told = "nothing"]

Route(c) ==
    \/ AnswerRoute(c) \/ HoldRoute(c) \/ UnHoldRoute(c) \/ ConferenceRoute(c) \/ BreakRoute(c)
    \/ TransferRoute(c) \/ AttendedTransferRoute(c) \/ DtmfRoute(c) \/ HangupRoute(c)
    \/ DialRoute(c) \/ DialRouteCalls(c) \/ DialRouteReturns(c)

ApiInit == Init /\ bridge = {} /\ http = Idle

ApiNext ==
    /\ http.at # "undefined" /\ Defined
    /\ \/ \E s \in Slot : Lookup(s)
       \/ \E c \in Call : Route(c)
       \/ FollowsDangling \/ HangupAllRoute \/ CallsRoute \/ GetCallsAsync
       \/ Elsewhere

ApiSpec == ApiInit /\ [][ApiNext]_apiVars

-----------------------------------------------------------------------------
(* A client that is told of a success finds it done.  What it has asked    *)
(* for has been sent, a conference joins the call to every other one       *)
(* listed, a broken one leaves nothing of it and holds the others, a       *)
(* dialled call is in the list.  This relates the loops of phone.cpp, what *)
(* they make of an exception included, to the answers of                   *)
(* TinyphoneService.cs.                                                    *)
Joined(c) == \A d \in Call \ {c} : Listed(d) => Both(c, {d}) \subseteq bridge'
Apart(c) == /\ \A l \in bridge' : c \notin Pair(l)
            /\ \A d \in Call \ {c} : Listed(d) /\ Holds(d) => call'[d].reinvite = "hold"
SuccessIsDone ==
    [][http'.told = "ok" => \A c \in {http.ptr} \ {Nobody} :
         /\ call'[c].inv # "EARLY" \/ ~AnswerRoute(c)
         /\ call'[c].reinvite = "hold" \/ ~HoldRoute(c)
         /\ call'[c].reinvite = "unhold" \/ ~UnHoldRoute(c)
         /\ call'[c].ending \/ call'[c].inv = "DISCONNECTED" \/ ~HangupRoute(c)
         /\ Joined(c) \/ ~ConferenceRoute(c)
         /\ Apart(c) \/ ~BreakRoute(c)
         /\ c \in Range(calls'[AccountOf[c]]) \/ ~DialRouteReturns(c)]_apiVars

(* A client that gets null may try again: nothing has been done.  The one  *)
(* exception is /dial, which can answer 500 for a call that goes on.       *)
NullChangesNothing ==
    [][http'.told = "null" /\ http.at = "found" => UNCHANGED confVars]_apiVars

(* What the user dials is what /calls shows, and a remote party is shown   *)
(* as it calls itself, but for one thing: where there is no name before    *)
(* the bracket, the length that ParseSIPURI takes is negative, and the     *)
(* address is shown for a name (GetSIPURI, AddTransportSuffix and          *)
(* ParseSIPURI, utils.cpp).                                                *)
ShownAsTyped ==
    /\ http.at = "dialing" =>
         DialledIsShown(http.text.scheme, http.text.user, http.text.domain, OwnDomain)
    /\ http.at = "shown" =>
         CallerIsShown(http.text.name, http.text.bare, http.text.user, http.text.domain,
                       http.text.parameters)
=============================================================================
