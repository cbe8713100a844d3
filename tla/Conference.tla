----------------------------- MODULE Conference -----------------------------
(***************************************************************************)
(* The conference bridge: TinyPhone::Conference and BreakConference        *)
(* (src/tinyphone/phone.cpp) walk the calls of all accounts, resume or     *)
(* hold each and connect it to, or disconnect it from, one call.  Only the *)
(* ports of calls are modelled, the sound device is port 0 of PJSIP.  What *)
(* becomes of the connections afterwards is up to PJSIP: a port goes with  *)
(* its call, and may be renewed, without its connections, when the media   *)
(* of the call change.                                                     *)
(***************************************************************************)
EXTENDS Calls

CONSTANT PortMayFail  \* the calls whose ports may refuse to be connected or disconnected

ASSUME PortAssumption == PortMayFail \subseteq Call

VARIABLE bridge  \* the pairs <<from, to>> of calls that are connected

confVars == <<vars, bridge>>

ConfTypeOK == TypeOK /\ bridge \subseteq Call \X Call

(* TinyPhone::Calls(): the vectors of the accounts one after the other, in *)
(* the order of the map.  A place is an account and an index.              *)
Rank == LET order == SetToSeq(Account) IN [a \in Account |-> CHOOSE i \in DOMAIN order : order[i] = a]
AllCalls == UNION {{a} \X DOMAIN calls[a] : a \in Account}
At(p) == calls[p[1]][p[2]]
NotAfter(p, q) == IF p[1] = q[1] THEN p[2] <= q[2] ELSE Rank[p[1]] < Rank[q[1]]

(* The loops skip what has the id of the call itself. *)
Others(c) == {p \in AllCalls : call[At(p)].slot # call[c].slot}

MediaThrows(c) == InfoThrows(c) \/ call[c].media \in {"absent", "NONE"}   \* getAudioMedia(-1)
JoinThrows(c) == UnHoldThrows(c) \/ MediaThrows(c)
LeaveThrows(c) == HoldThrows(c) \/ MediaThrows(c)

(* The others before the place q, and those that stand at some places. *)
Before(c, q) == {p \in Others(c) : NotAfter(p, q) /\ p # q}
CallsAt(places) == {At(p) : p \in places}

(* A loop ends at the first of the others for which something throws: its  *)
(* re-INVITE, its getAudioMedia, or one of the two transmissions.  The     *)
(* ways are the connections it has dealt with of the two.                  *)
StopsAt(c, q, ways, throwing) ==
    /\ CallsAt(Before(c, q)) \intersect throwing = {}
    /\ IF At(q) \in throwing THEN ways = {} ELSE At(q) \in PortMayFail

Both(c, ds) == ({c} \X ds) \union (ds \X {c})

Resume(ds) == call' = [d \in Call |-> IF d \in ds /\ UnHolds(d) /\ ~UnHoldThrows(d)
                                      THEN [call[d] EXCEPT !.reinvite = "unhold"] ELSE call[d]]
Suspend(ds) == call' = [d \in Call |-> IF d \in ds /\ Holds(d) /\ ~HoldThrows(d)
                                       THEN [call[d] EXCEPT !.reinvite = "hold"] ELSE call[d]]

(* Variation: an exception in the loop is not reported. *)
ConferenceBlind(c, ok) ==
    /\ ~MediaThrows(c) /\ ok = TRUE
    /\ LET met == {p \in Others(c) : \A r \in Others(c) : NotAfter(r, p) => ~JoinThrows(At(r))} IN
       /\ Resume(CallsAt(met))
       /\ bridge' = bridge \union Both(c, CallsAt(met))

(* ok: what the function returns.  getInfo of the call itself has not      *)
(* thrown.                                                                 *)
Conference(c, ok) ==
    \/ MediaThrows(c) /\ ok = FALSE /\ UNCHANGED <<call, bridge>>
    \/ /\ ~MediaThrows(c) /\ ok = TRUE
       /\ \A p \in Others(c) : ~JoinThrows(At(p))
       /\ Resume(CallsAt(Others(c)))
       /\ bridge' = bridge \union Both(c, CallsAt(Others(c)))
    \/ /\ ~MediaThrows(c) /\ ok = FALSE
       /\ \E q \in Others(c) : \E ways \in {{}, {<<c, At(q)>>}} :
            /\ StopsAt(c, q, ways, {d \in Call : JoinThrows(d)})
            /\ Resume(CallsAt(Before(c, q) \union {q}))
            /\ bridge' = bridge \union Both(c, CallsAt(Before(c, q))) \union ways

BreakConference(c, ok) ==
    \/ MediaThrows(c) /\ ok = FALSE /\ UNCHANGED <<call, bridge>>
    \/ /\ ~MediaThrows(c) /\ ok = TRUE
       /\ \A p \in Others(c) : ~LeaveThrows(At(p))
       /\ Suspend(CallsAt(Others(c)))
       /\ bridge' = bridge \ Both(c, CallsAt(Others(c)))
    \/ /\ ~MediaThrows(c) /\ ok = FALSE
       /\ \E q \in Others(c) : \E ways \in {{}, {<<c, At(q)>>}} :
            /\ StopsAt(c, q, ways, {d \in Call : LeaveThrows(d)})
            /\ Suspend(CallsAt(Before(c, q) \union {q}))
            /\ bridge' = (bridge \ Both(c, CallsAt(Before(c, q)))) \ ways

-----------------------------------------------------------------------------
(* PJSIP's part in a step that changes the calls. *)
Pair(l) == {l[1], l[2]}
PortsFollow ==
    LET gone == {c \in Call : call'[c].slot = NoSlot}
        changed == {c \in Call : call'[c].media # call[c].media}
    IN  \E renewed \in SUBSET changed :
          bridge' = {l \in bridge : Pair(l) \intersect (gone \union renewed) = {}}
=============================================================================
