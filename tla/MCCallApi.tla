------------------------------ MODULE MCCallApi ------------------------------
(* An instance of CallApi: three incoming calls, one of the first account  *)
(* and two of the second, have been answered, one of them without audio,   *)
(* or one call is yet to come.                                             *)
EXTENDS CallApi

CONSTANTS a1, a2, c1, c2, c3, s1, s2, s3

TwoAccounts == [c \in Call |-> IF c = c1 THEN a1 ELSE a2]

Texts == [scheme : Scheme, user : {<<"u", "v">>}, domain : {<<>>, <<"d">>}]
Party(name, bare, user, parameters) ==
    [name |-> name, bare |-> bare, user |-> user, domain |-> <<"d">>, parameters |-> parameters]
Headers ==
    {Party(<<>>, TRUE, <<"u">>, <<>>), Party(<<>>, FALSE, <<"u">>, <<";", "p">>),
     Party(<<"n">>, FALSE, <<>>, <<"?", "h">>), Party(Unknown, FALSE, <<"u">>, <<>>)}
UnknownName == <<"unknown">>

Confirmed(s, m) == [Unborn EXCEPT !.obj = "live", !.incoming = TRUE, !.inv = "CONFIRMED",
                                  !.media = m, !.slot = s]
Over == [Unborn EXCEPT !.obj = "deleted", !.inv = "DISCONNECTED"]

ThreeTalking ==
    /\ calls = (a1 :> <<c1>>) @@ (a2 :> <<c2, c3>>)
    /\ call = (c1 :> Confirmed(s1, "ACTIVE")) @@ (c2 :> Confirmed(s2, "NONE"))
                @@ (c3 :> Confirmed(s3, "ACTIVE"))
OneToCome ==
    /\ calls = [a \in Account |-> <<>>]
    /\ call = (c1 :> Over) @@ (c2 :> Over) @@ (c3 :> Unborn)
TalkInit ==
    /\ ToneInit /\ timers = {} /\ bridge = {} /\ http = Idle
    /\ ThreeTalking \/ OneToCome
TalkSpec == TalkInit /\ [][ApiNext]_apiVars
=============================================================================
