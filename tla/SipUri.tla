-------------------------------- MODULE SipUri --------------------------------
(***************************************************************************)
(* SIP addresses as tinyphone handles them (src/tinyphone/utils.cpp):      *)
(* GetSIPURI completes what the user dials, AddTransportSuffix is applied  *)
(* to it before makeCall, ParseSIPURI takes the remote address of a call   *)
(* apart for /calls and for the events.  A text is a sequence of           *)
(* characters; the scheme "sip:" is one token of it, which stands first or *)
(* behind characters only, so that offsets before it count characters.     *)
(***************************************************************************)
EXTENDS Integers, SequencesExt

CONSTANTS
    Transport,  \* ApplicationConfig.transport
    Unknown     \* the display name "unknown", in any case

ASSUME SipUriAssumption == Transport \in {"udp", "tcp", "tls"}

(* boost::to_lower, where it matters. *)
Lower(text) == [i \in DOMAIN text |-> IF text[i] = "SIP:" THEN "sip:" ELSE text[i]]

(* std::string::find(token, from) with offsets from zero: -1 if not found. *)
Find(text, token, from) ==
    LET hits == {i \in DOMAIN text : i > from /\ text[i] = token}
    IN  IF hits = {} THEN -1 ELSE Min(hits) - 1

(* std::string::substr(from, length): a negative length is a huge size_t.  *)
SubStr(text, from, length) ==
    SubSeq(text, from + 1, IF length < 0 THEN Len(text) ELSE Min({from + length, Len(text)}))
From(text, from) == SubStr(text, from, -1)

AddTransportSuffix(text) ==
    IF Transport = "udp" THEN text ELSE text \o <<";", Transport>>

(* Variation: the domain of the account is appended in any case. *)
GetSIPURIAlwaysDomain(text, domain) ==
    (IF Find(Lower(text), "sip:", 0) = -1 THEN <<"sip:">> ELSE <<>>) \o text \o <<"@", domain>>

GetSIPURI(text, domain) ==
    (IF Find(Lower(text), "sip:", 0) = -1 THEN <<"sip:">> ELSE <<>>) \o text
      \o (IF Find(Lower(text), "@", 0) = -1 THEN <<"@", domain>> ELSE <<>>)

-----------------------------------------------------------------------------
(* The name stands between a quote and the three characters before the    *)
(* scheme: quote, blank, bracket.  Where there is a bracket only, the      *)
(* length is negative, and the name is all that follows the bracket.       *)
NameBefore(text, scheme) ==
    IF scheme <= 0 THEN <<>>
    ELSE LET name == SubStr(text, 1, scheme - 4) IN IF name = Unknown THEN <<>> ELSE name

(* The domain ends at the parameters or else at the headers. *)
DomainEnd(rest) ==
    IF Find(rest, ";", 0) >= 0 THEN Find(rest, ";", 0) ELSE Find(rest, "?", 0)

(* A text without "@" has no user, one without a scheme starts with it.    *)
ParseSIPURI(in) ==
    LET text   == IF Last(in) = ">" THEN Front(in) ELSE in
        scheme == Find(text, "sip:", 0)
        body   == From(text, scheme + 1)
        at     == Find(body, "@", 0)
        rest   == From(body, at + 1)
        end    == DomainEnd(rest)
    IN  [name       |-> NameBefore(text, scheme),
         user       |-> IF at < 0 THEN <<>> ELSE SubStr(body, 0, at),
         domain     |-> SubStr(rest, 0, end),
         parameters |-> IF end < 0 THEN <<>> ELSE From(rest, end)]

-----------------------------------------------------------------------------
(* The grammar: addresses built from their parts. *)
Scheme == {<<>>, <<"sip:">>}
Address(scheme, user, domain, parameters) ==
    scheme \o user \o (IF domain = <<>> THEN <<>> ELSE <<"@">> \o domain) \o parameters
(* The From of a message: with a name, without one, or bare. *)
NameAddress(name, bare, address) ==
    IF name # <<>> THEN <<"q">> \o name \o <<"q", " ", "<">> \o address \o <<">">>
    ELSE IF bare THEN address ELSE <<"<">> \o address \o <<">">>

(* What the user has typed is what the list of calls shows: the user part, *)
(* and the domain that was typed or else the one of the account.           *)
DialledIsShown(scheme, user, domain, own) ==
    LET dialled == GetSIPURI(Address(scheme, user, domain, <<>>), own)
        shown   == ParseSIPURI(AddTransportSuffix(dialled))
    IN  /\ shown.user = user
        /\ shown.domain = IF domain = <<>> THEN <<own>> ELSE domain

(* What the remote party says of itself is what is shown of it.  One that  *)
(* has no name and stands in brackets is shown with its address for a name. *)
CallerIsShown(name, bare, user, domain, parameters) ==
    LET address == Address(<<"sip:">>, user, domain, parameters)
        shown   == ParseSIPURI(NameAddress(name, bare, address))
    IN  shown = [name       |-> IF name = <<>> /\ ~bare THEN address
                                ELSE IF name = Unknown THEN <<>> ELSE name,
                 user       |-> user,
                 domain     |-> domain,
                 parameters |-> parameters]
=============================================================================
