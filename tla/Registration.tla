---------------------------- MODULE Registration ----------------------------
(***************************************************************************)
(* Logging in: POST /login, the accounts' reregister and logout            *)
(* (src/tinyphone/server.cpp), TinyPhone::AddAccount and EnableAccount     *)
(* (phone.cpp), and SIPAccount's registration (account.cpp), for one       *)
(* account name.  The promise of an account object is kept by the first    *)
(* registration result; a login with ?sync waits for it, for 30 seconds at *)
(* most, while the account may be logged out under it.  The map of the     *)
(* accounts, their mutex and user.conf are those of Accounts, so AddAccount *)
(* and Logout are one step each here.  The registrar and PJSIP's           *)
(* registration client are the environment.                                *)
(***************************************************************************)
EXTENDS AudioDevices

CONSTANTS
    Thread,    \* threads of the HTTP server
    Object,    \* the SIPAccount objects there will ever be
    Null,      \* no object
    PublishMayFail  \* EventStream::publishEvent may throw

VARIABLES
    account,  \* the entry of TinyPhone::accounts for the name
    acc,      \* the objects
    http,     \* the login request of each thread
    reply     \* the response the last step has sent, if any

regVars == <<account, acc, http, reply, deviceVars>>

Code == {200, 403, 503}

Unset == 0
Broken == -1

(* tsx: the REGISTER under way.  promise: create_result_promise, Broken    *)
(* when the object has gone without keeping it.  past: a ghost, whether    *)
(* the registrar has "accepted" a REGISTER of this object, and whether a   *)
(* result was "missed", because its event could not be published.          *)
AccState == [obj      : {"none", "live", "leaked", "deleted"},
             tsx      : {"none", "register", "unregister"},
             promise  : {Unset, Broken} \union Code,
             past     : SUBSET {"accepted", "missed"}]
Unborn == [obj |-> "none", tsx |-> "none", promise |-> Unset, past |-> {}]

Quiet == [at |-> "idle", sync |-> FALSE, obj |-> Null]

RegTypeOK ==
    /\ DevicesTypeOK
    /\ account \in Object \union {Null}
    /\ acc \in [Object -> AccState]
    /\ http \in [Thread -> [at : {"idle", "adding", "waiting"}, sync : BOOLEAN,
                            obj : Object \union {Null}]]
    /\ reply \in Nat \X Nat

RegInit ==
    /\ DevicesInit
    /\ account = Null
    /\ acc = [o \in Object |-> Unborn]
    /\ http = [t \in Thread |-> Quiet]
    /\ reply = <<0, 0>>

-----------------------------------------------------------------------------
(* Variation: a REGISTER under way is forgotten. *)
SetRegistrationAnew(o, what) == [acc EXCEPT ![o].tsx = what]

(* setRegistration: refused while a REGISTER is under way (PJSIP_EBUSY),   *)
(* which reRegister and UnRegister swallow.                                *)
SetRegistration(o, what) ==
    IF acc[o].tsx = "none" THEN [acc EXCEPT ![o].tsx = what] ELSE acc
ReRegister(o) == SetRegistration(o, "register")
UnRegister(o) == SetRegistration(o, "unregister")

(* The status code and the "result" of a response, 0 without one. *)
Tell(t, code, result) == http' = [http EXCEPT ![t] = Quiet] /\ reply' = <<code, result>>
Silent == reply' = <<0, 0>>

(* A LoginRequest of the C# client: a field its user leaves out is sent as *)
(* null, and AccountConfig's from_json takes strings only.                 *)
Parses(client, omits) == ~(client = "C#" /\ omits)

(* The route up to AddAccount.  The C# client never asks for ?sync.  Every *)
(* login under way can still have an object.                               *)
LoginRoute(t) ==
    /\ http[t].at = "idle"
    /\ Cardinality({u \in Thread : http[u].at = "adding"})
         < Cardinality({o \in Object : acc[o].obj = "none"})
    /\ \E client \in {"C#", "other"}, omits \in BOOLEAN :
         \/ ~Parses(client, omits) /\ Tell(t, 400, 0) /\ UNCHANGED acc
         \/ /\ Parses(client, omits) /\ account # Null
            /\ \/ TRUE \in DeviceTests /\ Tell(t, 200, 200) /\ acc' = ReRegister(account)
               \/ FALSE \in DeviceTests /\ Tell(t, 202, 202) /\ UNCHANGED acc
         \/ /\ Parses(client, omits) /\ account = Null
            /\ UNCHANGED acc
            /\ \/ Tell(t, 403, 0)
               \/ \E sync \in IF client = "C#" THEN {FALSE} ELSE BOOLEAN :
                    http' = [http EXCEPT ![t] = [Quiet EXCEPT !.at = "adding", !.sync = sync]] /\ Silent
    /\ UNCHANGED <<account, deviceVars>>

(* AddAccount: the name has come up meanwhile (500), the device test fails *)
(* (500 with result 503), PJSIP refuses the account (500, the object is    *)
(* lost), or the first REGISTER goes out.                                  *)
AddAccount(t) ==
    /\ http[t].at = "adding"
    /\ \/ account # Null /\ Tell(t, 500, 0) /\ UNCHANGED <<account, acc>>
       \/ account = Null /\ FALSE \in DeviceTests /\ Tell(t, 500, 503) /\ UNCHANGED <<account, acc>>
       \/ /\ account = Null /\ TRUE \in DeviceTests
          /\ \E o \in Object :
               /\ acc[o].obj = "none"
               /\ \/ acc' = [acc EXCEPT ![o].obj = "leaked"] /\ Tell(t, 500, 0) /\ UNCHANGED account
                  \/ /\ acc' = [acc EXCEPT ![o] = [@ EXCEPT !.obj = "live", !.tsx = "register"]]
                     /\ account' = o
                     /\ IF http[t].sync
                        THEN http' = [http EXCEPT ![t] = [@ EXCEPT !.at = "waiting", !.obj = o]] /\ Silent
                        ELSE Tell(t, 202, 0)
    /\ UNCHANGED deviceVars

(* wait_for(30 s): the promise is kept, or broken: get() throws.           *)
Await(t) ==
    /\ http[t].at = "waiting"
    /\ LET promise == acc[http[t].obj].promise
       IN  \/ promise \in Code /\ Tell(t, 200, promise)
           \/ promise = Broken /\ Tell(t, 500, 0)
    /\ UNCHANGED <<account, acc, deviceVars>>

(* Variation: get() without a limit. *)
TimeOutNever(t) == http[t].at = "waiting" /\ Cardinality(Thread) = 0 /\ UNCHANGED regVars

TimeOut(t) ==
    /\ http[t].at = "waiting" /\ acc[http[t].obj].promise = Unset
    /\ Tell(t, 202, 202)
    /\ UNCHANGED <<account, acc, deviceVars>>

-----------------------------------------------------------------------------
ReRegisterRoute ==
    /\ account # Null
    /\ acc' = ReRegister(account)
    /\ Silent /\ UNCHANGED <<account, http, deviceVars>>

(* The promise goes with the object. *)
Abandoned(o) == IF acc[o].promise = Unset THEN Broken ELSE acc[o].promise

(* TinyPhone::Logout: UnRegister, erase, delete.  The calls that make the  *)
(* route refuse are not followed here.                                     *)
LogoutRoute ==
    /\ account # Null
    /\ acc' = [acc EXCEPT ![account] =
                 [@ EXCEPT !.obj = "deleted", !.tsx = "none", !.promise = Abandoned(account)]]
    /\ account' = Null
    /\ Silent /\ UNCHANGED <<http, deviceVars>>

(* onCallMediaState with unregisterOnDeviceError. *)
DeviceError ==
    /\ account # Null
    /\ acc' = UnRegister(account)
    /\ Silent /\ UNCHANGED <<account, http, deviceVars>>

(* refreshDevices, after a call. *)
RefreshDevices == ConfigureAudioDevices /\ Silent /\ UNCHANGED <<account, acc, http>>

-----------------------------------------------------------------------------
(* SIPAccount::onRegState: the promise is kept once, and a publishEvent    *)
(* that throws leaves it for the next time.                                *)
OnRegState(o, code, published) ==
    IF published /\ acc[o].promise = Unset THEN code ELSE acc[o].promise

(* The ghost. *)
Learnt(o, code, published) ==
    acc[o].past \union (IF acc[o].tsx = "register" /\ code = 200 THEN {"accepted"} ELSE {})
                \union (IF published THEN {} ELSE {"missed"})

(* The registrar, or a time-out of PJSIP, answers. *)
RegisterAnswered(o) ==
    /\ acc[o].obj = "live" /\ acc[o].tsx # "none"
    /\ \E code \in Code, published \in IF PublishMayFail THEN BOOLEAN ELSE {TRUE} :
         acc' = [acc EXCEPT ![o] =
                   [@ EXCEPT !.tsx = "none",
                             !.promise = OnRegState(o, code, published),
                             !.past = Learnt(o, code, published)]]
    /\ Silent /\ UNCHANGED <<account, http, deviceVars>>

(* PJSIP renews a registration and tries a failed one again. *)
Renews(o) ==
    /\ acc[o].obj = "live" /\ acc[o].tsx = "none"
    /\ acc' = ReRegister(o)
    /\ Silent /\ UNCHANGED <<account, http, deviceVars>>

RegNext ==
    \/ \E t \in Thread : LoginRoute(t) \/ AddAccount(t) \/ Await(t) \/ TimeOut(t)
    \/ \E o \in Object : RegisterAnswered(o) \/ Renews(o)
    \/ ReRegisterRoute \/ LogoutRoute \/ DeviceError \/ RefreshDevices
    \/ Plug /\ Silent /\ UNCHANGED <<account, acc, http>>

(* A thread of the server runs on, and its wait has a limit.  Nothing is   *)
(* assumed of the registrar.                                               *)
RegSpec ==
    /\ RegInit /\ [][RegNext]_regVars
    /\ \A t \in Thread : WF_regVars(AddAccount(t)) /\ WF_regVars(Await(t) \/ TimeOut(t))

-----------------------------------------------------------------------------
(* server.cpp:227: a login that waited is told 200 only when the registrar *)
(* has accepted the very account it has added, although others may have    *)
(* logged it out, logged in again or unregistered it meanwhile: the 200    *)
(* must not be that of an un-REGISTER.  The one way it can be is that the  *)
(* event of the REGISTER's own result could not be published.              *)
SyncLoginIsTrue ==
    [][\A t \in Thread : http[t].at = "waiting" /\ http'[t].at = "idle" /\ reply' = <<200, 200>> =>
         acc[http[t].obj].past # {}]_regVars

(* Every login is answered: nobody waits for a registrar that is silent,   *)
(* or for the promise of an account that is gone.                          *)
LoginReturns == \A t \in Thread : http[t].at # "idle" ~> http[t].at = "idle"

(* The sound devices, with the numbers kept from refresh to refresh while  *)
(* the list changes.                                                       *)
DevicesPreferred ==
    [][RefreshDevices /\ ~UseDefault =>
         TakesPreferred(input, input', Inputs) /\ TakesPreferred(output, output', Outputs)]_regVars

(* README.md of the C# client, line 118: the proxy is optional.  A login   *)
(* that leaves it out is a good request.                                   *)
OptionalMayBeLeftOut == reply[1] # 400
=============================================================================
