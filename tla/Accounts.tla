------------------------------- MODULE Accounts -------------------------------
(***************************************************************************)
(* The accounts of a tinyphone and the file they are persisted in          *)
(* (TinyPhone::accounts, add_acc_mutex and user.conf; src/tinyphone/       *)
(* phone.cpp and the account routes of server.cpp).                        *)
(*                                                                         *)
(* The HTTP server runs its routes on several threads.  The functions that *)
(* change the map do so under add_acc_mutex; every look-up, and every      *)
(* check a route makes before it calls them, is made without it.  A thread *)
(* keeps the SIPAccount pointer it found, so a step of it may meet an      *)
(* object another thread has deleted.  What the C++ program does then is   *)
(* undefined: the phase becomes "undefined" and nothing more is said.      *)
(***************************************************************************)
EXTENDS Integers, FiniteSets

CONSTANTS
    Name,          \* account names, user@domain
    Obj,           \* SIPAccount objects, each built once
    Http,          \* the threads of the HTTP server
    Main,          \* the thread that runs Start: RestoreAccounts, Stop
    NoObj,         \* nullptr
    Free,          \* the owner of a mutex nobody holds
    MaxAccounts,   \* ApplicationConfig.maxAccounts
    MaxCalls       \* bound on the calls of an account

ASSUME AccountsAssumption ==
    /\ IsFiniteSet(Name) /\ IsFiniteSet(Http)
    /\ Main \notin Http
    /\ NoObj \notin Obj
    /\ Free \notin Http \union {Main}
    /\ MaxAccounts \in Nat \ {0} /\ MaxCalls \in Nat \ {0}

Thread == Http \union {Main}

VARIABLES
    phase,     \* of the process
    accounts,  \* TinyPhone::accounts
    live,      \* the SIPAccount objects built and not deleted
    used,      \* the SIPAccount objects ever built
    calls,     \* how many calls are in SIPAccount::calls
    file,      \* the names in user.conf
    acked,     \* ghost: the names the user has been told are logged in
    dropped,   \* ghost: those of them that Stop has logged out, which no user is told
    spoilt,    \* ghost: what a save or a restore that did not end has cost
    lock,      \* the owner of add_acc_mutex
    pc,        \* what each thread does next
    name,      \* the account it does it for
    ptr,       \* the object it has found
    todo       \* the names its loop has yet to come to

vars == <<phase, accounts, live, used, calls, file, acked, dropped, spoilt, lock, pc, name, ptr, todo>>
registry == <<accounts, live, used>>
disk == <<file, acked, dropped, spoilt>>
locals == <<pc, name, ptr, todo>>

PC == {"idle", "enable", "add", "check", "logout", "primary", "dial",
       "restore", "logoutAll", "sweep", "erase", "saveAdd", "saveLogout", "saveSweep", "saveRestore"}

TypeOK ==
    /\ phase \in {"down", "restoring", "running", "stopping", "undefined"}
    /\ accounts \in [Name -> Obj \union {NoObj}]
    /\ live \subseteq used /\ used \subseteq Obj
    /\ calls \in [Obj -> Nat]
    /\ file \in [whole : BOOLEAN, names : SUBSET Name]
    /\ acked \subseteq Name /\ dropped \subseteq Name
    /\ spoilt \subseteq {"file", "acks"}
    /\ lock \in Thread \union {Free}
    /\ pc \in [Thread -> PC]
    /\ name \in [Thread -> Name]
    /\ ptr \in [Thread -> Obj \union {NoObj}]
    /\ todo \in [Thread -> SUBSET Name]

(* user.conf: written out, or truncated by a save that has not ended.     *)
Written(names) == [whole |-> TRUE, names |-> names]
Truncated == [whole |-> FALSE, names |-> {}]

Registered == {n \in Name : accounts[n] # NoObj}

Init ==
    /\ phase = "running"
    /\ accounts = [n \in Name |-> NoObj]
    /\ live = {} /\ used = {}
    /\ calls = [o \in Obj |-> 0]
    /\ file = Written({}) /\ acked = {} /\ dropped = {} /\ spoilt = {}
    /\ lock = Free
    /\ pc = [t \in Thread |-> "idle"]
    /\ name \in [Thread -> Name]
    /\ ptr = [t \in Thread |-> NoObj]
    /\ todo = [t \in Thread |-> {}]

-----------------------------------------------------------------------------
Goto(t, label) == pc' = [pc EXCEPT ![t] = label]
Serving(t) == t \in Http /\ phase \in {"running", "stopping"}

(* A thread follows a pointer to an object that has been deleted, or null. *)
Undefined == /\ phase' = "undefined"
             /\ UNCHANGED <<registry, calls, disk, lock, locals>>

(* What a thread does with the object it has found, if it is still there.  *)
Touches(t) == ptr[t] \in live

(* AccountByName: the object the map holds, deleted or not. *)
Find(t, n) == /\ name' = [name EXCEPT ![t] = n]
              /\ ptr' = [ptr EXCEPT ![t] = accounts[n]]

-----------------------------------------------------------------------------
(* Variation: Login without the limit. *)
LoginUnlimited(t, n) ==
    /\ Serving(t) /\ pc[t] = "idle"
    /\ Find(t, n)
    /\ Goto(t, IF accounts[n] # NoObj THEN "enable" ELSE "add")
    /\ UNCHANGED <<phase, registry, calls, disk, lock, todo>>

(* POST /login.  The look-up and the limit are checked without the mutex.  *)
Login(t, n) ==
    /\ Serving(t) /\ pc[t] = "idle"
    /\ Find(t, n)
    /\ \/ accounts[n] # NoObj /\ Goto(t, "enable")
       \/ accounts[n] = NoObj /\ Cardinality(Registered) < MaxAccounts /\ Goto(t, "add")
    /\ UNCHANGED <<phase, registry, calls, disk, lock, todo>>

(* EnableAccount, for an account that exists: it registers again. *)
Enable(t) ==
    /\ Serving(t) /\ pc[t] = "enable"
    /\ IF Touches(t)
       THEN /\ Goto(t, "idle")
            /\ UNCHANGED <<phase, registry, calls, disk, lock, name, ptr, todo>>
       ELSE Undefined

(* TinyPhone::AddAccount up to SaveAccounts, which truncates the file.     *)
(* When the device test or the creation of the account fails the map is    *)
(* left as it was.                                                         *)
AddFails(t) ==
    /\ lock = Free
    /\ Goto(t, "idle")
    /\ UNCHANGED <<phase, registry, calls, disk, lock, name, ptr>>

(* Variation: AddAccount does not look the name up again under the mutex.  *)
(* std::map::insert keeps the entry there is.                              *)
InsertUnchecked(t, n, save) ==
    /\ lock = Free
    /\ lock' = t
    /\ \E o \in Obj \ used :
         /\ accounts' = [accounts EXCEPT ![n] = IF @ = NoObj THEN o ELSE @]
         /\ live' = live \union {o}
         /\ used' = used \union {o}
    /\ file' = Truncated
    /\ Goto(t, save)
    /\ UNCHANGED <<phase, calls, acked, dropped, spoilt, name, ptr>>

Insert(t, n, save) ==
    /\ lock = Free
    /\ accounts[n] = NoObj
    /\ lock' = t
    /\ \E o \in Obj \ used :
         /\ accounts' = [accounts EXCEPT ![n] = o]
         /\ live' = live \union {o}
         /\ used' = used \union {o}
    /\ file' = Truncated
    /\ Goto(t, save)
    /\ UNCHANGED <<phase, calls, acked, dropped, spoilt, name, ptr>>

(* "Account already exists": std::invalid_argument, the route answers 500. *)
AddRefused(t) ==
    /\ lock = Free
    /\ accounts[name[t]] # NoObj
    /\ Goto(t, "idle")
    /\ UNCHANGED <<phase, registry, calls, disk, lock, name, ptr>>

AddAccount(t) ==
    /\ Serving(t) /\ pc[t] = "add"
    /\ Insert(t, name[t], "saveAdd") \/ AddRefused(t) \/ AddFails(t)
    /\ UNCHANGED todo

-----------------------------------------------------------------------------
(* POST /accounts/<name>/logout: look-up, check, TinyPhone::Logout(acc).   *)
LogoutFind(t, n) ==
    /\ Serving(t) /\ pc[t] = "idle"
    /\ accounts[n] # NoObj
    /\ Find(t, n)
    /\ Goto(t, "check")
    /\ UNCHANGED <<phase, registry, calls, disk, lock, todo>>

LogoutCheck(t) ==
    /\ Serving(t) /\ pc[t] = "check"
    /\ IF Touches(t)
       THEN /\ Goto(t, IF calls[ptr[t]] = 0 THEN "logout" ELSE "idle")
            /\ UNCHANGED <<phase, registry, calls, disk, lock, name, ptr, todo>>
       ELSE Undefined

(* Variation: the account leaves the map and is deleted, nothing is saved. *)
LogoutUnsaved(t) ==
    /\ Serving(t) /\ pc[t] = "logout" /\ lock = Free
    /\ accounts' = [accounts EXCEPT ![name[t]] = NoObj]
    /\ live' = live \ {ptr[t]}
    /\ acked' = acked \ {name[t]}
    /\ Goto(t, "idle")
    /\ UNCHANGED <<phase, used, calls, file, dropped, spoilt, lock, name, ptr, todo>>

Logout(t) ==
    /\ Serving(t) /\ pc[t] = "logout" /\ lock = Free
    /\ IF Touches(t)
       THEN /\ lock' = t
            /\ accounts' = [accounts EXCEPT ![name[t]] = NoObj]
            /\ live' = live \ {ptr[t]}
            /\ file' = Truncated
            /\ Goto(t, "saveLogout")
            /\ UNCHANGED <<phase, used, calls, acked, dropped, spoilt, name, ptr, todo>>
       ELSE Undefined

-----------------------------------------------------------------------------
(* TinyPhone::Logout(): POST /logout, and Stop on the main thread.  The    *)
(* loop deletes each account without calls and then erases it.             *)
SweepBegin(t) ==
    /\ (Serving(t) /\ pc[t] = "idle") \/ pc[t] = "logoutAll"
    /\ lock = Free
    /\ lock' = t
    /\ todo' = [todo EXCEPT ![t] = Registered]
    /\ Goto(t, "sweep")
    /\ UNCHANGED <<phase, registry, calls, disk, name, ptr>>

Sweep(t, n) ==
    /\ pc[t] = "sweep" /\ n \in todo[t]
    /\ todo' = [todo EXCEPT ![t] = @ \ {n}]
    /\ IF calls[accounts[n]] > 0
       THEN UNCHANGED <<live, pc, name>>
       ELSE /\ live' = live \ {accounts[n]}
            /\ name' = [name EXCEPT ![t] = n]
            /\ Goto(t, "erase")
    /\ UNCHANGED <<phase, accounts, used, calls, disk, lock, ptr>>

SweepErase(t) ==
    /\ pc[t] = "erase"
    /\ accounts' = [accounts EXCEPT ![name[t]] = NoObj]
    /\ Goto(t, "sweep")
    /\ UNCHANGED <<phase, live, used, calls, disk, lock, name, ptr, todo>>

SweepEnd(t) ==
    /\ pc[t] = "sweep" /\ todo[t] = {}
    /\ file' = Truncated
    /\ Goto(t, "saveSweep")
    /\ UNCHANGED <<phase, registry, calls, acked, dropped, spoilt, lock, name, ptr, todo>>

-----------------------------------------------------------------------------
(* The end of SaveAccounts and of the mutex: the file holds what the map   *)
(* holds, the thread that saved answers its request.                       *)
Saving(t) == pc[t] \in {"saveAdd", "saveLogout", "saveSweep", "saveRestore"}

AckedAfter(t) ==
    CASE pc[t] = "saveAdd"                -> acked \union {name[t]}
      [] pc[t] = "saveLogout"             -> acked \ {name[t]}
      [] pc[t] = "saveSweep" /\ t # Main  -> acked \intersect Registered
      [] OTHER                            -> acked

(* What Stop logs out stays logged out after a restart, until the user     *)
(* logs in again or out.                                                   *)
DroppedAfter(t) ==
    CASE pc[t] = "saveAdd"                -> dropped \ {name[t]}
      [] pc[t] = "saveSweep" /\ t # Main  -> {}
      [] pc[t] = "saveSweep" /\ t = Main  -> acked \ Registered
      [] OTHER                            -> dropped

(* Variation: the map is read before the change is made to it. *)
SaveStale(t) ==
    /\ Saving(t)
    /\ file' = Written(Registered \ {name[t]})
    /\ acked' = AckedAfter(t) /\ dropped' = DroppedAfter(t)
    /\ spoilt' = spoilt \ {"file"}
    /\ lock' = Free
    /\ Goto(t, IF pc[t] = "saveRestore" THEN "restore" ELSE "idle")
    /\ UNCHANGED <<phase, registry, calls, name, ptr, todo>>

Save(t) ==
    /\ Saving(t)
    /\ file' = Written(Registered)
    /\ acked' = AckedAfter(t) /\ dropped' = DroppedAfter(t)
    /\ spoilt' = spoilt \ {"file"}
    /\ lock' = Free
    /\ Goto(t, IF pc[t] = "saveRestore" THEN "restore" ELSE "idle")
    /\ UNCHANGED <<phase, registry, calls, name, ptr, todo>>

-----------------------------------------------------------------------------
(* POST /dial: PrimaryAccount() is called twice, and what the second call  *)
(* returns is used without a test.  (It returns nullptr too when no        *)
(* account is registered with its server at the moment.)                   *)
DialCheck(t) ==
    /\ Serving(t) /\ pc[t] = "idle"
    /\ Registered # {}
    /\ Goto(t, "primary")
    /\ UNCHANGED <<phase, registry, calls, disk, lock, name, ptr, todo>>

DialFind(t) ==
    /\ Serving(t) /\ pc[t] = "primary"
    /\ \/ Undefined
       \/ /\ \E n \in Registered : Find(t, n)
          /\ Goto(t, "dial")
          /\ UNCHANGED <<phase, registry, calls, disk, lock, todo>>

Dial(t) ==
    /\ Serving(t) /\ pc[t] = "dial"
    /\ IF Touches(t)
       THEN /\ calls' = IF calls[ptr[t]] < MaxCalls
                        THEN [calls EXCEPT ![ptr[t]] = @ + 1] ELSE calls
            /\ Goto(t, "idle")
            /\ UNCHANGED <<phase, registry, disk, lock, name, ptr, todo>>
       ELSE Undefined

(* PJSIP's callbacks onIncomingCall and onCallState(DISCONNECTED): they    *)
(* take no part in the mutex.                                              *)
IncomingCall(o) ==
    /\ o \in live /\ calls[o] < MaxCalls
    /\ calls' = [calls EXCEPT ![o] = @ + 1]
    /\ UNCHANGED <<phase, registry, disk, lock, locals>>

(* Variation: a call that was never counted is taken off. *)
CallEndsTwice(o) ==
    /\ o \in live
    /\ calls' = [calls EXCEPT ![o] = @ - 1]
    /\ UNCHANGED <<phase, registry, disk, lock, locals>>

CallEnds(o) ==
    /\ o \in live /\ calls[o] > 0
    /\ calls' = [calls EXCEPT ![o] = @ - 1]
    /\ UNCHANGED <<phase, registry, disk, lock, locals>>

-----------------------------------------------------------------------------
(* The process goes down: everything but the file is lost. *)
Gone ==
    /\ phase' = "down"
    /\ accounts' = [n \in Name |-> NoObj]
    /\ live' = {}
    /\ calls' = [o \in Obj |-> 0]
    /\ lock' = Free
    /\ pc' = [t \in Thread |-> "idle"]
    /\ ptr' = [t \in Thread |-> NoObj]
    /\ todo' = [t \in Thread |-> {}]
    /\ UNCHANGED <<used, file, acked, dropped, name>>

(* A crash while the file is truncated, or with accounts yet to be         *)
(* restored, loses accounts.                                               *)
Crash ==
    /\ phase \in {"restoring", "running", "stopping"}
    /\ spoilt' = IF file.whole /\ (phase = "restoring" => todo[Main] = {})
                 THEN spoilt ELSE {"file", "acks"}
    /\ Gone

(* TinyPhoneHttpServer::Stop logs every account out before the end. *)
StopBegin ==
    /\ phase = "running"
    /\ phase' = "stopping"
    /\ Goto(Main, "logoutAll")
    /\ UNCHANGED <<registry, calls, disk, lock, name, ptr, todo>>

StopEnd ==
    /\ phase = "stopping" /\ lock = Free /\ pc[Main] = "idle"
    /\ Gone
    /\ UNCHANGED spoilt

(* Start and TinyPhone::RestoreAccounts: a file that does not parse is no  *)
(* account at all.  Each account restored rewrites the file.               *)
Restart ==
    /\ phase = "down"
    /\ phase' = "restoring"
    /\ todo' = [todo EXCEPT ![Main] = file.names]
    /\ Goto(Main, "restore")
    /\ UNCHANGED <<registry, calls, disk, lock, name, ptr>>

Restore(n) ==
    /\ phase = "restoring" /\ pc[Main] = "restore" /\ n \in todo[Main] /\ lock = Free
    /\ Insert(Main, n, "saveRestore")
    /\ todo' = [todo EXCEPT ![Main] = @ \ {n}]

(* AddAccount throws: the accounts that are left are not restored.         *)
RestoreFails ==
    /\ phase = "restoring" /\ pc[Main] = "restore" /\ todo[Main] # {} /\ lock = Free
    /\ todo' = [todo EXCEPT ![Main] = {}]
    /\ spoilt' = {"file", "acks"}
    /\ UNCHANGED <<phase, registry, calls, file, acked, dropped, lock, pc, name, ptr>>

RestoreEnd ==
    /\ phase = "restoring" /\ pc[Main] = "restore" /\ todo[Main] = {}
    /\ phase' = "running"
    /\ Goto(Main, "idle")
    /\ UNCHANGED <<registry, calls, disk, lock, name, ptr, todo>>

-----------------------------------------------------------------------------
HttpStep(t) ==
    \/ \E n \in Name : Login(t, n) \/ LogoutFind(t, n)
    \/ Enable(t) \/ AddAccount(t)
    \/ LogoutCheck(t) \/ Logout(t)
    \/ DialCheck(t) \/ DialFind(t) \/ Dial(t)

SweepStep(t) ==
    SweepBegin(t) \/ (\E n \in Name : Sweep(t, n)) \/ SweepErase(t) \/ SweepEnd(t)

Process == Crash \/ StopBegin \/ StopEnd \/ Restart \/ (\E n \in Name : Restore(n)) \/ RestoreFails \/ RestoreEnd

Next ==
    /\ phase # "undefined"
    /\ \/ \E t \in Http : HttpStep(t)
       \/ \E t \in Thread : SweepStep(t) \/ Save(t)
       \/ \E o \in Obj : IncomingCall(o) \/ CallEnds(o)
       \/ Process

Spec == Init /\ [][Next]_vars

-----------------------------------------------------------------------------
Defined == phase # "undefined"

(* A look-up made while nobody holds add_acc_mutex finds only accounts     *)
(* that exist; a deleted one is in the map only inside the loop of         *)
(* TinyPhone::Logout(), between its delete and its erase.                  *)
MapIsLive ==
    Defined => \A n \in Registered : accounts[n] \in live
                 \/ \E t \in Thread : lock = t /\ pc[t] = "erase" /\ name[t] = n

(* Every account PJSIP knows can be found by its name, and so logged out:  *)
(* two logins of one name do not leave a second, unlisted registration.    *)
LiveIsMapped == Defined => \A o \in live : \E n \in Name : accounts[n] = o

(* The map is the accounts there are, in both directions. *)
MapIsExact == MapIsLive /\ LiveIsMapped

(* /login tests the limit without the mutex, so concurrent logins can pass *)
(* it together; they exceed it by no more than the other HTTP threads.     *)
AccountsBounded == Cardinality(Registered) <= MaxAccounts + Cardinality(Http) - 1

(* user.conf holds the accounts of the map whenever no function that       *)
(* changes the map is under way, through every crash and restart: only a   *)
(* crash inside a save or a restore, or a restore that fails half way, can *)
(* make them differ, and the next save mends that.                         *)
FileMatchesRegistry ==
    phase = "running" /\ lock = Free /\ "file" \notin spoilt => file = Written(Registered)

(* What the user was told is logged in is logged in, through every crash   *)
(* and restart that does not interrupt a save or a restore, but for what   *)
(* Stop has logged out (server.cpp:874): a graceful stop empties user.conf, *)
(* and nobody is told.                                                     *)
AckedIsRegistered ==
    phase = "running" /\ lock = Free /\ "acks" \notin spoilt => acked \ dropped = Registered
=============================================================================
