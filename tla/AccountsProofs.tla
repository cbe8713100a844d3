---------------------------- MODULE AccountsProofs ----------------------------
(* Theorems about Accounts, for every number of names, objects and threads. *)
EXTENDS Accounts, FiniteSetTheorems, TLAPS

(* What a step of the specification is, action by action. *)
LEMMA StepCases ==
    ASSUME [Next]_vars
    PROVE \/ UNCHANGED vars
          \/ \E t \in Http, n \in Name : Login(t, n) \/ LogoutFind(t, n)
          \/ \E t \in Http : Enable(t) \/ AddAccount(t)
          \/ \E t \in Http : LogoutCheck(t) \/ Logout(t)
          \/ \E t \in Http : DialCheck(t) \/ DialFind(t) \/ Dial(t)
          \/ \E t \in Thread : SweepBegin(t) \/ SweepErase(t) \/ SweepEnd(t) \/ Save(t)
          \/ \E t \in Thread, n \in Name : Sweep(t, n)
          \/ \E o \in Obj : IncomingCall(o) \/ CallEnds(o)
          \/ Crash \/ StopBegin \/ StopEnd \/ Restart \/ RestoreFails \/ RestoreEnd
          \/ \E n \in Name : Restore(n)
  BY DEF Next, HttpStep, SweepStep, Process

LEMMA InsertTyping ==
    ASSUME TypeOK,
           NEW t \in Thread, NEW n \in Name, NEW save \in PC, Insert(t, n, save),
           UNCHANGED todo \/ todo' = [todo EXCEPT ![t] = @ \ {n}]
    PROVE TypeOK'
  BY DEF Insert, Truncated, TypeOK, Goto

(* The typing invariant of the accounts, the file and the threads.         *)
THEOREM Typing == Spec => []TypeOK
<1> USE AccountsAssumption DEF Thread
<1>1. Init => TypeOK
  BY DEF Init, TypeOK, Written, PC
<1>2. TypeOK /\ [Next]_vars => TypeOK'
  <2> SUFFICES ASSUME TypeOK, [Next]_vars PROVE TypeOK'
    OBVIOUS
  <2> USE DEF TypeOK, PC, Goto, registry, disk, locals
  <2>1. ASSUME NEW t \in Http, NEW n \in Name, Login(t, n) PROVE TypeOK'
    BY <2>1 DEF Login, Serving, Find
  <2>2. ASSUME NEW t \in Http, NEW n \in Name, LogoutFind(t, n) PROVE TypeOK'
    BY <2>2 DEF LogoutFind, Serving, Find
  <2>3. ASSUME NEW t \in Http, Enable(t) PROVE TypeOK'
    BY <2>3 DEF Enable, Serving, Undefined
  <2>5. ASSUME NEW t \in Http, AddAccount(t) PROVE TypeOK'
    <3>1. CASE Insert(t, name[t], "saveAdd")
      <4>1. name[t] \in Name /\ "saveAdd" \in PC /\ UNCHANGED todo
        BY <2>5 DEF AddAccount
      <4> HIDE DEF TypeOK, PC, Thread
      <4>2. t \in Thread
        BY DEF Thread
      <4> QED BY <3>1, <4>1, <4>2, InsertTyping
    <3>2. CASE AddRefused(t)
      BY <2>5, <3>2 DEF AddAccount, AddRefused
    <3>3. CASE AddFails(t)
      BY <2>5, <3>3 DEF AddAccount, AddFails
    <3> QED BY <2>5, <3>1, <3>2, <3>3 DEF AddAccount
  <2>6. ASSUME NEW t \in Http, LogoutCheck(t) PROVE TypeOK'
    BY <2>6 DEF LogoutCheck, Undefined
  <2>7. ASSUME NEW t \in Http, Logout(t) PROVE TypeOK'
    <3>1. CASE Undefined
      BY <3>1 DEF Undefined
    <3>2. CASE Touches(t)
      <4>1. accounts' \in [Name -> Obj \union {NoObj}]
        BY <2>7, <3>2 DEF Logout
      <4>2. lock' \in Thread \union {Free}
        BY <2>7, <3>2 DEF Logout
      <4>4. file' = Truncated
        BY <2>7, <3>2 DEF Logout
      <4>5. file' \in [whole : BOOLEAN, names : SUBSET Name]
        BY <4>4 DEF Truncated
      <4>3. live' \subseteq used' /\ used' \subseteq Obj /\ pc' \in [Thread -> PC]
        BY <2>7, <3>2 DEF Logout
      <4> QED BY <2>7, <3>2, <4>1, <4>2, <4>3, <4>5 DEF Logout
    <3> QED BY <2>7, <3>1, <3>2 DEF Logout
  <2>8. ASSUME NEW t \in Http, DialCheck(t) \/ DialFind(t) PROVE TypeOK'
    <3>1. CASE DialCheck(t)
      BY <3>1 DEF DialCheck
    <3>2. CASE DialFind(t) /\ Undefined
      BY <3>2 DEF Undefined
    <3>3. CASE DialFind(t) /\ ~Undefined
      <4>1. PICK n \in Registered : Find(t, n)
        BY <3>3 DEF DialFind
      <4>2. n \in Name
        BY DEF Registered
      <4>3. UNCHANGED <<phase, registry, calls, disk, lock, todo>> /\ Goto(t, "dial")
        BY <3>3 DEF DialFind
      <4> QED BY <4>1, <4>2, <4>3 DEF Find
    <3> QED BY <2>8, <3>1, <3>2, <3>3
  <2>9. ASSUME NEW t \in Http, Dial(t) PROVE TypeOK'
    <3>1. CASE Undefined
      BY <3>1 DEF Undefined
    <3>2. CASE ~Undefined
      <4>1. calls' \in [Obj -> Nat]
        BY <2>9, <3>2 DEF Dial
      <4>2. Goto(t, "idle") /\ UNCHANGED <<phase, registry, disk, lock, name, ptr, todo>>
        BY <2>9, <3>2 DEF Dial
      <4> QED BY <4>1, <4>2
    <3> QED BY <3>1, <3>2
  <2>10. ASSUME NEW t \in Thread, SweepBegin(t) \/ SweepErase(t) \/ SweepEnd(t) PROVE TypeOK'
    <3>1. CASE SweepBegin(t)
      BY <3>1 DEF SweepBegin, Registered
    <3>2. CASE SweepErase(t)
      BY <3>2 DEF SweepErase
    <3>3. CASE SweepEnd(t)
      BY <3>3 DEF SweepEnd, Truncated
    <3> QED BY <2>10, <3>1, <3>2, <3>3
  <2>11. ASSUME NEW t \in Thread, NEW n \in Name, Sweep(t, n) PROVE TypeOK'
    BY <2>11 DEF Sweep
  <2>12. ASSUME NEW t \in Thread, Save(t) PROVE TypeOK'
    <3>1. AckedAfter(t) \subseteq Name /\ DroppedAfter(t) \subseteq Name /\ Registered \subseteq Name
      BY DEF AckedAfter, DroppedAfter, Registered
    <3> QED BY <2>12, <3>1 DEF Save, Written
  <2>13. ASSUME NEW o \in Obj, IncomingCall(o) \/ CallEnds(o) PROVE TypeOK'
    <3>1. calls' \in [Obj -> Nat]
      BY <2>13 DEF IncomingCall, CallEnds
    <3>2. UNCHANGED <<phase, registry, disk, lock, locals>>
      BY <2>13 DEF IncomingCall, CallEnds
    <3> QED BY <3>1, <3>2
  <2>14. CASE Crash \/ StopEnd
    <3>1. spoilt' \subseteq {"file", "acks"}
      BY <2>14 DEF Crash, StopEnd
    <3>2. Gone
      BY <2>14 DEF Crash, StopEnd
    <3>3. calls' \in [Obj -> Nat] /\ accounts' \in [Name -> Obj \union {NoObj}]
      BY <3>2 DEF Gone
    <3>4. lock' \in Thread \union {Free} /\ pc' \in [Thread -> PC] /\ todo' \in [Thread -> SUBSET Name]
      BY <3>2 DEF Gone
    <3>5. ptr' \in [Thread -> Obj \union {NoObj}] /\ live' = {}
      BY <3>2 DEF Gone
    <3>6. phase' = "down" /\ UNCHANGED <<used, file, acked, dropped, name>>
      BY <3>2 DEF Gone
    <3> QED BY <3>1, <3>3, <3>4, <3>5, <3>6
  <2>15. CASE StopBegin \/ Restart \/ RestoreEnd
    BY <2>15, ZenonT(40) DEF StopBegin, Restart, RestoreEnd
  <2>16. ASSUME NEW n \in Name, Restore(n) PROVE TypeOK'
    <3>1. "saveRestore" \in PC /\ Main \in Thread
      OBVIOUS
    <3>2. Insert(Main, n, "saveRestore") /\ todo' = [todo EXCEPT ![Main] = @ \ {n}]
      BY <2>16 DEF Restore
    <3> HIDE DEF TypeOK, PC, Thread
    <3> QED BY <3>1, <3>2, InsertTyping
  <2>18. CASE RestoreFails
    BY <2>18 DEF RestoreFails
  <2>17. CASE UNCHANGED vars
    BY <2>17 DEF vars
  <2> HIDE DEF TypeOK, PC, Goto, registry, disk, locals
  <2> QED BY StepCases, <2>1, <2>2, <2>3, <2>5, <2>6, <2>7, <2>8, <2>9, <2>10, <2>11, <2>12,
             <2>13, <2>14, <2>15, <2>16, <2>17, <2>18
<1> QED BY <1>1, <1>2, PTL DEF Spec

(* Who holds add_acc_mutex is the thread that is inside it, and Main does  *)
(* what the phase of the process says.                                     *)
Inside == {"sweep", "erase", "saveAdd", "saveLogout", "saveSweep", "saveRestore"}

Locking ==
    /\ \A t \in Thread : pc[t] \in Inside <=> lock = t
    /\ phase = "running" => pc[Main] = "idle"
    /\ phase = "stopping" => pc[Main] \in {"idle", "logoutAll", "sweep", "erase", "saveSweep"}
    /\ phase = "restoring" => pc[Main] \in {"restore", "saveRestore"}
    /\ phase \in {"down", "restoring"} => \A t \in Http : pc[t] = "idle"
    /\ phase = "down" => pc[Main] = "idle"
    /\ \A t \in Http : pc[t] \notin {"restore", "saveRestore", "logoutAll"}

LockInv == Defined => Locking

(* add_acc_mutex is a lock: two threads are never inside a function that   *)
(* changes the accounts, in any phase of the process.                      *)
THEOREM MutexHeld == Spec => []LockInv
<1> USE AccountsAssumption DEF Thread
<1>1. Init => LockInv
  BY DEF Init, LockInv, Locking, Inside
<1>2. TypeOK /\ LockInv /\ [Next]_vars => LockInv'
  <2> SUFFICES ASSUME TypeOK, LockInv, [Next]_vars, Defined' PROVE Locking'
    BY DEF LockInv
  <2> USE DEF Locking, Inside, Goto, Defined, PC
  <2>0. CASE UNCHANGED vars
    BY <2>0 DEF vars, LockInv
  <2>start. pc \in [Thread -> PC] /\ (phase # "undefined" => Locking)
    BY DEF LockInv, TypeOK
  <2>1. ASSUME NEW t \in Http, NEW n \in Name, Login(t, n) \/ LogoutFind(t, n), Locking
        PROVE Locking'
    BY <2>1, <2>start DEF Login, LogoutFind, Serving
  <2>2. ASSUME NEW t \in Http, Enable(t) \/ LogoutCheck(t) \/ DialCheck(t) \/ DialFind(t) \/ Dial(t), Locking
        PROVE Locking'
    BY <2>2, <2>start DEF Enable, LogoutCheck, DialCheck, DialFind, Dial, Serving, Undefined
  <2>3. ASSUME NEW t \in Http, AddAccount(t), Locking PROVE Locking'
    BY <2>3, <2>start DEF AddAccount, Serving, Insert, AddRefused, AddFails
  <2>4. ASSUME NEW t \in Http, Logout(t), Locking PROVE Locking'
    BY <2>4, <2>start DEF Logout, Serving, Undefined
  <2>5. ASSUME NEW t \in Thread, SweepBegin(t), Locking PROVE Locking'
    BY <2>5, <2>start DEF SweepBegin, Serving
  <2>6. ASSUME NEW t \in Thread, SweepErase(t) \/ SweepEnd(t), Locking PROVE Locking'
    BY <2>6, <2>start DEF SweepErase, SweepEnd
  <2>7. ASSUME NEW t \in Thread, NEW n \in Name, Sweep(t, n), Locking PROVE Locking'
    BY <2>7, <2>start DEF Sweep
  <2>8. ASSUME NEW t \in Thread, Save(t), Locking PROVE Locking'
    BY <2>8, <2>start DEF Save, Saving
  <2>9. ASSUME NEW o \in Obj, IncomingCall(o) \/ CallEnds(o), Locking PROVE Locking'
    BY <2>9 DEF IncomingCall, CallEnds, locals
  <2>10. CASE Locking /\ (Crash \/ StopEnd)
    BY <2>10 DEF Crash, StopEnd, Gone
  <2>11. CASE Locking /\ (StopBegin \/ Restart \/ RestoreFails \/ RestoreEnd)
    BY <2>11, <2>start DEF StopBegin, Restart, RestoreFails, RestoreEnd
  <2>12. ASSUME NEW n \in Name, Restore(n), Locking PROVE Locking'
    BY <2>12, <2>start DEF Restore, Insert
  <2>13. Next => Locking
    BY <2>start DEF Next
  <2> HIDE DEF Locking, Inside, Goto, Defined, PC
  <2> QED BY StepCases, <2>0, <2>1, <2>2, <2>3, <2>4, <2>5, <2>6, <2>7, <2>8, <2>9, <2>10, <2>11,
             <2>12, <2>13
<1> QED BY <1>1, <1>2, Typing, PTL DEF Spec

(* The map and the objects: an object is mapped under one name; the        *)
(* pointer a thread has found is the one mapped under the name it looked   *)
(* up for as long as the object lives; what the loop of Logout() has yet   *)
(* to come to is in the map, and what it is about to erase is deleted.     *)
Finding == {"enable", "check", "logout", "dial"}

OneName == \A m, n \in Name : accounts[m] = accounts[n] /\ accounts[m] # NoObj => m = n
Known == \A n \in Registered : accounts[n] \in used
Found == \A t \in Thread : pc[t] \in Finding =>
           ptr[t] \in used /\ (ptr[t] \in live => accounts[name[t]] = ptr[t])
Ahead == \A t \in Thread : pc[t] = "sweep" => todo[t] \subseteq Registered
Erasing == \A t \in Thread : pc[t] = "erase" =>
             todo[t] \subseteq Registered \ {name[t]} /\ accounts[name[t]] \notin live
Mapping == OneName /\ Known /\ Found /\ Ahead /\ Erasing /\ MapIsLive /\ LiveIsMapped

MapInv == Defined => Mapping

(* Whatever the threads have found before they take the mutex, the map and *)
(* the objects agree: a name leads to an account that exists (but for the  *)
(* one entry TinyPhone::Logout() is about to erase), and every account     *)
(* that exists has a name.                                                 *)
THEOREM MapAgrees == Spec => []MapIsExact
<1> USE AccountsAssumption DEF Thread
<1>1. Init => MapInv
  BY DEF Init, MapInv, Mapping, OneName, Known, Found, Ahead, Erasing, MapIsLive, LiveIsMapped,
         Registered, Finding
<1>2. TypeOK /\ LockInv /\ MapInv /\ [Next]_vars => MapInv'
  <2> SUFFICES ASSUME TypeOK, LockInv, MapInv, [Next]_vars, Defined' PROVE Mapping'
    BY DEF MapInv
  <2> DEFINE Before == Locking /\ Mapping
  <2>start. CASE Before
    <3> USE <2>start DEF TypeOK, Goto, Registered, Finding, Mapping, OneName, Known, Found, Ahead,
                         Erasing, MapIsLive, LiveIsMapped, registry, locals, Defined
    <3>0. CASE UNCHANGED vars
      BY <3>0 DEF vars
    <3>1. ASSUME NEW t \in Http, NEW n \in Name, Login(t, n) \/ LogoutFind(t, n) PROVE Mapping'
      BY <3>1 DEF Login, LogoutFind, Serving, Find
    <3>2. ASSUME NEW t \in Http, Enable(t) \/ LogoutCheck(t) \/ Dial(t) PROVE Mapping'
      BY <3>2 DEF Enable, LogoutCheck, Dial, Serving, Undefined
    <3>3. ASSUME NEW t \in Http, DialCheck(t) \/ DialFind(t) PROVE Mapping'
      BY <3>3 DEF DialCheck, DialFind, Serving, Undefined, Find
    <3>6. ASSUME NEW t \in Http, Logout(t) PROVE Mapping'
      <4>1. /\ ptr[t] \in live /\ accounts[name[t]] = ptr[t] /\ lock = Free
            /\ accounts' = [accounts EXCEPT ![name[t]] = NoObj]
            /\ live' = live \ {ptr[t]}
            /\ pc' = [pc EXCEPT ![t] = "saveLogout"]
            /\ lock' = t
            /\ UNCHANGED <<used, name, ptr, todo>>
            /\ phase # "undefined"
        BY <3>6 DEF Logout, Undefined, Touches, Serving
      <4>2. \A u \in Thread : pc'[u] \notin {"sweep", "erase"}
        BY <4>1 DEF Locking, Inside
      <4>3. OneName' /\ Known' /\ Ahead' /\ Erasing'
        BY <4>1, <4>2
      <4>4. Found'
        BY <4>1
      <4>5. MapIsLive'
        <5>1. ASSUME NEW n \in Name, accounts'[n] # NoObj PROVE accounts'[n] \in live'
          <6>1. n # name[t] /\ accounts'[n] = accounts[n] /\ name[t] \in Name
            BY <4>1, <5>1
          <6>2. accounts[n] \in live
            <7>1. \A u \in Thread : lock # u
              BY <4>1
            <7> QED BY <4>1, <5>1, <6>1, <7>1
          <6>3. accounts[n] # ptr[t]
            BY <4>1, <5>1, <6>1
          <6> QED BY <4>1, <6>1, <6>2, <6>3
        <5> QED BY <5>1
      <4>6. LiveIsMapped'
        <5>1. ASSUME NEW o \in live' PROVE \E n \in Name : accounts'[n] = o
          <6>1. PICK n \in Name : accounts[n] = o
            BY <4>1, <5>1
          <6>2. n # name[t] /\ accounts'[n] = accounts[n]
            BY <4>1, <5>1, <6>1
          <6> QED BY <6>1, <6>2
        <5> QED BY <5>1
      <4> QED BY <4>3, <4>4, <4>5, <4>6
    <3>7. ASSUME NEW t \in Thread, SweepBegin(t) PROVE Mapping'
      BY <3>7 DEF SweepBegin, Serving
    <3>8. ASSUME NEW t \in Thread, SweepErase(t) PROVE Mapping'
      BY <3>8 DEF SweepErase, Locking, Inside
    <3>9. ASSUME NEW t \in Thread, SweepEnd(t) PROVE Mapping'
      BY <3>9 DEF SweepEnd
    <3>10. ASSUME NEW t \in Thread, NEW n \in Name, Sweep(t, n) PROVE Mapping'
      BY <3>10 DEF Sweep, Locking, Inside
    <3>11. ASSUME NEW t \in Thread, Save(t) PROVE Mapping'
      BY <3>11 DEF Save, Saving, Locking, Inside
    <3>12. ASSUME NEW o \in Obj, IncomingCall(o) \/ CallEnds(o) PROVE Mapping'
      BY <3>12 DEF IncomingCall, CallEnds
    <3>13. CASE Crash \/ StopEnd
      BY <3>13 DEF Crash, StopEnd, Gone
    <3>14. CASE StopBegin \/ Restart \/ RestoreFails \/ RestoreEnd
      BY <3>14 DEF StopBegin, Restart, RestoreFails, RestoreEnd, Locking
    <3>4. ASSUME NEW t \in Http, AddAccount(t) PROVE Mapping'
      <4>1. CASE Insert(t, name[t], "saveAdd")
        <5>1. UNCHANGED todo /\ name[t] \in Name /\ pc[t] = "add" /\ phase # "undefined"
          BY <3>4 DEF AddAccount, Serving
        <5>2. \A u \in Thread : pc'[u] \notin {"sweep", "erase"}
          BY <4>1, <5>1 DEF Insert, Locking, Inside
        <5>3. PICK o \in Obj \ used : /\ accounts' = [accounts EXCEPT ![name[t]] = o]
                                      /\ live' = live \union {o}
                                      /\ used' = used \union {o}
          BY <4>1 DEF Insert
        <5>4. accounts[name[t]] = NoObj /\ lock = Free /\ UNCHANGED <<name, ptr>>
          BY <4>1 DEF Insert
        <5>5. pc' = [pc EXCEPT ![t] = "saveAdd"]
          BY <4>1 DEF Insert
        <5>6. OneName' /\ Known' /\ Ahead' /\ Erasing'
          BY <5>1, <5>2, <5>3, <5>4
        <5>7. Found'
          BY <5>1, <5>3, <5>4, <5>5
        <5>8. MapIsLive' /\ LiveIsMapped'
          BY <5>1, <5>3, <5>4
        <5> QED BY <5>6, <5>7, <5>8
      <4>2. CASE AddRefused(t)
        BY <3>4, <4>2 DEF AddAccount, AddRefused
      <4>3. CASE AddFails(t)
        BY <3>4, <4>3 DEF AddAccount, AddFails
      <4> QED BY <3>4, <4>1, <4>2, <4>3 DEF AddAccount
    <3>15. ASSUME NEW n \in Name, Restore(n) PROVE Mapping'
      BY <3>15 DEF Restore, Insert, Locking, Inside
    <3> HIDE DEF TypeOK, Goto, Registered, Finding, Mapping, OneName, Known, Found, Ahead,
                 Erasing, MapIsLive, LiveIsMapped, registry, locals, Defined, Thread
    <3> QED BY StepCases, <3>0, <3>1, <3>2, <3>3, <3>4, <3>6, <3>7, <3>8, <3>9, <3>10, <3>11,
               <3>12, <3>13, <3>14, <3>15
  <2> QED BY <2>start DEF Next, LockInv, MapInv, vars, Defined
<1>3. MapInv => MapIsExact
  BY DEF MapInv, Mapping, MapIsExact, MapIsLive, LiveIsMapped
<1> QED BY <1>1, <1>2, <1>3, Typing, MutexHeld, PTL DEF Spec

(* The file, unless a save or a restore that did not end has spoilt it:    *)
(* while nobody holds the mutex it is what the map is; a process that went *)
(* down left it whole; a restore that has not yet added the first account  *)
(* still has all of it to do.                                              *)
Kept == "file" \notin spoilt

Filing ==
    /\ Kept /\ lock = Free /\ phase \in {"running", "stopping"} => file = Written(Registered)
    /\ Kept /\ phase = "down" => file.whole
    /\ phase = "down" => Registered = {}
    /\ Kept /\ phase = "restoring" /\ lock = Free =>
         file = Written(Registered) \/ (file = Written(todo[Main]) /\ Registered = {})

FileInv == Defined => Filing

LEMMA WholeFileIsWritten == ASSUME TypeOK, file.whole PROVE file = Written(file.names)
  BY DEF TypeOK, Written

(* user.conf is what the map is whenever the server runs and nobody holds  *)
(* the mutex, through every crash and restart that interrupts no save and  *)
(* no restore.                                                             *)
THEOREM FileKept == Spec => []FileMatchesRegistry
<1> USE AccountsAssumption DEF Thread
<1>1. Init => FileInv
  BY DEF Init, FileInv, Filing, Kept, Written, Registered
<1>2. TypeOK /\ LockInv /\ FileInv /\ [Next]_vars => FileInv'
  <2> SUFFICES ASSUME TypeOK, LockInv, FileInv, [Next]_vars, Defined'
               PROVE Filing'
    BY DEF FileInv
  <2> DEFINE Same == /\ accounts' = accounts /\ file' = file /\ phase' = phase /\ lock' = lock
                     /\ todo' = todo /\ spoilt' = spoilt
  <2>same. CASE Same /\ Filing
    BY <2>same DEF Filing, Kept, Written, Registered
  <2>held. CASE lock' # Free /\ phase' \in {"running", "stopping", "restoring"}
    BY <2>held DEF Filing
  <2>start. CASE Locking /\ Filing
    <3> USE DEF Goto, registry, disk, locals
    <3>start. /\ phase \in {"down", "restoring", "running", "stopping", "undefined"}
              /\ pc \in [Thread -> PC]
      BY DEF TypeOK
    <3>0. CASE UNCHANGED vars
      BY <3>0, <2>same, <2>start DEF vars
    <3>1. ASSUME NEW t \in Http, NEW n \in Name, Login(t, n) \/ LogoutFind(t, n) PROVE Filing'
      BY <3>1, <2>same, <2>start DEF Login, LogoutFind
    <3>2. ASSUME NEW t \in Http,
                 Enable(t) \/ LogoutCheck(t) \/ DialCheck(t) \/ DialFind(t) \/ Dial(t)
          PROVE Filing'
      BY <3>2, <2>same, <2>start DEF Enable, LogoutCheck, DialCheck, DialFind, Dial, Undefined, Defined
    <3>3. ASSUME NEW t \in Http, AddAccount(t) PROVE Filing'
      <4>1. CASE Insert(t, name[t], "saveAdd")
        BY <3>3, <4>1, <2>held DEF AddAccount, Insert, Serving
      <4>2. CASE AddRefused(t)
        BY <3>3, <4>2, <2>same, <2>start DEF AddAccount, AddRefused
      <4>3. CASE AddFails(t)
        BY <3>3, <4>3, <2>same, <2>start DEF AddAccount, AddFails
      <4> QED BY <3>3, <4>1, <4>2, <4>3 DEF AddAccount
    <3>4. ASSUME NEW t \in Http, Logout(t) PROVE Filing'
      BY <3>4, <2>held DEF Logout, Serving, Undefined, Defined
    <3>5. ASSUME NEW t \in Thread, SweepBegin(t) PROVE Filing'
      BY <3>5, <3>start, <2>held, <2>start DEF SweepBegin, Serving, Locking, Defined
    <3>6. ASSUME NEW t \in Thread, SweepErase(t) \/ SweepEnd(t) PROVE Filing'
      BY <3>6, <3>start, <2>held, <2>start DEF SweepErase, SweepEnd, Locking, Inside, Defined
    <3>7. ASSUME NEW t \in Thread, NEW n \in Name, Sweep(t, n) PROVE Filing'
      BY <3>7, <3>start, <2>held, <2>start DEF Sweep, Locking, Inside, Defined
    <3>8. ASSUME NEW t \in Thread, Save(t) PROVE Filing'
      <4>1. file' = Written(Registered') /\ phase' = phase /\ Registered' = Registered
        BY <3>8 DEF Save, Registered
      <4>2. phase # "down"
        BY <3>8, <2>start DEF Save, Saving, Locking
      <4> QED BY <4>1, <4>2 DEF Filing
    <3>9. ASSUME NEW o \in Obj, IncomingCall(o) \/ CallEnds(o) PROVE Filing'
      BY <3>9, <2>same, <2>start DEF IncomingCall, CallEnds
    <3>10. CASE Crash \/ StopEnd
      <4>1. Kept' => file.whole
        <5>1. CASE Crash
          BY <5>1 DEF Crash, Kept
        <5>2. CASE StopEnd
          BY <5>2, <2>start DEF StopEnd, Filing, Kept, Written
        <5> QED BY <3>10, <5>1, <5>2
      <4>2. file' = file /\ phase' = "down" /\ Registered' = {}
        BY <3>10 DEF Crash, StopEnd, Gone, Registered
      <4> QED BY <4>1, <4>2 DEF Filing
    <3>11. CASE StopBegin
      BY <3>11, <2>start DEF StopBegin, Filing, Kept, Written, Registered
    <3>12. CASE Restart
      <4>1. Kept => file = Written(file.names)
        BY <3>12, <2>start, WholeFileIsWritten DEF Restart, Filing
      <4>2. todo'[Main] = file.names /\ Registered' = {}
        BY <3>12, <2>start DEF Restart, Filing, TypeOK, Registered
      <4>3. Kept' = Kept /\ file' = file /\ phase' = "restoring"
        BY <3>12 DEF Restart, Kept
      <4> QED BY <4>1, <4>2, <4>3 DEF Filing, Written
    <3>13. CASE RestoreEnd
      <4>1. lock = Free
        BY <3>13, <2>start DEF RestoreEnd, Locking, Inside, TypeOK
      <4>2. Kept => file = Written(Registered)
        BY <3>13, <2>start, <4>1 DEF RestoreEnd, Filing
      <4> QED BY <3>13, <4>2 DEF RestoreEnd, Filing, Kept, Written, Registered
    <3>15. CASE RestoreFails
      BY <3>15 DEF RestoreFails, Filing, Kept
    <3>14. ASSUME NEW n \in Name, Restore(n) PROVE Filing'
      BY <3>14, <2>held DEF Restore, Insert
    <3> QED BY StepCases, <3>0, <3>1, <3>2, <3>3, <3>4, <3>5, <3>6, <3>7, <3>8, <3>9, <3>10, <3>11,
               <3>12, <3>13, <3>14, <3>15
  <2> QED BY <2>same, <2>start DEF Next, LockInv, FileInv, Defined, vars
<1>3. FileInv => FileMatchesRegistry
  BY DEF FileInv, Filing, Kept, FileMatchesRegistry, Defined
<1> QED BY <1>1, <1>2, <1>3, Typing, MutexHeld, PTL DEF Spec

(* What the user has been told, as long as no save and no restore was      *)
(* interrupted: a thread inside the mutex has made a change of which its   *)
(* request is yet to be told; what a restart has yet to restore was told.  *)
(* Due: what the user was told, less what Stop has logged out.             *)
Due == acked \ dropped

Trusted == "acks" \notin spoilt
Serves == phase \in {"running", "stopping"}

ToldFree == Serves /\ lock = Free => Due = Registered /\ file.whole
ToldAdd == Serves => \A t \in Thread : pc[t] = "saveAdd" => Registered = Due \union {name[t]}
ToldLogout == Serves => \A t \in Thread : pc[t] = "saveLogout" => Registered = Due \ {name[t]}
ToldSweep == Serves => \A t \in Thread : pc[t] \in {"sweep", "erase", "saveSweep"} => Registered \subseteq Due
ToldFile == file.whole /\ (phase = "restoring" => todo[Main] = {}) => file.names = Due
ToldDown == phase = "down" => file.whole /\ Registered = {}
ToldRestore == phase = "restoring" =>
    /\ Due = Registered \union todo[Main]
    /\ pc[Main] = "restore" => file.whole
Told == ToldFree /\ ToldAdd /\ ToldLogout /\ ToldSweep /\ ToldFile /\ ToldDown /\ ToldRestore

ToldInv == Defined /\ Trusted => Told

(* What was lost stays lost: only Save takes anything out of spoilt, and it *)
(* takes the file.                                                         *)
LEMMA Trusting ==
    ASSUME TypeOK, [Next]_vars, Trusted'
    PROVE Trusted
<1> USE DEF Trusted, registry, disk, locals
<1>1. ASSUME NEW t \in Thread, Save(t) PROVE Trusted
  BY <1>1 DEF Save
<1>2. CASE Crash \/ RestoreFails
  BY <1>2 DEF Crash, RestoreFails
<1>3. CASE spoilt' = spoilt
  BY <1>3
<1>4. ASSUME NEW t \in Http, HttpStep(t) PROVE spoilt' = spoilt
  BY <1>4 DEF HttpStep, Login, LogoutFind, Enable, AddAccount, Insert, AddRefused, AddFails,
              LogoutCheck, Logout, DialCheck, DialFind, Dial, Undefined
<1>5. ASSUME NEW t \in Thread, SweepStep(t) PROVE spoilt' = spoilt
  BY <1>5 DEF SweepStep, SweepBegin, Sweep, SweepErase, SweepEnd
<1>6. CASE \/ StopBegin \/ StopEnd \/ Restart \/ RestoreEnd
           \/ \E n \in Name : Restore(n)
           \/ \E o \in Obj : IncomingCall(o) \/ CallEnds(o)
           \/ UNCHANGED vars
  BY <1>6 DEF StopBegin, StopEnd, Restart, RestoreEnd, Restore, Insert, IncomingCall, CallEnds, vars
<1> QED BY <1>1, <1>2, <1>3, <1>4, <1>5, <1>6 DEF Next, Process

(* What the user was told is logged in is logged in, for every number of   *)
(* names and threads, through every crash and restart that interrupts      *)
(* neither a save nor a restore, but for what Stop has logged out.         *)
THEOREM AcksKept == Spec => []AckedIsRegistered
<1> USE AccountsAssumption DEF Thread, Due
<1>1. Init => ToldInv
  BY DEF Init, ToldInv, Told, ToldFree, ToldAdd, ToldLogout, ToldSweep, ToldFile, ToldDown, ToldRestore,
         Serves, Written, Registered
<1>2. TypeOK /\ LockInv /\ ToldInv /\ [Next]_vars => ToldInv'
  <2> SUFFICES ASSUME TypeOK, LockInv, ToldInv, [Next]_vars, Defined', Trusted'
               PROVE Told'
    BY DEF ToldInv
  <2> USE DEF Goto, registry, disk, locals
  <2>type. /\ phase \in {"down", "restoring", "running", "stopping", "undefined"}
           /\ pc \in [Thread -> PC] /\ lock \in Thread \union {Free}
           /\ accounts \in [Name -> Obj \union {NoObj}]
           /\ name \in [Thread -> Name] /\ todo \in [Thread -> SUBSET Name]
           /\ Due \subseteq Name
    BY DEF TypeOK
  <2>0. CASE UNCHANGED vars
    <3>1. Told
      BY <2>0 DEF ToldInv, vars, Defined, Trusted
    <3> QED BY <2>0, <3>1 DEF vars, Told, ToldFree, ToldAdd, ToldLogout, ToldSweep, ToldFile, ToldDown,
                              ToldRestore, Serves, Registered
  <2>start. CASE Told /\ Locking
    <3> USE <2>type, <2>start DEF Told, ToldFree, ToldAdd, ToldLogout, ToldSweep, ToldFile, ToldDown,
                        ToldRestore, Serves
    <3>1. ASSUME NEW t \in Http, NEW n \in Name, Login(t, n) \/ LogoutFind(t, n) PROVE Told'
      BY <3>1 DEF Login, LogoutFind, Find, Serving, Registered, Locking
    <3>2. ASSUME NEW t \in Http,
                 Enable(t) \/ LogoutCheck(t) \/ DialCheck(t) \/ Dial(t)
          PROVE Told'
      BY <3>2 DEF Enable, LogoutCheck, DialCheck, Dial, Undefined, Defined, Serving, Registered, Locking
    <3>3. ASSUME NEW t \in Http, DialFind(t) PROVE Told'
      BY <3>3 DEF DialFind, Find, Undefined, Defined, Serving, Registered, Locking
    <3>4. ASSUME NEW t \in Http, AddAccount(t) PROVE Told'
      <4>1. CASE Insert(t, name[t], "saveAdd")
        <5>1. /\ lock = Free /\ lock' = t /\ Serves /\ pc' = [pc EXCEPT ![t] = "saveAdd"]
              /\ UNCHANGED <<phase, Due, name, todo>> /\ file' = Truncated
          BY <3>4, <4>1 DEF AddAccount, Insert, Serving
        <5>2. Registered' = Registered \union {name[t]} /\ Due = Registered
          <6>1. PICK o \in Obj : accounts' = [accounts EXCEPT ![name[t]] = o]
            BY <4>1 DEF Insert
          <6> QED BY <5>1, <6>1 DEF Registered
        <5>3. \A u \in Thread : pc[u] \notin Inside
          BY <5>1 DEF Locking
        <5> QED BY <5>1, <5>2, <5>3 DEF Inside, Truncated
      <4>2. CASE AddRefused(t)
        BY <3>4, <4>2 DEF AddAccount, AddRefused, Serving, Registered, Locking
      <4>3. CASE AddFails(t)
        BY <3>4, <4>3 DEF AddAccount, AddFails, Serving, Registered, Locking
      <4> QED BY <3>4, <4>1, <4>2, <4>3 DEF AddAccount
    <3>5. ASSUME NEW t \in Http, Logout(t) PROVE Told'
      <4>1. /\ lock = Free /\ lock' = t /\ Serves /\ pc' = [pc EXCEPT ![t] = "saveLogout"]
            /\ UNCHANGED <<phase, Due, name, todo>> /\ file' = Truncated
            /\ accounts' = [accounts EXCEPT ![name[t]] = NoObj]
        BY <3>5 DEF Logout, Serving, Undefined, Defined
      <4>2. Registered' = Registered \ {name[t]} /\ Due = Registered
        BY <4>1 DEF Registered
      <4>3. \A u \in Thread : pc[u] \notin Inside
        BY <4>1 DEF Locking
      <4> QED BY <4>1, <4>2, <4>3 DEF Inside, Truncated
    <3>6. ASSUME NEW t \in Thread, SweepBegin(t) PROVE Told'
      <4>1. /\ lock = Free /\ lock' = t /\ Serves /\ pc' = [pc EXCEPT ![t] = "sweep"]
            /\ UNCHANGED <<phase, Due, name, accounts, file>>
        BY <3>6 DEF SweepBegin, Serving, Locking, Defined
      <4>2. Registered' = Registered /\ Due = Registered
        BY <4>1 DEF Registered
      <4>3. \A u \in Thread : pc[u] \notin Inside
        BY <4>1 DEF Locking
      <4> QED BY <4>1, <4>2, <4>3 DEF Inside
    <3>7. ASSUME NEW t \in Thread, SweepErase(t) \/ SweepEnd(t) PROVE Told'
      <4>0. pc[t] \in {"sweep", "erase"} /\ Serves /\ lock = t
        BY <3>7 DEF SweepErase, SweepEnd, Locking, Inside, Defined
      <4>1. /\ lock' = t /\ pc' = [pc EXCEPT ![t] = IF SweepErase(t) THEN "sweep" ELSE "saveSweep"]
            /\ UNCHANGED <<phase, Due, name, todo>>
            /\ file' = file \/ file' = Truncated
        BY <3>7, <4>0 DEF SweepErase, SweepEnd
      <4>2. Registered' \subseteq Registered
        BY <3>7 DEF SweepErase, SweepEnd, Registered
      <4>3. \A u \in Thread : u # t => pc[u] \notin Inside
        BY <4>0 DEF Locking
      <4> QED BY <4>0, <4>1, <4>2, <4>3 DEF Inside, Truncated
    <3>8. ASSUME NEW t \in Thread, NEW n \in Name, Sweep(t, n) PROVE Told'
      <4>0. pc[t] = "sweep" /\ Serves /\ lock = t
        BY <3>8 DEF Sweep, Locking, Inside, Defined
      <4>1. /\ lock' = t /\ pc' \in {pc, [pc EXCEPT ![t] = "erase"]}
            /\ UNCHANGED <<phase, Due, accounts, file>>
            /\ \A u \in Thread : u # t => name'[u] = name[u]
        BY <3>8, <4>0 DEF Sweep
      <4>2. Registered' = Registered
        BY <4>1 DEF Registered
      <4>3. \A u \in Thread : u # t => pc[u] \notin Inside
        BY <4>0 DEF Locking
      <4> QED BY <4>0, <4>1, <4>2, <4>3 DEF Inside
    <3>9. ASSUME NEW t \in Thread, Save(t) PROVE Told'
      <4>0. lock = t /\ Saving(t) /\ \A u \in Thread : u # t => pc[u] \notin Inside
        BY <3>9 DEF Save, Saving, Locking, Inside
      <4>1. /\ lock' = Free /\ file' = Written(Registered) /\ Due' = AckedAfter(t) \ DroppedAfter(t)
            /\ pc' = [pc EXCEPT ![t] = IF pc[t] = "saveRestore" THEN "restore" ELSE "idle"]
            /\ UNCHANGED <<phase, accounts, name, todo>>
        BY <3>9 DEF Save
      <4>2. Registered' = Registered /\ file'.whole /\ file'.names = Registered
        BY <4>1 DEF Registered, Written
      <4>3. CASE Serves
        <5>1. Due' = Registered
          BY <4>0, <4>1, <4>3 DEF AckedAfter, DroppedAfter, Due, Saving, Locking, Inside
        <5> QED BY <4>0, <4>1, <4>2, <4>3, <5>1 DEF Inside
      <4>4. CASE phase = "restoring"
        <5>1. t = Main /\ pc[t] = "saveRestore"
          BY <4>0, <4>4 DEF Saving, Locking
        <5>2. Due' = Due
          BY <4>1, <5>1 DEF AckedAfter, DroppedAfter, Due
        <5> QED BY <4>0, <4>1, <4>2, <4>4, <5>1, <5>2
      <4>5. phase \notin {"down", "undefined"}
        BY <4>0, <4>1 DEF Saving, Locking, Defined
      <4> QED BY <4>3, <4>4, <4>5
    <3>10. ASSUME NEW o \in Obj, IncomingCall(o) \/ CallEnds(o) PROVE Told'
      BY <3>10 DEF IncomingCall, CallEnds, Registered
    <3>11. CASE Crash \/ StopEnd
      <4>1. Gone
        BY <3>11 DEF Crash, StopEnd
      <4>2. Registered' = {} /\ phase' = "down" /\ Due' = Due /\ file' = file
        BY <4>1 DEF Gone, Registered
      <4>3. file.whole /\ file.names = Due
        <5>1. CASE Crash
          BY <5>1 DEF Crash, Trusted
        <5>2. CASE StopEnd
          BY <5>2 DEF StopEnd
        <5> QED BY <3>11, <5>1, <5>2
      <4> QED BY <4>2, <4>3
    <3>12. CASE StopBegin \/ RestoreEnd
      BY <3>12 DEF StopBegin, RestoreEnd, Registered, Locking
    <3>13. CASE Restart
      <4>1. /\ phase = "down" /\ phase' = "restoring" /\ todo'[Main] = file.names
            /\ UNCHANGED <<Due, file, accounts>>
        BY <3>13 DEF Restart
      <4> QED BY <4>1 DEF Registered
    <3>14. CASE RestoreFails
      BY <3>14 DEF RestoreFails, Trusted
    <3>15. ASSUME NEW n \in Name, Restore(n) PROVE Told'
      <4>1. /\ phase' = "restoring" /\ phase = "restoring" /\ n \in todo[Main]
            /\ todo' = [todo EXCEPT ![Main] = @ \ {n}] /\ pc' = [pc EXCEPT ![Main] = "saveRestore"]
            /\ Due' = Due /\ file' = Truncated
        BY <3>15 DEF Restore, Insert
      <4>2. Registered' = Registered \union {n}
        <5>1. PICK o \in Obj : accounts' = [accounts EXCEPT ![n] = o]
          BY <3>15 DEF Restore, Insert
        <5> QED BY <5>1 DEF Registered
      <4> QED BY <4>1, <4>2 DEF Truncated
    <3> HIDE DEF Told, ToldFree, ToldAdd, ToldLogout, ToldSweep, ToldFile, ToldDown, ToldRestore, Serves,
                 Goto, registry, disk, locals, Thread
    <3> QED BY StepCases, <2>0, <3>1, <3>2, <3>3, <3>4, <3>5, <3>6, <3>7, <3>8, <3>9, <3>10, <3>11,
               <3>12, <3>13, <3>14, <3>15
  <2>trust. Trusted
    BY Trusting
  <2> QED BY <2>0, <2>start, <2>trust DEF Next, LockInv, ToldInv, Defined
<1>3. ToldInv /\ TypeOK => AckedIsRegistered
  BY DEF ToldInv, Told, ToldFree, Serves, Trusted, Defined, AckedIsRegistered
<1> QED BY <1>1, <1>2, <1>3, Typing, MutexHeld, PTL DEF Spec

(* The limit.  A thread that has seen fewer than maxAccounts accounts and   *)
(* is yet to add one counts as an account; a restart restores no more than  *)
(* the file names.                                                          *)
Adding == {t \in Http : pc[t] = "add"}
Bound == MaxAccounts + Cardinality(Http) - 1

BoundInv ==
    /\ Cardinality(Registered) + Cardinality(Adding) <= Bound
    /\ Cardinality(file.names) <= Bound
    /\ phase = "restoring" => Cardinality(Registered \union todo[Main]) <= Bound
    /\ phase = "down" => Registered = {}

LEMMA Finite ==
    ASSUME TypeOK
    PROVE  /\ \A S \in SUBSET Name : IsFiniteSet(S) /\ Cardinality(S) \in Nat
           /\ \A S \in SUBSET Name : \A T \in SUBSET S : Cardinality(T) <= Cardinality(S)
           /\ Registered \subseteq Name /\ todo[Main] \subseteq Name /\ file.names \subseteq Name
           /\ IsFiniteSet(Adding) /\ Cardinality(Adding) \in Nat
           /\ Cardinality(Adding) <= Cardinality(Http) /\ Cardinality(Http) \in Nat
           /\ \A T \in SUBSET Adding : Cardinality(T) <= Cardinality(Adding)
           /\ Bound \in Nat /\ MaxAccounts \in Nat \ {0}
<1> USE AccountsAssumption
<1>1. \A S \in SUBSET Name : IsFiniteSet(S) /\ Cardinality(S) \in Nat
  BY FS_Subset, FS_CardinalityType
<1>2. \A S \in SUBSET Name : \A T \in SUBSET S : Cardinality(T) <= Cardinality(S)
  BY <1>1, FS_Subset
<1>3. Registered \subseteq Name /\ todo[Main] \subseteq Name /\ file.names \subseteq Name
  BY DEF TypeOK, Registered, Thread
<1>4. IsFiniteSet(Adding) /\ Cardinality(Adding) <= Cardinality(Http) /\ Cardinality(Http) \in Nat
  BY FS_Subset, FS_CardinalityType DEF Adding
<1>5. Cardinality(Adding) \in Nat /\ \A T \in SUBSET Adding : Cardinality(T) <= Cardinality(Adding)
  BY <1>4, FS_Subset, FS_CardinalityType
<1> QED BY <1>1, <1>2, <1>3, <1>4, <1>5 DEF Bound

(* A step that adds no account, and sends no thread to add one. *)
LEMMA NoneAdded ==
    ASSUME TypeOK, BoundInv,
           Registered' \subseteq Registered, Adding' \subseteq Adding,
           file'.names \in {file.names, {}, Registered},
           phase' = "restoring" => /\ phase = "restoring"
                                   /\ (Registered \union todo[Main])' \subseteq Registered \union todo[Main],
           phase' = "down" => Registered' = {}
    PROVE  BoundInv'
<1>1. /\ Cardinality(Registered') <= Cardinality(Registered) /\ Cardinality(Registered') \in Nat
      /\ Cardinality(Registered) \in Nat
  BY Finite
<1>2. Cardinality(Adding') <= Cardinality(Adding) /\ Cardinality(Adding) \in Nat
  BY Finite
<1>3. Cardinality(Adding') \in Nat
  BY Finite, FS_Subset, FS_CardinalityType
<1>4. Cardinality(Registered) + Cardinality(Adding) <= Bound /\ Bound \in Nat
  BY Finite DEF BoundInv
<1>5. Cardinality(Registered') + Cardinality(Adding') <= Bound
  BY <1>1, <1>2, <1>3, <1>4
<1>6. Cardinality({}) = 0 /\ Cardinality(Registered) <= Bound
  BY <1>1, <1>2, <1>4, FS_EmptySet
<1>7. Cardinality(file'.names) <= Bound
  BY <1>4, <1>6 DEF BoundInv
<1>8. phase' = "restoring" => Cardinality((Registered \union todo[Main])') <= Bound
  <2> SUFFICES ASSUME phase' = "restoring" PROVE Cardinality((Registered \union todo[Main])') <= Bound
    OBVIOUS
  <2>1. /\ (Registered \union todo[Main])' \subseteq Registered \union todo[Main]
        /\ Registered \union todo[Main] \subseteq Name
    BY Finite
  <2>2. Cardinality(Registered \union todo[Main]) <= Bound
    BY DEF BoundInv
  <2>3. /\ Cardinality((Registered \union todo[Main])') <= Cardinality(Registered \union todo[Main])
        /\ Cardinality((Registered \union todo[Main])') \in Nat
        /\ Cardinality(Registered \union todo[Main]) \in Nat
    BY <2>1, Finite
  <2> QED BY <1>4, <2>2, <2>3
<1> QED BY <1>5, <1>7, <1>8 DEF BoundInv

(* A thread whose look-up found fewer accounts than the limit goes to add   *)
(* one: all the threads together can.                                       *)
LEMMA LimitSeen ==
    ASSUME TypeOK, BoundInv, Cardinality(Registered) < MaxAccounts,
           UNCHANGED <<accounts, file, phase, todo>>, Adding' \subseteq Http
    PROVE  BoundInv'
<1>1. Cardinality(Registered) \in Nat /\ Cardinality(Http) \in Nat /\ MaxAccounts \in Nat
  BY Finite
<1>2. Cardinality(Adding') <= Cardinality(Http) /\ Cardinality(Adding') \in Nat
  BY AccountsAssumption, FS_Subset, FS_CardinalityType
<1>3. Cardinality(Registered) + Cardinality(Adding') <= Bound
  BY <1>1, <1>2 DEF Bound
<1>4. Registered' = Registered
  BY DEF Registered
<1> QED BY <1>3, <1>4 DEF BoundInv

(* An account added takes the place of the thread that was to add it.       *)
LEMMA OneAdded ==
    ASSUME TypeOK, BoundInv, NEW t \in Adding, NEW n \in Name \ Registered,
           Registered' = Registered \union {n}, Adding' = Adding \ {t},
           file'.names = {}, phase' \notin {"restoring", "down"}
    PROVE  BoundInv'
<1>1. Cardinality(Registered') = Cardinality(Registered) + 1
  BY Finite, FS_AddElement
<1>2. Cardinality(Adding') = Cardinality(Adding) - 1
  BY Finite, FS_RemoveElement
<1>3. Cardinality(Registered) + Cardinality(Adding) <= Bound /\ Bound \in Nat
      /\ Cardinality(Registered) \in Nat /\ Cardinality(Adding) \in Nat
  BY Finite DEF BoundInv
<1>4. Cardinality(Registered') + Cardinality(Adding') <= Bound
  BY <1>1, <1>2, <1>3
<1>5. Cardinality(file'.names) <= Bound
  BY <1>3, FS_EmptySet
<1> QED BY <1>4, <1>5 DEF BoundInv

(* /login tests the limit before it takes the mutex: the accounts exceed    *)
(* maxAccounts by at most the number of the other HTTP threads, for every   *)
(* number of threads, names and restarts.                                   *)
THEOREM LimitHolds == Spec => []AccountsBounded
<1> USE AccountsAssumption DEF Thread
<1>1. Init => TypeOK /\ BoundInv
  <2> SUFFICES ASSUME Init PROVE TypeOK /\ BoundInv
    OBVIOUS
  <2>1. TypeOK
    BY DEF Init, TypeOK, Written, PC
  <2>2. Registered = {} /\ Adding = {} /\ file.names = {} /\ phase = "running"
    BY DEF Init, Registered, Adding, Written
  <2>3. Bound \in Nat /\ Cardinality({}) = 0
    BY <2>1, Finite, FS_EmptySet
  <2> QED BY <2>1, <2>2, <2>3 DEF BoundInv
<1>2. TypeOK /\ LockInv /\ BoundInv /\ [Next]_vars => BoundInv'
  <2> SUFFICES ASSUME TypeOK, LockInv, BoundInv, [Next]_vars PROVE BoundInv'
    OBVIOUS
  <2> USE DEF Goto, registry, disk, locals
  <2>type. /\ pc \in [Thread -> PC] /\ accounts \in [Name -> Obj \union {NoObj}]
           /\ name \in [Thread -> Name] /\ todo \in [Thread -> SUBSET Name]
    BY DEF TypeOK
  <2>same. ASSUME UNCHANGED <<accounts, file, todo>>,
                  phase' \in {"undefined", "running", "stopping"} \/ phase' = phase,
                  \A t \in Http : pc'[t] = "add" => pc[t] = "add"
           PROVE  BoundInv'
    <3>1. Registered' = Registered /\ Adding' \subseteq Adding
      BY <2>same DEF Registered, Adding
    <3> QED BY <2>same, <3>1, NoneAdded DEF BoundInv
  <2>0. CASE UNCHANGED vars
    BY <2>0, <2>same DEF vars
  <2>start. CASE Locking
    <3> USE <2>type, <2>start
    <3>1. ASSUME NEW t \in Http, NEW n \in Name, Login(t, n) PROVE BoundInv'
      <4>1. CASE Goto(t, "enable")
        BY <3>1, <4>1, <2>same DEF Login
      <4>2. CASE Cardinality(Registered) < MaxAccounts
        BY <3>1, <4>2, LimitSeen DEF Login, Adding
      <4> QED BY <3>1, <4>1, <4>2 DEF Login
    <3>2. ASSUME NEW t \in Http, NEW n \in Name, LogoutFind(t, n) PROVE BoundInv'
      BY <3>2, <2>same DEF LogoutFind
    <3>3. ASSUME NEW t \in Http,
                 Enable(t) \/ LogoutCheck(t) \/ DialCheck(t) \/ DialFind(t) \/ Dial(t)
          PROVE BoundInv'
      <4>1. UNCHANGED <<accounts, file, todo>> /\ phase' \in {phase, "undefined"}
            /\ \E to \in {pc[t], "idle", "logout", "primary", "dial"} : pc' = [pc EXCEPT ![t] = to]
        BY <3>3 DEF Enable, LogoutCheck, DialCheck, DialFind, Dial, Undefined
      <4> QED BY <4>1, <2>same
    <3>4. ASSUME NEW t \in Http, AddAccount(t) PROVE BoundInv'
      <4>1. CASE Insert(t, name[t], "saveAdd")
        <5>1. /\ t \in Adding /\ name[t] \in Name \ Registered /\ phase' = phase
              /\ pc' = [pc EXCEPT ![t] = "saveAdd"] /\ file'.names = {}
              /\ phase \notin {"restoring", "down"}
          BY <3>4, <4>1 DEF AddAccount, Insert, Serving, Adding, Registered, Truncated
        <5>2. Registered' = Registered \union {name[t]}
          <6>1. PICK o \in Obj : accounts' = [accounts EXCEPT ![name[t]] = o]
            BY <4>1 DEF Insert
          <6> QED BY <5>1, <6>1 DEF Registered
        <5>3. Adding' = Adding \ {t}
          BY <5>1 DEF Adding
        <5> QED BY <5>1, <5>2, <5>3, OneAdded
      <4>2. CASE AddRefused(t)
        BY <3>4, <4>2, <2>same DEF AddAccount, AddRefused
      <4>3. CASE AddFails(t)
        BY <3>4, <4>3, <2>same DEF AddAccount, AddFails
      <4> QED BY <3>4, <4>1, <4>2, <4>3 DEF AddAccount
    <3>5. ASSUME NEW t \in Http, Logout(t) PROVE BoundInv'
      <4>1. CASE Undefined
        BY <4>1, <2>same DEF Undefined
      <4>2. CASE ~Undefined
        <5>1. /\ Registered' \subseteq Registered /\ Adding' \subseteq Adding
              /\ file'.names = {} /\ phase' = phase /\ phase \in {"running", "stopping"}
          BY <3>5, <4>2 DEF Logout, Registered, Adding, Truncated, Serving
        <5> QED BY <5>1, NoneAdded
      <4> QED BY <4>1, <4>2
    <3>6. ASSUME NEW t \in Thread, SweepBegin(t) PROVE BoundInv'
      <4>1. /\ Registered' = Registered /\ Adding' \subseteq Adding
            /\ file'.names = file.names /\ phase' = phase /\ phase \notin {"restoring", "down"}
        BY <3>6 DEF SweepBegin, Registered, Adding, Serving, Locking
      <4> QED BY <4>1, NoneAdded
    <3>7. ASSUME NEW t \in Thread, SweepErase(t) \/ SweepEnd(t) PROVE BoundInv'
      <4>1. /\ Registered' \subseteq Registered /\ Adding' \subseteq Adding
            /\ file'.names \in {file.names, {}} /\ phase' = phase /\ phase \notin {"restoring", "down"}
        BY <3>7 DEF SweepErase, SweepEnd, Registered, Adding, Locking, Truncated
      <4> QED BY <4>1, NoneAdded
    <3>8. ASSUME NEW t \in Thread, NEW n \in Name, Sweep(t, n) PROVE BoundInv'
      <4>1. /\ Registered' = Registered /\ Adding' \subseteq Adding
            /\ file'.names = file.names /\ phase' = phase /\ phase \notin {"restoring", "down"}
        BY <3>8 DEF Sweep, Registered, Adding, Locking
      <4> QED BY <4>1, NoneAdded
    <3>9. ASSUME NEW t \in Thread, Save(t) PROVE BoundInv'
      <4>1. /\ Registered' = Registered /\ Adding' \subseteq Adding
            /\ file'.names = Registered /\ phase' = phase /\ todo' = todo
            /\ phase # "down"
        BY <3>9 DEF Save, Saving, Registered, Adding, Locking, Written
      <4> QED BY <4>1, NoneAdded
    <3>10. ASSUME NEW o \in Obj, IncomingCall(o) \/ CallEnds(o) PROVE BoundInv'
      BY <3>10, <2>same DEF IncomingCall, CallEnds
    <3>11. CASE Crash \/ StopEnd
      <4>1. Gone
        BY <3>11 DEF Crash, StopEnd
      <4>2. Registered' = {} /\ Adding' = {} /\ file' = file /\ phase' = "down"
        BY <4>1 DEF Gone, Registered, Adding
      <4> QED BY <4>2, NoneAdded
    <3>12. CASE StopBegin \/ RestoreEnd
      BY <3>12, <2>same DEF StopBegin, RestoreEnd
    <3>13. CASE Restart
      <4>1. /\ phase = "down" /\ phase' = "restoring" /\ todo'[Main] = file.names /\ file' = file
            /\ accounts' = accounts /\ pc' = [pc EXCEPT ![Main] = "restore"]
        BY <3>13 DEF Restart
      <4>2. Registered = {} /\ Registered' = {} /\ Adding' = Adding
        BY <4>1 DEF Registered, Adding, BoundInv
      <4>3. (Registered \union todo[Main])' = file.names
        BY <4>1, <4>2
      <4> QED BY <4>1, <4>2, <4>3 DEF BoundInv
    <3>14. CASE RestoreFails
      <4>1. /\ Registered' = Registered /\ Adding' = Adding /\ file' = file
            /\ phase' = "restoring" /\ phase = "restoring" /\ todo'[Main] = {}
        BY <3>14 DEF RestoreFails, Registered, Adding
      <4> QED BY <4>1, NoneAdded
    <3>15. ASSUME NEW n \in Name, Restore(n) PROVE BoundInv'
      <4>1. /\ phase' = "restoring" /\ phase = "restoring" /\ n \in todo[Main]
            /\ todo' = [todo EXCEPT ![Main] = @ \ {n}] /\ pc' = [pc EXCEPT ![Main] = "saveRestore"]
            /\ file'.names = {}
        BY <3>15 DEF Restore, Insert, Truncated
      <4>2. Registered' = Registered \union {n}
        <5>1. PICK o \in Obj : accounts' = [accounts EXCEPT ![n] = o]
          BY <3>15 DEF Restore, Insert
        <5> QED BY <5>1 DEF Registered
      <4>3. (Registered \union todo[Main])' = Registered \union todo[Main]
        BY <4>1, <4>2
      <4>4. Adding = {} /\ Adding' = {}
        BY <4>1 DEF Adding, Locking
      <4>5. /\ Cardinality(Registered') <= Cardinality(Registered \union todo[Main])
            /\ Cardinality(Registered') \in Nat /\ Cardinality(Registered \union todo[Main]) \in Nat
            /\ Bound \in Nat /\ Cardinality({}) = 0
        BY <4>1, <4>2, Finite, FS_EmptySet
      <4>6. Cardinality(Registered \union todo[Main]) <= Bound
        BY <4>1 DEF BoundInv
      <4>7. Cardinality(Registered') + Cardinality(Adding') <= Bound
        BY <4>4, <4>5, <4>6
      <4>8. Cardinality(file'.names) <= Bound
        BY <4>1, <4>5
      <4> QED BY <4>1, <4>3, <4>6, <4>7, <4>8 DEF BoundInv
    <3> HIDE DEF Goto, registry, disk, locals, Thread
    <3> QED BY StepCases, <2>0, <3>1, <3>2, <3>3, <3>4, <3>5, <3>6, <3>7, <3>8, <3>9, <3>10, <3>11,
               <3>12, <3>13, <3>14, <3>15
  <2> QED BY <2>0, <2>start DEF Next, LockInv, Defined
<1>3. TypeOK /\ BoundInv => AccountsBounded
  <2> SUFFICES ASSUME TypeOK, BoundInv PROVE AccountsBounded
    OBVIOUS
  <2>1. /\ Cardinality(Registered) \in Nat /\ Cardinality(Adding) \in Nat
        /\ Cardinality(Registered) + Cardinality(Adding) <= Bound /\ Bound \in Nat
    BY Finite DEF BoundInv
  <2>2. Cardinality(Registered) <= Bound
    BY <2>1
  <2> QED BY <2>2 DEF AccountsBounded, Bound
<1> QED BY <1>1, <1>2, <1>3, Typing, MutexHeld, PTL DEF Spec
=============================================================================
