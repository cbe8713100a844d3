-------------------------- MODULE RegistrationProofs --------------------------
(* Theorems about Registration, for every set of threads and of objects and *)
(* whatever sound devices there are.                                        *)
EXTENDS Registration, WellFoundedInduction, TLAPS

(* What the proofs need of the types. *)
Shape ==
    /\ account \in Object \union {Null}
    /\ acc \in [Object -> AccState]
    /\ http \in [Thread -> [at : {"idle", "adding", "waiting"}, sync : BOOLEAN,
                            obj : Object \union {Null}]]
    /\ \A t \in Thread : http[t].at = "waiting" => http[t].obj \in Object

(* The promise of an object waits for its first REGISTER, or for a later    *)
(* one when that result has been missed; so a 200 it was given is that of a *)
(* REGISTER, and an un-REGISTER finds it kept or comes after a miss.        *)
Truthful(o) ==
    /\ acc[o].promise = 200 => acc[o].past # {}
    /\ acc[o].obj = "live" /\ acc[o].promise = Unset => acc[o].tsx = "register" \/ acc[o].past # {}

RegInv == Shape /\ \A o \in Object : Truthful(o)

-----------------------------------------------------------------------------
(* Writing the field of a record. *)
LEMMA FieldsWritten ==
    ASSUME NEW r \in AccState, NEW obj \in {"none", "live", "leaked", "deleted"},
           NEW tsx \in {"none", "register", "unregister"}, NEW promise \in {Unset, Broken} \union Code,
           NEW past \in SUBSET {"accepted", "missed"}
    PROVE  /\ [r EXCEPT !.obj = obj] \in AccState
           /\ [r EXCEPT !.tsx = tsx] \in AccState
           /\ [r EXCEPT !.obj = obj, !.tsx = tsx] \in AccState
           /\ [r EXCEPT !.obj = obj, !.tsx = tsx, !.promise = promise] \in AccState
           /\ [r EXCEPT !.tsx = tsx, !.promise = promise, !.past = past] \in AccState
BY DEF AccState

(* One object changes. *)
LEMMA ObjectChanges ==
    ASSUME RegInv, NEW o \in Object, NEW rec \in AccState, acc' = [acc EXCEPT ![o] = rec],
           rec.promise = 200 => rec.past # {},
           rec.obj = "live" /\ rec.promise = Unset => rec.tsx = "register" \/ rec.past # {}
    PROVE  acc' \in [Object -> AccState] /\ \A p \in Object : Truthful(p)'
BY DEF RegInv, Shape, Truthful

(* setRegistration keeps what is said of every object. *)
LEMMA SetRegistrationKeeps ==
    ASSUME RegInv, NEW o \in Object, NEW what \in {"register", "unregister"},
           acc' = SetRegistration(o, what)
    PROVE  acc' \in [Object -> AccState] /\ \A p \in Object : Truthful(p)'
<1>1. acc[o] \in AccState /\ Truthful(o) /\ acc \in [Object -> AccState]
  BY DEF RegInv, Shape
<1>2. CASE acc[o].tsx = "none"
  <2> DEFINE rec == [acc[o] EXCEPT !.tsx = what]
  <2>1. rec \in AccState
    BY <1>1, FieldsWritten
  <2>2. rec.promise = acc[o].promise /\ rec.past = acc[o].past /\ rec.obj = acc[o].obj
    BY <1>1 DEF AccState
  <2>3. acc' = [acc EXCEPT ![o] = rec]
    BY <1>1, <1>2 DEF SetRegistration
  <2> HIDE DEF rec
  <2>4. rec.promise = 200 => rec.past # {}
    BY <1>1, <2>2 DEF Truthful
  <2>5. rec.obj = "live" /\ rec.promise = Unset => rec.past # {}
    BY <1>1, <1>2, <2>2 DEF Truthful
  <2> QED BY <2>1, <2>3, <2>4, <2>5, ObjectChanges
<1>3. CASE acc[o].tsx # "none"
  <2>1. acc' = acc
    BY <1>3 DEF SetRegistration
  <2> QED BY <1>1, <2>1 DEF RegInv, Shape, Truthful
<1> QED BY <1>2, <1>3

(* The entry and the requests, when the objects are in order. *)
LEMMA RestKeeps ==
    ASSUME RegInv, acc' \in [Object -> AccState], \A p \in Object : Truthful(p)',
           account' \in Object \union {Null},
           \/ UNCHANGED http
           \/ \E t \in Thread : http' = [http EXCEPT ![t] = Quiet]
           \/ \E t \in Thread, sync \in BOOLEAN :
                 http' = [http EXCEPT ![t] = [Quiet EXCEPT !.at = "adding", !.sync = sync]]
           \/ \E t \in Thread, o \in Object :
                 http' = [http EXCEPT ![t] = [@ EXCEPT !.at = "waiting", !.obj = o]]
    PROVE  RegInv'
<1> DEFINE Request == [at : {"idle", "adding", "waiting"}, sync : BOOLEAN, obj : Object \union {Null}]
           Good(r) == r \in Request /\ (r.at = "waiting" => r.obj \in Object)
<1>1. http \in [Thread -> Request] /\ \A t \in Thread : Good(http[t])
  BY DEF RegInv, Shape
<1>2. ASSUME NEW t \in Thread, NEW r, Good(r), http' = [http EXCEPT ![t] = r]
      PROVE  http' \in [Thread -> Request] /\ \A u \in Thread : Good(http'[u])
  BY <1>1, <1>2
<1>3. Good(Quiet)
  BY DEF Quiet
<1>4. \A sync \in BOOLEAN : Good([Quiet EXCEPT !.at = "adding", !.sync = sync])
  BY DEF Quiet
<1>5. \A t \in Thread, o \in Object : Good([http[t] EXCEPT !.at = "waiting", !.obj = o])
  BY <1>1
<1> HIDE DEF Good, Request
<1>6. http' \in [Thread -> Request] /\ \A u \in Thread : Good(http'[u])
  <2>1. CASE UNCHANGED http
    BY <1>1, <2>1
  <2>2. ASSUME NEW t \in Thread, http' = [http EXCEPT ![t] = Quiet] PROVE <1>6
    BY <1>2, <1>3, <2>2
  <2>3. ASSUME NEW t \in Thread, NEW sync \in BOOLEAN,
               http' = [http EXCEPT ![t] = [Quiet EXCEPT !.at = "adding", !.sync = sync]]
        PROVE <1>6
    BY <1>2, <1>4, <2>3
  <2>4. ASSUME NEW t \in Thread, NEW o \in Object,
               http' = [http EXCEPT ![t] = [@ EXCEPT !.at = "waiting", !.obj = o]]
        PROVE <1>6
    <3>1. http' = [http EXCEPT ![t] = [http[t] EXCEPT !.at = "waiting", !.obj = o]]
      BY <1>1, <2>4
    <3> QED BY <1>2, <1>5, <3>1
  <2> QED BY <2>1, <2>2, <2>3, <2>4
<1> QED BY <1>6 DEF RegInv, Shape, Good, Request

(* The other objects do not notice a response. *)
LEMMA ObjectsStay ==
    ASSUME RegInv, UNCHANGED acc
    PROVE  acc' \in [Object -> AccState] /\ \A p \in Object : Truthful(p)'
BY DEF RegInv, Shape, Truthful

LEMMA StepKeeps ==
    ASSUME RegInv, [RegNext]_regVars
    PROVE  RegInv'
<1> DEFINE Objects == acc' \in [Object -> AccState] /\ \A p \in Object : Truthful(p)'
<1>0. /\ account \in Object \union {Null} /\ acc \in [Object -> AccState]
      /\ \A o \in Object : acc[o] \in AccState /\ Truthful(o)
  BY DEF RegInv, Shape
<1>1. ASSUME NEW t \in Thread, LoginRoute(t) PROVE RegInv'
  <2>1. UNCHANGED account
    BY <1>1 DEF LoginRoute
  <2>2. \/ http' = [http EXCEPT ![t] = Quiet]
        \/ \E sync \in BOOLEAN :
              http' = [http EXCEPT ![t] = [Quiet EXCEPT !.at = "adding", !.sync = sync]]
    BY <1>1 DEF LoginRoute, Tell
  <2>3. UNCHANGED acc \/ (account # Null /\ acc' = SetRegistration(account, "register"))
    BY <1>1 DEF LoginRoute, ReRegister
  <2>4. Objects
    BY <1>0, <2>3, ObjectsStay, SetRegistrationKeeps
  <2> QED BY <1>0, <2>1, <2>2, <2>4, RestKeeps
<1>2. ASSUME NEW t \in Thread, AddAccount(t) PROVE RegInv'
  <2>1. \/ UNCHANGED <<account, acc>> /\ http' = [http EXCEPT ![t] = Quiet]
        \/ \E o \in Object :
             /\ acc[o].obj = "none"
             /\ \/ /\ acc' = [acc EXCEPT ![o].obj = "leaked"] /\ UNCHANGED account
                   /\ http' = [http EXCEPT ![t] = Quiet]
                \/ /\ acc' = [acc EXCEPT ![o] = [@ EXCEPT !.obj = "live", !.tsx = "register"]]
                   /\ account' = o
                   /\ \/ http' = [http EXCEPT ![t] = [@ EXCEPT !.at = "waiting", !.obj = o]]
                      \/ http' = [http EXCEPT ![t] = Quiet]
    BY <1>2, ZenonT(60) DEF AddAccount, Tell
  <2>2. CASE UNCHANGED <<account, acc>> /\ http' = [http EXCEPT ![t] = Quiet]
    BY <1>0, <2>2, ObjectsStay, RestKeeps
  <2>3. ASSUME NEW o \in Object, acc' = [acc EXCEPT ![o].obj = "leaked"] PROVE Objects
    <3> DEFINE rec == [acc[o] EXCEPT !.obj = "leaked"]
    <3>1. rec \in AccState
      BY <1>0, FieldsWritten
    <3>2. rec.obj = "leaked" /\ rec.promise = acc[o].promise /\ rec.past = acc[o].past
      BY <1>0 DEF AccState
    <3>3. acc' = [acc EXCEPT ![o] = rec]
      BY <2>3
    <3> HIDE DEF rec
    <3>4. rec.promise = 200 => rec.past # {}
      <4>1. Truthful(o)
        BY <1>0
      <4> QED BY <3>2, <4>1 DEF Truthful
    <3> QED BY <3>1, <3>2, <3>3, <3>4, ObjectChanges
  <2>4. ASSUME NEW o \in Object,
               acc' = [acc EXCEPT ![o] = [@ EXCEPT !.obj = "live", !.tsx = "register"]]
        PROVE Objects
    <3> DEFINE rec == [acc[o] EXCEPT !.obj = "live", !.tsx = "register"]
    <3>1. rec \in AccState
      BY <1>0, FieldsWritten
    <3>2. rec.promise = acc[o].promise /\ rec.past = acc[o].past /\ rec.tsx = "register"
      BY <1>0 DEF AccState
    <3>3. acc' = [acc EXCEPT ![o] = rec]
      BY <1>0, <2>4
    <3> HIDE DEF rec
    <3>4. rec.promise = 200 => rec.past # {}
      <4>1. Truthful(o)
        BY <1>0
      <4> QED BY <3>2, <4>1 DEF Truthful
    <3> QED BY <3>1, <3>2, <3>3, <3>4, ObjectChanges
  <2>5. CASE Objects /\ account' \in Object \union {Null} /\
             \/ http' = [http EXCEPT ![t] = Quiet]
             \/ \E o \in Object : http' = [http EXCEPT ![t] = [@ EXCEPT !.at = "waiting", !.obj = o]]
    BY <2>5, RestKeeps
  <2> HIDE DEF Objects
  <2> QED BY <1>0, <2>1, <2>2, <2>3, <2>4, <2>5
<1>3. ASSUME NEW t \in Thread, Await(t) \/ TimeOut(t) PROVE RegInv'
  <2>1. UNCHANGED <<account, acc>> /\ http' = [http EXCEPT ![t] = Quiet]
    BY <1>3 DEF Await, TimeOut, Tell
  <2> QED BY <1>0, <2>1, ObjectsStay, RestKeeps
<1>4. ASSUME NEW o \in Object, RegisterAnswered(o) PROVE RegInv'
  <2>1. PICK code \in Code, published \in BOOLEAN :
          acc' = [acc EXCEPT ![o] =
                    [@ EXCEPT !.tsx = "none",
                              !.promise = OnRegState(o, code, published),
                              !.past = Learnt(o, code, published)]]
    BY <1>4 DEF RegisterAnswered
  <2> DEFINE promise == OnRegState(o, code, published)
             past == Learnt(o, code, published)
             rec == [acc[o] EXCEPT !.tsx = "none", !.promise = promise, !.past = past]
  <2>2. promise \in {Unset, Broken} \union Code /\ past \in SUBSET {"accepted", "missed"}
    BY <1>0 DEF OnRegState, Learnt, AccState
  <2>3. acc' = [acc EXCEPT ![o] = rec]
    BY <1>0, <2>1
  <2>4. acc[o].obj = "live" /\ acc[o].tsx # "none"
    BY <1>4 DEF RegisterAnswered
  <2>5. promise \in {200, Unset} => past # {}
    BY <1>0, <2>4 DEF OnRegState, Learnt, Truthful, Unset, Code
  <2> HIDE DEF promise, past
  <2>6. rec \in AccState
    BY <1>0, <2>2, FieldsWritten
  <2>7. rec.promise = promise /\ rec.past = past
    BY <1>0 DEF AccState
  <2> HIDE DEF rec
  <2>8. Objects
    BY <2>3, <2>5, <2>6, <2>7, ObjectChanges
  <2> QED BY <1>0, <1>4, <2>8, RestKeeps DEF RegisterAnswered
<1>5. ASSUME NEW o \in Object, Renews(o) PROVE RegInv'
  BY <1>0, <1>5, SetRegistrationKeeps, RestKeeps DEF Renews, ReRegister
<1>6. CASE ReRegisterRoute \/ DeviceError
  BY <1>0, <1>6, SetRegistrationKeeps, RestKeeps DEF ReRegisterRoute, DeviceError, ReRegister, UnRegister
<1>7. CASE LogoutRoute
  <2>1. /\ account \in Object /\ account' = Null /\ UNCHANGED http
        /\ acc' = [acc EXCEPT ![account] =
                     [@ EXCEPT !.obj = "deleted", !.tsx = "none", !.promise = Abandoned(account)]]
    BY <1>0, <1>7 DEF LogoutRoute
  <2> DEFINE promise == Abandoned(account)
             rec == [acc[account] EXCEPT !.obj = "deleted", !.tsx = "none", !.promise = promise]
  <2>2. promise \in {Unset, Broken} \union Code
    BY <1>0, <2>1 DEF Abandoned, AccState
  <2>3. acc' = [acc EXCEPT ![account] = rec]
    BY <1>0, <2>1
  <2>4. promise = 200 => acc[account].past # {}
    BY <1>0, <2>1 DEF Abandoned, Truthful, Broken
  <2> HIDE DEF promise
  <2>5. rec \in AccState
    BY <1>0, <2>1, <2>2, FieldsWritten
  <2>6. rec.obj = "deleted" /\ rec.promise = promise /\ rec.past = acc[account].past
    BY <1>0, <2>1 DEF AccState
  <2> HIDE DEF rec
  <2>7. Objects
    BY <2>1, <2>3, <2>4, <2>5, <2>6, ObjectChanges
  <2> QED BY <2>1, <2>7, RestKeeps
<1>8. CASE UNCHANGED <<account, acc, http>>
  BY <1>0, <1>8, ObjectsStay, RestKeeps
<1> QED BY <1>1, <1>2, <1>3, <1>4, <1>5, <1>6, <1>7, <1>8 DEF RegNext, regVars, RefreshDevices

(* SIPAccount::onRegState: whenever create_result_promise holds a 200, it is *)
(* the registrar's word, unless the event of a result could not be           *)
(* published. *)
THEOREM PromisesKept == RegSpec => []RegInv
<1>1. RegInit => RegInv
  BY DEF RegInit, RegInv, Shape, Truthful, AccState, Unborn, Quiet, Unset, Broken, Code
<1>2. RegInv /\ [RegNext]_regVars => RegInv'
  BY StepKeeps
<1> QED BY <1>1, <1>2, PTL DEF RegSpec

(* POST /login?sync: one that has waited and is told 200 was accepted, through *)
(* every race with logouts, logins, re-registrations and device errors.     *)
THEOREM SyncLoginHolds == RegSpec => SyncLoginIsTrue
<1>1. ASSUME RegInv, [RegNext]_regVars, NEW t \in Thread,
             http[t].at = "waiting", http'[t].at = "idle", reply' = <<200, 200>>
      PROVE  acc[http[t].obj].past # {}
  <2>1. http[t].obj \in Object
    BY <1>1 DEF RegInv, Shape
  <2>2. Await(t)
    <3> USE <1>1 DEF Tell, Silent, Quiet, RegInv, Shape
    <3>1. ~UNCHANGED http
      OBVIOUS
    <3>2. ASSUME NEW u \in Thread, LoginRoute(u) PROVE FALSE
      BY <3>2 DEF LoginRoute
    <3>3. ASSUME NEW u \in Thread, AddAccount(u) PROVE FALSE
      BY <3>3 DEF AddAccount
    <3>4. ASSUME NEW u \in Thread, TimeOut(u) PROVE FALSE
      BY <3>4 DEF TimeOut
    <3>5. ASSUME NEW u \in Thread, Await(u) PROVE u = t
      BY <3>5 DEF Await
    <3>6. ASSUME NEW o \in Object, RegisterAnswered(o) \/ Renews(o) PROVE UNCHANGED http
      BY <3>6 DEF RegisterAnswered, Renews
    <3>7. ReRegisterRoute \/ LogoutRoute \/ DeviceError \/ RefreshDevices => UNCHANGED http
      BY DEF ReRegisterRoute, LogoutRoute, DeviceError, RefreshDevices
    <3> QED BY <3>1, <3>2, <3>3, <3>4, <3>5, <3>6, <3>7 DEF RegNext, regVars
  <2>3. acc[http[t].obj].promise = 200
    BY <1>1, <2>2 DEF Await, Tell
  <2> QED BY <1>1, <2>1, <2>3 DEF RegInv, Truthful
<1>2. RegInv /\ [RegNext]_regVars =>
        [\A t \in Thread : http[t].at = "waiting" /\ http'[t].at = "idle" /\ reply' = <<200, 200>> =>
           acc[http[t].obj].past # {}]_regVars
  BY <1>1
<1> QED BY <1>2, PromisesKept, PTL DEF RegSpec, SyncLoginIsTrue

-----------------------------------------------------------------------------
(* The loops of ConfigureAudioDevices: what they choose.                    *)

(* A set of numbers has a least one.                                        *)
LEMMA LeastOf ==
    ASSUME NEW S \in SUBSET Nat, S # {}
    PROVE  Min(S) \in S /\ \A k \in S : Min(S) <= k
<1> DEFINE Less == OpToRel(<, Nat)
<1>1. \A i, j \in Nat : i < j => <<i, j>> \in Less
  BY DEF OpToRel
<1>2. IsWellFoundedOn(Less, Nat)
  BY NatLessThanWellFounded
<1> HIDE DEF Less
<1>3. PICK m \in S : \A k \in S : <<k, m>> \notin Less
  BY <1>2, WFMin
<1>4. ASSUME NEW k \in S PROVE m <= k
  <2>1. ~(k < m)
    BY <1>1, <1>3
  <2> QED BY <2>1
<1> QED BY <1>4 DEF Min

(* A loop of n turns, each of which makes a number of the one before: it    *)
(* gives a number after every turn.                                         *)
LEMMA LoopRuns ==
    ASSUME NEW n \in Nat, NEW c \in Int, NEW turn \in [1..n -> [Int -> Int]]
    PROVE  \E f \in [0..n -> Int] : f[0] = c /\ \A i \in 1..n : f[i] = turn[i][f[i - 1]]
<1> DEFINE Runs(f, k) == f[0] = c /\ \A i \in 1..k : f[i] = turn[i][f[i - 1]]
           Stuck == {k \in 0..n : ~\E f \in [0..n -> Int] : Runs(f, k)}
<1>1. Stuck = {}
  <2> SUFFICES ASSUME Stuck # {} PROVE FALSE
    OBVIOUS
  <2>1. Stuck \in SUBSET Nat
    OBVIOUS
  <2>2. PICK m : m \in Stuck /\ \A k \in Stuck : m <= k
    <3> HIDE DEF Stuck
    <3> QED BY <2>1, LeastOf
  <2>3. m \in 0..n /\ ~\E f \in [0..n -> Int] : Runs(f, m)
    BY <2>2
  <2>4. m # 0
    <3> DEFINE f == [i \in 0..n |-> c]
    <3>1. f \in [0..n -> Int] /\ f[0] = c
      OBVIOUS
    <3> HIDE DEF f
    <3>2. Runs(f, 0)
      BY <3>1
    <3> QED BY <2>3, <3>1, <3>2
  <2>5. m - 1 \in 0..n /\ m \in 1..n /\ ~(m <= m - 1)
    BY <2>3, <2>4
  <2>6. m - 1 \notin Stuck
    <3> HIDE DEF Stuck
    <3> QED BY <2>2, <2>5
  <2>7. PICK f \in [0..n -> Int] : Runs(f, m - 1)
    BY <2>5, <2>6
  <2> DEFINE g == [f EXCEPT ![m] = turn[m][f[m - 1]]]
  <2>8. /\ g \in [0..n -> Int] /\ g[m] = turn[m][f[m - 1]]
        /\ \A i \in 0..(m - 1) : g[i] = f[i]
    <3>1. turn[m][f[m - 1]] \in Int
      BY <2>5
    <3>2. \A i \in 0..(m - 1) : i \in 0..n /\ i # m
      BY <2>3
    <3>3. m \in 0..n
      BY <2>3
    <3> HIDE DEF Runs
    <3> QED BY <3>1, <3>2, <3>3
  <2> HIDE DEF g
  <2>9. g[0] = c
    BY <2>3, <2>4, <2>7, <2>8
  <2>10. ASSUME NEW i \in 1..m PROVE g[i] = turn[i][g[i - 1]]
    <3>1. CASE i = m
      BY <2>3, <2>4, <2>8, <3>1
    <3>2. CASE i # m
      <4>1. i \in 1..(m - 1) /\ i \in 0..(m - 1) /\ i - 1 \in 0..(m - 1)
        BY <2>3, <3>2
      <4> QED BY <2>7, <2>8, <4>1
    <3> QED BY <3>1, <3>2
  <2>11. Runs(g, m)
    BY <2>9, <2>10
  <2> HIDE DEF Runs
  <2> QED BY <2>3, <2>8, <2>11
<1>2. n \in 0..n
  OBVIOUS
<1>3. PICK f \in [0..n -> Int] : Runs(f, n)
  BY <1>1, <1>2
<1> QED BY <1>3

(* The choice r among the numbers that fit, F, one above: what has been     *)
(* chosen stays, and the first one is taken, number 0 apart.                *)
Takes(r, c, F) ==
    /\ r \in Int
    /\ c > 0 => r = c
    /\ ~(c > 0) /\ F # {} => r = Min(F) - 1
    /\ ~(c > 0) /\ F = {} => r \in {c, 0}

Called(able, name) == {i \in DOMAIN devices : i > 1 /\ able[i] /\ name \in devices[i].names}

LEMMA PickTakes ==
    ASSUME devices \in Seq(Device), NEW able, NEW name, NEW chosen \in Int
    PROVE  Takes(Pick(able, name, chosen), chosen, Called(able, name))
<1> DEFINE n == Len(devices)
           Hit(i) == name \in devices[i].names /\ able[i]
           turn == [i \in 1..n |-> [x \in Int |->
                      IF name \in devices[i].names /\ able[i] /\ x <= 0 THEN i - 1 ELSE x]]
           best == CHOOSE f : f = [i \in 0..n |->
                      IF i = 0 THEN chosen
                      ELSE IF name \in devices[i].names /\ able[i] /\ f[i - 1] <= 0 THEN i - 1
                      ELSE f[i - 1]]
<1>1. n \in Nat /\ DOMAIN devices = 1..n
  OBVIOUS
<1>2. Pick(able, name, chosen) = best[n]
  BY DEF Pick
<1>3. turn \in [1..n -> [Int -> Int]]
  <2> HIDE DEF n
  <2> QED BY <1>1
<1>4. \E f : f = [i \in 0..n |->
                   IF i = 0 THEN chosen
                   ELSE IF name \in devices[i].names /\ able[i] /\ f[i - 1] <= 0 THEN i - 1
                   ELSE f[i - 1]]
  <2> HIDE DEF n
  <2>1. PICK f \in [0..n -> Int] : f[0] = chosen /\ \A i \in 1..n : f[i] = turn[i][f[i - 1]]
    <3> HIDE DEF turn
    <3> QED BY <1>1, <1>3, LoopRuns
  <2>2. ASSUME NEW i \in 0..n
        PROVE  f[i] = IF i = 0 THEN chosen
                      ELSE IF name \in devices[i].names /\ able[i] /\ f[i - 1] <= 0 THEN i - 1
                      ELSE f[i - 1]
    <3>1. CASE i = 0
      BY <2>1, <3>1
    <3>2. CASE i # 0
      <4>1. i \in 1..n /\ i - 1 \in 0..n
        BY <1>1, <3>2
      <4>2. f[i - 1] \in Int
        BY <4>1
      <4> QED BY <2>1, <3>2, <4>1, <4>2
    <3> QED BY <3>1, <3>2
  <2>3. f = [i \in 0..n |->
                   IF i = 0 THEN chosen
                   ELSE IF name \in devices[i].names /\ able[i] /\ f[i - 1] <= 0 THEN i - 1
                   ELSE f[i - 1]]
    BY <2>2
  <2> QED BY <2>3
<1>5. best = [i \in 0..n |->
                   IF i = 0 THEN chosen
                   ELSE IF name \in devices[i].names /\ able[i] /\ best[i - 1] <= 0 THEN i - 1
                   ELSE best[i - 1]]
  BY <1>4, Zenon
<1> HIDE DEF n, best
<1>6. /\ best[0] = chosen
      /\ \A i \in 1..n : best[i] = IF Hit(i) /\ best[i - 1] <= 0 THEN i - 1 ELSE best[i - 1]
  <2> DEFINE g == [i \in 0..n |->
                   IF i = 0 THEN chosen
                   ELSE IF name \in devices[i].names /\ able[i] /\ best[i - 1] <= 0 THEN i - 1
                   ELSE best[i - 1]]
  <2>1. g[0] = chosen
    BY <1>1
  <2>2. ASSUME NEW i \in 1..n PROVE g[i] = IF Hit(i) /\ best[i - 1] <= 0 THEN i - 1 ELSE best[i - 1]
    BY <1>1
  <2>3. best = g
    BY <1>5
  <2> HIDE DEF g, Hit
  <2> QED BY <2>1, <2>2, <2>3
<1> DEFINE F(k) == {i \in 2..k : Hit(i)}
           Wrong == {k \in 0..n : ~Takes(best[k], chosen, F(k))}
<1>7. Wrong = {}
  <2> SUFFICES ASSUME Wrong # {} PROVE FALSE
    OBVIOUS
  <2>1. Wrong \in SUBSET Nat
    BY <1>1
  <2>2. PICK m : m \in Wrong /\ \A k \in Wrong : m <= k
    <3> HIDE DEF Wrong
    <3> QED BY <2>1, LeastOf
  <2>3. m \in 0..n /\ ~Takes(best[m], chosen, F(m))
    BY <2>2
  <2>4. m # 0
    <3>1. F(0) = {} /\ best[0] = chosen
      BY <1>6
    <3>2. Takes(best[0], chosen, F(0))
      BY <3>1 DEF Takes
    <3> QED BY <2>3, <3>2
  <2>5. m - 1 \in 0..n /\ m \in 1..n /\ ~(m <= m - 1) /\ m \in Nat
    BY <1>1, <2>3, <2>4
  <2>6. m - 1 \notin Wrong
    <3> HIDE DEF Wrong
    <3> QED BY <2>2, <2>5
  <2> DEFINE x == best[m - 1]
             r == best[m]
             G == F(m - 1)
  <2>7. Takes(x, chosen, G)
    BY <2>5, <2>6
  <2>8. r = IF Hit(m) /\ x <= 0 THEN m - 1 ELSE x
    BY <1>6, <2>5
  <2>9. F(m) = IF m > 1 /\ Hit(m) THEN G \union {m} ELSE G
    <3> HIDE DEF Hit
    <3>1. \A i \in 2..m : i \in 2..(m - 1) \/ i = m
      BY <2>5
    <3>2. \A i \in 2..(m - 1) : i \in 2..m /\ i # m
      BY <2>5
    <3> QED BY <2>5, <3>1, <3>2
  <2>10. G \in SUBSET Nat /\ \A i \in G : i >= 2 /\ i < m
    <3> HIDE DEF Hit
    <3> QED BY <2>5
  <2> HIDE DEF x, r, G, Hit, F
  <2>11. G # {} => Min(G) \in G
    BY <2>10, LeastOf
  <2>12. Takes(r, chosen, F(m))
    <3>0. x \in Int /\ r \in Int
      BY <2>5, <2>7, <2>8 DEF Takes
    <3>1. CASE chosen > 0
      <4>1. x = chosen /\ r = x
        BY <2>7, <2>8, <3>0, <3>1 DEF Takes
      <4> QED BY <3>0, <3>1, <4>1 DEF Takes
    <3>2. CASE ~(chosen > 0) /\ G # {}
      <4>1. x = Min(G) - 1 /\ Min(G) >= 2 /\ Min(G) \in Nat
        BY <2>7, <2>10, <2>11, <3>2 DEF Takes
      <4>2. r = Min(G) - 1
        BY <2>8, <4>1
      <4>3. F(m) # {} /\ Min(F(m)) = Min(G)
        <5>1. CASE F(m) = G
          BY <3>2, <5>1
        <5>2. CASE F(m) = G \union {m}
          <6>1. F(m) \in SUBSET Nat /\ F(m) # {}
            BY <2>5, <2>10, <5>2
          <6>2. Min(F(m)) \in F(m) /\ \A k \in F(m) : Min(F(m)) <= k
            BY <6>1, LeastOf
          <6>3. Min(G) \in F(m) /\ \A k \in G : Min(G) <= k
            BY <2>10, <2>11, <3>2, <5>2, LeastOf
          <6>4. Min(F(m)) <= Min(G) /\ Min(G) < m /\ Min(F(m)) \in Nat
            BY <2>10, <2>11, <3>2, <6>1, <6>2, <6>3
          <6>5. Min(F(m)) \in G
            BY <2>5, <4>1, <5>2, <6>2, <6>4
          <6>6. Min(G) <= Min(F(m))
            BY <6>3, <6>5
          <6> QED BY <4>1, <6>1, <6>4, <6>6
        <5> QED BY <2>9, <5>1, <5>2
      <4> QED BY <3>0, <3>2, <4>2, <4>3 DEF Takes
    <3>3. CASE ~(chosen > 0) /\ G = {} /\ Hit(m) /\ m > 1
      <4>1. x \in {chosen, 0}
        BY <2>7, <3>3 DEF Takes
      <4>2. r = m - 1
        BY <2>8, <3>0, <3>3, <4>1
      <4>3. F(m) = {m}
        BY <2>9, <3>3
      <4>4. Min(F(m)) = m
        <5>1. F(m) \in SUBSET Nat /\ F(m) # {}
          BY <2>5, <4>3
        <5> QED BY <4>3, <5>1, LeastOf
      <4> QED BY <3>0, <3>3, <4>2, <4>3, <4>4 DEF Takes
    <3>4. CASE ~(chosen > 0) /\ G = {} /\ ~(Hit(m) /\ m > 1)
      <4>1. x \in {chosen, 0}
        BY <2>7, <3>4 DEF Takes
      <4>2. F(m) = {}
        BY <2>9, <3>4
      <4>3. r \in {chosen, 0}
        <5>1. CASE Hit(m)
          BY <2>5, <2>8, <3>4, <4>1, <5>1
        <5>2. CASE ~Hit(m)
          BY <2>8, <4>1, <5>2
        <5> QED BY <5>1, <5>2
      <4> QED BY <3>0, <3>4, <4>2, <4>3 DEF Takes
    <3> QED BY <3>1, <3>2, <3>3, <3>4
  <2> QED BY <2>3, <2>12 DEF r
<1>8. Takes(best[n], chosen, F(n))
  <2>1. n \in 0..n
    BY <1>1
  <2> HIDE DEF F
  <2> QED BY <1>7, <2>1
<1>9. F(n) = Called(able, name)
  <2>1. \A i \in 1..n : i > 1 <=> i \in 2..n
    BY <1>1
  <2>2. \A i \in 2..n : i \in 1..n
    BY <1>1
  <2> QED BY <1>1, <2>1, <2>2 DEF Called
<1> QED BY <1>2, <1>8, <1>9

(* What ConfigureAudioDevices makes of a number: one above zero stays, and  *)
(* otherwise the first device above zero is taken that the earliest of the  *)
(* names with such a device fits.                                           *)
First(able) ==
    LET ps == {p \in DOMAIN Preferred : Called(able, Preferred[p]) # {}}
    IN  IF ps = {} THEN {} ELSE {Min(Called(able, Preferred[Min(ps)])) - 1}
Settles(before, after, able) ==
    /\ before > 0 => after = before
    /\ ~(before > 0) /\ First(able) # {} => after \in First(able)
    /\ ~(before > 0) /\ First(able) = {} => after \in {before, 0}

LEMMA ChosenSettles ==
    ASSUME devices \in Seq(Device), NEW able, NEW before \in Int
    PROVE  /\ Settles(before, Chosen(able, before), able)
           /\ Chosen(able, before) \in Int
<1> DEFINE n == Len(Preferred)
           G(p) == Called(able, Preferred[p])
           turn == [p \in 1..n |-> [x \in Int |-> Pick(able, Preferred[p], x)]]
           best == CHOOSE f : f = [p \in 0..n |->
                      IF p = 0 THEN before ELSE Pick(able, Preferred[p], f[p - 1])]
<1>1. n \in Nat /\ DOMAIN Preferred = 1..n
  BY DevicesAssumption DEF DevicesAssumption
<1>2. Chosen(able, before) = best[n]
  BY DEF Chosen
<1>3. ASSUME NEW p \in 1..n, NEW x \in Int PROVE Takes(Pick(able, Preferred[p], x), x, G(p))
  BY PickTakes
<1>4. turn \in [1..n -> [Int -> Int]]
  <2> HIDE DEF n, G
  <2>1. \A p \in 1..n, x \in Int : Pick(able, Preferred[p], x) \in Int
    BY <1>3 DEF Takes
  <2> QED BY <2>1
<1>5. \E f : f = [p \in 0..n |-> IF p = 0 THEN before ELSE Pick(able, Preferred[p], f[p - 1])]
  <2> HIDE DEF n, G
  <2>1. PICK f \in [0..n -> Int] : f[0] = before /\ \A p \in 1..n : f[p] = turn[p][f[p - 1]]
    <3> HIDE DEF turn
    <3> QED BY <1>1, <1>4, LoopRuns
  <2>2. ASSUME NEW p \in 0..n
        PROVE  f[p] = IF p = 0 THEN before ELSE Pick(able, Preferred[p], f[p - 1])
    <3>1. CASE p = 0
      BY <2>1, <3>1
    <3>2. CASE p # 0
      <4>1. p \in 1..n /\ p - 1 \in 0..n
        BY <1>1, <3>2
      <4>2. f[p - 1] \in Int
        BY <4>1
      <4> QED BY <2>1, <3>2, <4>1, <4>2
    <3> QED BY <3>1, <3>2
  <2>3. f = [p \in 0..n |-> IF p = 0 THEN before ELSE Pick(able, Preferred[p], f[p - 1])]
    BY <2>2
  <2> QED BY <2>3
<1>6. best = [p \in 0..n |-> IF p = 0 THEN before ELSE Pick(able, Preferred[p], best[p - 1])]
  BY <1>5, Zenon
<1> HIDE DEF n, best
<1>7. best[0] = before /\ \A p \in 1..n : best[p] = Pick(able, Preferred[p], best[p - 1])
  <2> DEFINE g == [p \in 0..n |-> IF p = 0 THEN before ELSE Pick(able, Preferred[p], best[p - 1])]
  <2>1. g[0] = before
    BY <1>1
  <2>2. ASSUME NEW p \in 1..n PROVE g[p] = Pick(able, Preferred[p], best[p - 1])
    BY <1>1
  <2>3. best = g
    BY <1>6
  <2> HIDE DEF g
  <2> QED BY <2>1, <2>2, <2>3
<1> DEFINE Named(k) == {p \in 1..k : G(p) # {}}
           Right(k) == /\ best[k] \in Int
                       /\ before > 0 => best[k] = before
                       /\ ~(before > 0) /\ Named(k) # {} => best[k] = Min(G(Min(Named(k)))) - 1
                       /\ ~(before > 0) /\ Named(k) = {} => best[k] \in {before, 0}
           Wrong == {k \in 0..n : ~Right(k)}
<1>8. \A p \in 1..n : G(p) # {} => Min(G(p)) \in Nat /\ Min(G(p)) >= 2
  <2> SUFFICES ASSUME NEW p \in 1..n, G(p) # {} PROVE Min(G(p)) \in Nat /\ Min(G(p)) >= 2
    OBVIOUS
  <2>1. G(p) \in SUBSET Nat /\ \A i \in G(p) : i \in Nat /\ i >= 2
    BY DEF Called
  <2> HIDE DEF G
  <2>2. Min(G(p)) \in G(p)
    BY <2>1, LeastOf
  <2> QED BY <2>1, <2>2
<1> HIDE DEF G, turn
<1>9. ASSUME NEW k \in 0..n, k # 0, Right(k - 1) PROVE Right(k)
  <2>1. k \in 1..n /\ k - 1 \in 0..n /\ k \in Nat
    BY <1>1, <1>9
  <2> DEFINE x == best[k - 1]
             r == best[k]
             A == Named(k - 1)
             B == Named(k)
  <2>2. x \in Int
    BY <1>9
  <2>3. Takes(r, x, G(k))
    <3>1. r = Pick(able, Preferred[k], x)
      BY <1>7, <2>1
    <3> HIDE DEF r, x
    <3> QED BY <1>3, <2>1, <2>2, <3>1
  <2>4. B = IF G(k) # {} THEN A \union {k} ELSE A
    <3>1. \A i \in 1..k : i \in 1..(k - 1) \/ i = k
      BY <2>1
    <3>2. \A i \in 1..(k - 1) : i \in 1..k /\ i # k
      BY <2>1
    <3> QED BY <2>1, <3>1, <3>2
  <2>5. A \in SUBSET Nat /\ B \in SUBSET Nat /\ \A i \in A : i < k /\ G(i) # {} /\ i \in 1..n
    BY <1>1, <2>1
  <2>6. /\ before > 0 => x = before
        /\ ~(before > 0) /\ A # {} => x = Min(G(Min(A))) - 1
        /\ ~(before > 0) /\ A = {} => x \in {before, 0}
    BY <1>9
  <2>7. /\ r \in Int
        /\ before > 0 => r = before
        /\ ~(before > 0) /\ B # {} => r = Min(G(Min(B))) - 1
        /\ ~(before > 0) /\ B = {} => r \in {before, 0}
    <3> HIDE DEF x, r, A, B
    <3>0. r \in Int
      BY <2>3 DEF Takes
    <3>1. CASE before > 0
      BY <2>3, <2>6, <3>0, <3>1 DEF Takes
    <3>2. CASE ~(before > 0) /\ A # {}
      <4>1. Min(A) \in A /\ \A i \in A : Min(A) <= i
        BY <2>5, <3>2, LeastOf
      <4>2. x = Min(G(Min(A))) - 1 /\ x > 0
        <5> DEFINE a == Min(A)
        <5>1. a \in 1..n /\ G(a) # {}
          BY <2>5, <4>1
        <5>2. Min(G(a)) \in Nat /\ Min(G(a)) >= 2
          BY <1>8, <5>1
        <5>3. x = Min(G(a)) - 1
          BY <2>6, <3>2
        <5> QED BY <5>2, <5>3
      <4>3. r = x
        BY <2>3, <4>2 DEF Takes
      <4>4. Min(B) = Min(A) /\ B # {}
        <5>1. CASE B = A
          BY <3>2, <5>1
        <5>2. CASE B = A \union {k}
          <6>1. Min(B) \in B /\ \A i \in B : Min(B) <= i
            BY <2>5, <4>1, <5>2, LeastOf
          <6>2. Min(A) \in Nat /\ Min(A) < k /\ Min(B) <= Min(A) /\ Min(B) \in Nat
            BY <2>5, <4>1, <5>2, <6>1
          <6>3. Min(B) \in A
            BY <2>1, <5>2, <6>1, <6>2
          <6> QED BY <4>1, <5>2, <6>2, <6>3
        <5> QED BY <2>4, <5>1, <5>2
      <4> QED BY <3>0, <3>2, <4>2, <4>3, <4>4
    <3>3. CASE ~(before > 0) /\ A = {}
      <4>1. x \in {before, 0} /\ ~(x > 0)
        BY <2>6, <3>3
      <4>2. CASE G(k) # {}
        <5>1. B = {k} /\ r = Min(G(k)) - 1
          BY <2>3, <2>4, <3>3, <4>1, <4>2 DEF Takes
        <5>2. Min(B) = k
          BY <2>5, <5>1, LeastOf
        <5> QED BY <3>0, <3>3, <5>1, <5>2
      <4>3. CASE G(k) = {}
        BY <2>3, <2>4, <3>0, <3>3, <4>1, <4>3 DEF Takes
      <4> QED BY <4>2, <4>3
    <3> QED BY <3>1, <3>2, <3>3
  <2> QED BY <2>7
<1>10. Right(0)
  <2>1. Named(0) = {}
    OBVIOUS
  <2> QED BY <1>7, <2>1
<1>11. Wrong = {}
  <2> SUFFICES ASSUME Wrong # {} PROVE FALSE
    OBVIOUS
  <2> HIDE DEF Right
  <2>1. Wrong \in SUBSET Nat
    BY <1>1
  <2>2. PICK m : m \in Wrong /\ \A k \in Wrong : m <= k
    <3> HIDE DEF Wrong
    <3> QED BY <2>1, LeastOf
  <2>3. m \in 0..n /\ ~Right(m) /\ m # 0
    BY <1>10, <2>2
  <2>4. m - 1 \in 0..n /\ ~(m <= m - 1)
    BY <1>1, <2>3
  <2>5. m - 1 \notin Wrong
    <3> HIDE DEF Wrong
    <3> QED BY <2>2, <2>4
  <2> QED BY <1>9, <2>3, <2>4, <2>5
<1>12. Right(n)
  <2>1. n \in 0..n
    BY <1>1
  <2> HIDE DEF Right
  <2> QED BY <1>11, <2>1
<1>13. \A p \in 1..n : Called(able, Preferred[p]) = G(p)
  BY DEF G
<1>14. First(able) = IF Named(n) = {} THEN {} ELSE {Min(G(Min(Named(n)))) - 1}
  <2>1. {p \in DOMAIN Preferred : Called(able, Preferred[p]) # {}} = Named(n)
    BY <1>1, <1>13
  <2>2. First(able) = IF Named(n) = {} THEN {} ELSE {Min(Called(able, Preferred[Min(Named(n))])) - 1}
    <3> HIDE DEF Named
    <3> QED BY <2>1 DEF First
  <2>3. Named(n) # {} => Min(Named(n)) \in 1..n
    <3>1. Named(n) \in SUBSET Nat
      BY <1>1
    <3>2. Named(n) # {} => Min(Named(n)) \in Named(n)
      <4> HIDE DEF Named
      <4> QED BY <3>1, LeastOf
    <3> QED BY <3>2
  <2> HIDE DEF Named
  <2> QED BY <1>13, <2>2, <2>3
<1>15. /\ best[n] \in Int
       /\ before > 0 => best[n] = before
       /\ ~(before > 0) /\ First(able) # {} => best[n] \in First(able)
       /\ ~(before > 0) /\ First(able) = {} => best[n] \in {before, 0}
  <2>1. /\ best[n] \in Int
        /\ before > 0 => best[n] = before
        /\ ~(before > 0) /\ Named(n) # {} => best[n] = Min(G(Min(Named(n)))) - 1
        /\ ~(before > 0) /\ Named(n) = {} => best[n] \in {before, 0}
    BY <1>12
  <2> HIDE DEF Named
  <2> QED BY <1>14, <2>1
<1> HIDE DEF Named
<1> QED BY <1>2, <1>15 DEF Settles

(* The best device is the first one above zero, unless it is number zero.   *)
LEMMA SettlesOnPreferred ==
    ASSUME devices \in Seq(Device), NEW able, NEW before \in Nat, NEW after \in Int,
           Settles(before, after, able)
    PROVE  TakesPreferred(before, after, able) /\ after \in Nat
<1> DEFINE n == Len(Preferred)
           F(p) == Fits(able, p)
           G(p) == Called(able, Preferred[p])
           All == {p \in DOMAIN Preferred : F(p) # {}}
           Above == {p \in DOMAIN Preferred : G(p) # {}}
<1>1. n \in Nat /\ DOMAIN Preferred = 1..n
  BY DevicesAssumption DEF DevicesAssumption
<1>2. \A p : F(p) \in SUBSET Nat /\ G(p) = {i \in F(p) : i > 1}
  <2>1. DOMAIN devices \subseteq Nat
    OBVIOUS
  <2> QED BY <2>1 DEF Fits, Called
<1>3. Best(able) = IF All = {} THEN -1 ELSE Min(F(Min(All))) - 1
  BY DEF Best
<1>4. First(able) = IF Above = {} THEN {} ELSE {Min(G(Min(Above))) - 1}
  BY DEF First
<1>5. All \in SUBSET Nat /\ Above \in SUBSET Nat /\ Above \subseteq All
  <2> HIDE DEF F, G
  <2>1. \A p : G(p) # {} => F(p) # {}
    BY <1>2
  <2> QED BY <1>1, <2>1
<1>6. \A p \in All : p \in DOMAIN Preferred /\ F(p) # {}
  OBVIOUS
<1>7. \A p \in Above : p \in DOMAIN Preferred /\ G(p) # {}
  OBVIOUS
<1>8. \A p \in All : G(p) # {} => p \in Above
  OBVIOUS
<1> HIDE DEF n, F, G, All, Above
<1>9. ASSUME Above # {}
      PROVE  \E p \in DOMAIN Preferred :
               /\ Min(G(Min(Above))) \in F(p) /\ Min(G(Min(Above))) \in Nat /\ Min(G(Min(Above))) > 1
  <2> DEFINE a == Min(Above)
  <2>1. a \in Above
    BY <1>5, <1>9, LeastOf
  <2>2. a \in DOMAIN Preferred /\ G(a) # {} /\ G(a) \in SUBSET Nat
    BY <1>2, <1>7, <2>1
  <2> HIDE DEF a
  <2>3. Min(G(a)) \in G(a)
    BY <2>2, LeastOf
  <2>4. Min(G(a)) \in F(a) /\ Min(G(a)) \in Nat /\ Min(G(a)) > 1
    BY <1>2, <2>2, <2>3
  <2> QED BY <2>2, <2>4 DEF a
<1>10. ASSUME Best(able) > 0 PROVE First(able) = {Best(able)}
  <2> DEFINE a == Min(All)
             b == Min(Above)
  <2>1. All # {} /\ Best(able) = Min(F(a)) - 1
    BY <1>3, <1>10
  <2>2. a \in All /\ \A p \in All : a <= p
    BY <1>5, <2>1, LeastOf
  <2>3. F(a) # {} /\ F(a) \in SUBSET Nat /\ a \in Nat
    BY <1>2, <1>5, <1>6, <2>2
  <2> HIDE DEF a
  <2>4. Min(F(a)) \in F(a) /\ \A i \in F(a) : Min(F(a)) <= i
    BY <2>3, LeastOf
  <2>5. Min(F(a)) \in Nat /\ Min(F(a)) > 1
    BY <1>10, <2>1, <2>3, <2>4
  <2>6. \A i \in F(a) : i > 1
    BY <2>3, <2>4, <2>5
  <2>7. G(a) = F(a)
    BY <1>2, <2>6
  <2>8. a \in Above
    BY <1>8, <2>2, <2>3, <2>7
  <2>9. b \in Above /\ \A p \in Above : b <= p
    BY <1>5, <2>8, LeastOf
  <2>10. a = b
    <3>1. b <= a /\ a <= b /\ b \in Nat
      BY <1>5, <2>2, <2>8, <2>9
    <3> HIDE DEF b
    <3> QED BY <2>3, <3>1
  <2> QED BY <1>4, <2>1, <2>7, <2>8, <2>10
<1>11. ASSUME after # before PROVE \E p \in DOMAIN Preferred : after + 1 \in F(p)
  <2>1. First(able) # {} /\ after \in First(able)
    BY <1>11 DEF Settles
  <2>2. Above # {} /\ after = Min(G(Min(Above))) - 1
    BY <1>4, <2>1
  <2>3. PICK p \in DOMAIN Preferred : Min(G(Min(Above))) \in F(p) /\ Min(G(Min(Above))) \in Nat
    BY <1>9, <2>2
  <2>4. after + 1 = Min(G(Min(Above)))
    BY <2>2, <2>3
  <2> QED BY <2>3, <2>4
<1>12. before <= 0 /\ Best(able) > 0 => after = Best(able)
  <2> SUFFICES ASSUME before <= 0, Best(able) > 0 PROVE after = Best(able)
    OBVIOUS
  <2>1. ~(before > 0) /\ First(able) = {Best(able)}
    BY <1>10
  <2> QED BY <2>1 DEF Settles
<1>13. after \in Nat
  <2>1. CASE before > 0 \/ First(able) = {}
    BY <2>1 DEF Settles
  <2>2. CASE ~(before > 0) /\ First(able) # {}
    <3>1. Above # {} /\ after = Min(G(Min(Above))) - 1
      BY <1>4, <2>2 DEF Settles
    <3>2. Min(G(Min(Above))) \in Nat /\ Min(G(Min(Above))) > 1
      BY <1>9, <3>1
    <3> QED BY <3>1, <3>2
  <2> QED BY <2>1, <2>2
<1> QED BY <1>11, <1>12, <1>13 DEF TakesPreferred, F

(* The numbers count devices, unless the system chooses.                    *)
Counts == DevicesTypeOK /\ (~UseDefault => input \in Nat /\ output \in Nat)

LEMMA DevicesHold == RegSpec => []Counts
<1>1. RegInit => Counts
  BY DEF RegInit, DevicesInit, DevicesTypeOK, Counts
<1>2. Counts /\ [RegNext]_regVars => Counts'
  <2> SUFFICES ASSUME Counts, [RegNext]_regVars PROVE Counts'
    OBVIOUS
  <2> USE DEF Counts
  <2>1. CASE UNCHANGED deviceVars
    BY <2>1 DEF DevicesTypeOK, deviceVars
  <2>2. CASE RefreshDevices
    <3>1. devices \in Seq(Device) /\ input \in Int /\ output \in Int
      BY DevicesAssumption DEF DevicesAssumption, DevicesTypeOK
    <3>2. Chosen(Inputs, input) \in Int /\ Chosen(Outputs, output) \in Int
      BY <3>1, ChosenSettles
    <3>3. ~UseDefault => Chosen(Inputs, input) \in Nat /\ Chosen(Outputs, output) \in Nat
      BY <3>1, ChosenSettles, SettlesOnPreferred
    <3> QED BY <2>2, <3>2, <3>3 DEF RefreshDevices, ConfigureAudioDevices, DevicesTypeOK
  <2>3. CASE Plug
    BY <2>3 DEF Plug, DevicesTypeOK
  <2> QED
    BY <2>1, <2>2, <2>3 DEF RegNext, regVars, LoginRoute, AddAccount, Await, TimeOut, RegisterAnswered,
       Renews, ReRegisterRoute, LogoutRoute, DeviceError
<1> QED BY <1>1, <1>2, PTL DEF RegSpec

Replied == reply \in Nat \X Nat

(* The variables stay in their types: every promise holds a code of the     *)
(* registrar, or is unset or broken, and every response has its two codes.  *)
THEOREM RegTyping == RegSpec => []RegTypeOK
<1>1. RegInit => Replied
  BY DEF RegInit, Replied
<1>2. RegInv /\ Replied /\ [RegNext]_regVars => Replied'
  <2> SUFFICES ASSUME RegInv, Replied, [RegNext]_regVars PROVE Replied'
    OBVIOUS
  <2>1. ASSUME Silent PROVE Replied'
    BY <2>1 DEF Silent, Replied
  <2>2. ASSUME NEW t \in Thread, NEW code \in Nat, NEW result \in Nat, Tell(t, code, result)
        PROVE  Replied'
    BY <2>2 DEF Tell, Replied
  <2>3. ASSUME NEW t \in Thread, LoginRoute(t) \/ AddAccount(t) \/ TimeOut(t) PROVE Replied'
    <3>1. CASE LoginRoute(t)
      <4>1. Tell(t, 400, 0) \/ Tell(t, 200, 200) \/ Tell(t, 202, 202) \/ Tell(t, 403, 0) \/ Silent
        BY <3>1, Zenon DEF LoginRoute
      <4> QED BY <2>1, <2>2, <4>1
    <3>2. CASE AddAccount(t)
      <4>1. Tell(t, 500, 0) \/ Tell(t, 500, 503) \/ Tell(t, 202, 0) \/ Silent
        BY <3>2, Zenon DEF AddAccount
      <4> QED BY <2>1, <2>2, <4>1
    <3>3. CASE TimeOut(t)
      BY <2>2, <3>3 DEF TimeOut
    <3> QED BY <2>3, <3>1, <3>2, <3>3
  <2>4. ASSUME NEW t \in Thread, Await(t) PROVE Replied'
    <3>1. \/ \E code \in Code : Tell(t, 200, code)
          \/ Tell(t, 500, 0)
      BY <2>4 DEF Await
    <3> QED BY <2>2, <3>1 DEF Code
  <2>5. CASE UNCHANGED regVars
    BY <2>5 DEF regVars, Replied
  <2>6. ASSUME ~\E t \in Thread : LoginRoute(t) \/ AddAccount(t) \/ Await(t) \/ TimeOut(t), RegNext
        PROVE  Silent
    BY <2>6 DEF RegNext, RegisterAnswered, Renews, ReRegisterRoute, LogoutRoute, DeviceError,
                RefreshDevices
  <2>7. CASE RegNext
    <3>1. CASE \E t \in Thread : LoginRoute(t) \/ AddAccount(t) \/ Await(t) \/ TimeOut(t)
      BY <3>1, <2>3, <2>4
    <3>2. CASE ~\E t \in Thread : LoginRoute(t) \/ AddAccount(t) \/ Await(t) \/ TimeOut(t)
      BY <3>2, <2>7, <2>6, <2>1
    <3> QED BY <3>1, <3>2
  <2> QED BY <2>5, <2>7
<1>3. RegInv /\ Counts /\ Replied => RegTypeOK
  BY DEF RegInv, Shape, RegTypeOK, Replied, Counts
<1> QED BY <1>1, <1>2, <1>3, DevicesHold, PromisesKept, PTL DEF RegSpec

(* ConfigureAudioDevices: with whatever list of devices the system has by   *)
(* then and whatever names are preferred, a refresh that has no device yet  *)
(* takes the first one that the earliest of the names with a device fits,   *)
(* unless that is number 0, and no refresh changes to a device that cannot  *)
(* do what it is wanted for or that no preferred name fits.  It says        *)
(* nothing of what a number that is kept has come to stand for.             *)
THEOREM PreferredDevicesTaken == RegSpec => DevicesPreferred
<1>1. ASSUME Counts, RefreshDevices, ~UseDefault
      PROVE  TakesPreferred(input, input', Inputs) /\ TakesPreferred(output, output', Outputs)
  <2>1. devices \in Seq(Device) /\ input \in Nat /\ output \in Nat
    BY <1>1, DevicesAssumption DEF DevicesAssumption, DevicesTypeOK, Counts
  <2>2. input' = Chosen(Inputs, input) /\ output' = Chosen(Outputs, output)
    BY <1>1 DEF RefreshDevices, ConfigureAudioDevices
  <2>3. /\ Settles(input, Chosen(Inputs, input), Inputs) /\ Chosen(Inputs, input) \in Int
        /\ Settles(output, Chosen(Outputs, output), Outputs) /\ Chosen(Outputs, output) \in Int
    BY <2>1, ChosenSettles
  <2>4. TakesPreferred(input, Chosen(Inputs, input), Inputs)
        /\ TakesPreferred(output, Chosen(Outputs, output), Outputs)
    BY <2>1, <2>3, SettlesOnPreferred
  <2> QED BY <2>2, <2>4
<1>2. Counts /\ [RegNext]_regVars =>
        [RefreshDevices /\ ~UseDefault =>
           TakesPreferred(input, input', Inputs) /\ TakesPreferred(output, output', Outputs)]_regVars
  BY <1>1
<1> QED BY <1>2, DevicesHold, PTL DEF RegSpec, DevicesPreferred
==============================================================================
