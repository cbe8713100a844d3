---------------------------- MODULE LifecycleProofs ----------------------------
(* Theorems about Lifecycle, for every number of processes, whoever of     *)
(* them may be closed, with and without the question of Windows.           *)
EXTENDS Lifecycle, TLAPS

(* Where the thread of the server is while there is no PJSIP yet, no       *)
(* TinyPhone yet, no account yet.                                          *)
BeforeLibrary == {"off", "config", "library"}
BeforePhone == BeforeLibrary \cup {"phone"}
BeforeAccounts == BeforePhone \cup {"restore"}
\* Start has left run(), by way of Stop, and has yet to return.
Closing == {"close", "join", "unwind"}

(* What the thread of the server relies on in a process that nobody closes:  *)
(* the closer never runs, so its place says how far PJSIP, the TinyPhone, the *)
(* account and the relayer have got.  running is set before run() and cleared *)
(* by Stop alone; whoever is asked to exit is in run(), so Stop does its work.*)
Orderly(p) ==
    LET place == at[p]["server"] IN
    /\ at[p]["closer"] \in {"off"} \cup Ended
    /\ place \in BeforeLibrary => lib[p] = "none"
    /\ place \notin BeforeLibrary \cup Closing \cup {"leave"} \cup Ended => lib[p] = "running"
    /\ place \in Closing \cup {"leave"} => lib[p] # "none"
    /\ place \in BeforePhone => phone[p] = "none"
    /\ place \notin BeforePhone \cup {"leave"} \cup Ended => phone[p] = "alive"
    /\ place = "leave" => phone[p] = "gone"
    /\ place = "exited" => phone[p] \in {"none", "gone"}
    /\ place \in BeforeAccounts => ~acc[p]
    /\ place \in BeforeAccounts \cup {"relayer", "unwind", "leave", "exited"} => relayer[p] # "running"
    /\ place \in {"bind", "serving"} => running[p]
    /\ place = "stop" /\ asked[p] => running[p]
    /\ place \in Starting \cup {"off", "abandon"} => ~asked[p]
    /\ place \in Closing \cup {"leave", "exited"} /\ asked[p] => lib[p] = "destroyed"
    /\ fault[p] => place = "leave" /\ lib[p] = "running" /\ phone[p] = "gone" /\ acc[p]

IInv == TypeOK /\ \A p \in Proc \ Closers : Orderly(p)

-----------------------------------------------------------------------------
(* The steps, each without alternatives *)

Place == {"off", "serving"} \cup Starting \cup Stopping \cup Leaving \cup Ended

(* A thread goes on and does nothing else. *)
Continues(p, t, from, to) ==
    /\ At(p, t, from) /\ Goes(p, t, to)
    /\ UNCHANGED <<running, asked, lib, phone, acc, onCall, closed, relayer, fault, port, file>>

(* The process ends before it serves. *)
EndsEarly(p, from, how) ==
    /\ At(p, "server", from) /\ Ends(p, how)
    /\ UNCHANGED <<running, asked, lib, phone, acc, onCall, closed, relayer, fault, file>>

(* Something is used that is not there. *)
Faults(p) ==
    /\ ~fault[p] /\ fault' = [fault EXCEPT ![p] = TRUE]
    /\ UNCHANGED <<at, running, asked, lib, phone, acc, onCall, closed, relayer, port, file>>

LibraryStarts(p) ==
    /\ At(p, "server", "library") /\ Goes(p, "server", "phone")
    /\ lib' = [lib EXCEPT ![p] = "running"]
    /\ UNCHANGED <<running, asked, phone, acc, onCall, closed, relayer, fault, port, file>>

PortIsFree(p) ==
    /\ At(p, "server", "retest") /\ Goes(p, "server", "bind")
    /\ running' = [running EXCEPT ![p] = TRUE]
    /\ UNCHANGED <<asked, lib, phone, acc, onCall, closed, relayer, fault, port, file>>

Binds(p) ==
    /\ At(p, "server", "bind") /\ Goes(p, "server", "serving")
    /\ port' = p
    /\ UNCHANGED <<running, asked, lib, phone, acc, onCall, closed, relayer, fault, file>>

LoggedIn(p) ==
    /\ At(p, "server", "serving")
    /\ acc' = [acc EXCEPT ![p] = TRUE] /\ file' = TRUE
    /\ UNCHANGED <<at, running, asked, lib, phone, onCall, closed, relayer, fault, port>>

CallComesOrGoes(p) ==
    /\ onCall' = [onCall EXCEPT ![p] = ~onCall[p]]
    /\ UNCHANGED <<at, running, asked, lib, phone, acc, closed, relayer, fault, port, file>>

LoggedOut(p, t) ==
    /\ At(p, t, "logout") /\ Goes(p, t, "destroy")
    /\ acc' = [acc EXCEPT ![p] = acc[p] /\ onCall[p]] /\ file' \in BOOLEAN
    /\ UNCHANGED <<running, asked, lib, phone, onCall, closed, relayer, fault, port>>

Destroys(p, t) ==
    /\ At(p, t, "destroy") /\ Goes(p, t, AfterStop(t))
    /\ lib' = [lib EXCEPT ![p] = "destroyed"]
    /\ UNCHANGED <<running, asked, phone, acc, onCall, closed, relayer, fault, port, file>>

(* ~TinyPhone, whether it logs out or not. *)
PhoneEnds(p) ==
    /\ phone' = [phone EXCEPT ![p] = "gone"]
    /\ \E left \in BOOLEAN : acc' = [acc EXCEPT ![p] = left]
    /\ file' \in BOOLEAN
    /\ UNCHANGED <<running, asked, lib, onCall, closed, relayer, fault>>

Unwound(p) == At(p, "server", "unwind") /\ Goes(p, "server", "leave") /\ PhoneEnds(p) /\ UNCHANGED port

Abandoned(p) ==
    /\ At(p, "server", "abandon") /\ PhoneEnds(p)
    /\ \/ relayer[p] = "running" /\ Ends(p, "aborted")
       \/ relayer[p] # "running" /\ Goes(p, "server", "leave") /\ UNCHANGED port

GoesOn(p) ==
    \/ Continues(p, "server", "config", "library")
    \/ \E to \in {"retest", "ask"} : Continues(p, "server", "test", to)
    \/ Continues(p, "server", "ask", "abandon")
    \/ Continues(p, "server", "retest", "stop")
    \/ relayer[p] # "running" /\ Continues(p, "server", "join", "unwind")
    \/ p \in Closers /\ Continues(p, "closer", "off", "stop")
    \/ \E t \in Thread :
         \/ running[p] /\ Continues(p, t, "stop", "clear")
         \/ ~running[p] /\ Continues(p, t, "stop", AfterStop(t))
         \/ Continues(p, t, "hangup", "logout")

Fails(p) ==
    \/ lib[p] # "running" /\ At(p, "server", "serving") /\ Faults(p)
    \/ lib[p] = "running" /\ phone[p] # "alive" /\ acc[p] /\ Alive(p) /\ Faults(p)
    \/ \E t \in Thread, place \in {"hangup", "logout", "destroy"} :
         At(p, t, place) /\ ~(phone[p] = "alive" /\ lib[p] = "running") /\ Faults(p)

NeverServes(p) ==
    \/ \E from \in {"config", "library"} : EndsEarly(p, from, "exited")
    \/ \E from \in {"config", "bind"} : EndsEarly(p, from, "aborted")

Step(p) ==
    \/ Launch(p) \/ MakePhone(p) \/ RestoreAccounts(p) \/ StartRelayer(p) \/ AnswerYes(p)
    \/ LibraryStarts(p) \/ PortIsFree(p) \/ Binds(p)
    \/ LoggedIn(p) \/ CallComesOrGoes(p) \/ Exit(p) \/ RunReturns(p)
    \/ \E t \in Thread : StopClear(p, t) \/ LoggedOut(p, t) \/ Destroys(p, t) \/ Leave(p, t)
    \/ CloseChannel(p) \/ RelayerExits(p) \/ Unwound(p) \/ Abandoned(p)
    \/ GoesOn(p) \/ Fails(p) \/ NeverServes(p)

(* ~TinyPhone is PhoneEnds whatever it finds. *)
LEMMA UnwindsCases ==
    ASSUME TypeOK, NEW p \in Proc, Unwinds(p), UNCHANGED <<running, asked, lib, onCall, closed, relayer>>
    PROVE PhoneEnds(p)
<1>1. acc \in [Proc -> BOOLEAN] /\ onCall \in [Proc -> BOOLEAN] /\ file \in BOOLEAN
  BY DEF TypeOK
<1>2. CASE lib[p] = "running"
  <2>1. acc' = [acc EXCEPT ![p] = acc[p] /\ onCall[p]] /\ file' \in BOOLEAN
    BY <1>1, <1>2, Zenon DEF Unwinds, LogoutAll
  <2> QED BY <1>1, <2>1 DEF Unwinds, PhoneEnds
<1>3. CASE lib[p] # "running"
  <2>1. acc' = [acc EXCEPT ![p] = acc[p]] /\ acc[p] \in BOOLEAN
    BY <1>1, <1>3 DEF Unwinds
  <2> QED BY <1>1, <1>3, <2>1 DEF Unwinds, PhoneEnds
<1> QED BY <1>2, <1>3

LEMMA StartCases ==
    ASSUME TypeOK, NEW p \in Proc, StartStep(p)
    PROVE Step(p)
<1>1. CASE LoadConfig(p)
  <2>1. Ends(p, "exited") \/ Ends(p, "aborted") \/ (Goes(p, "server", "library") /\ UNCHANGED port)
    BY <1>1 DEF LoadConfig
  <2>2. At(p, "server", "config")
        /\ UNCHANGED <<running, asked, lib, phone, acc, onCall, closed, relayer, fault, file>>
    BY <1>1 DEF LoadConfig
  <2> QED BY <2>1, <2>2 DEF Step, NeverServes, EndsEarly, GoesOn, Continues
<1>2. CASE StartLibrary(p)
  BY <1>2 DEF StartLibrary, Step, NeverServes, EndsEarly, LibraryStarts
<1>3. CASE TestPort(p)
  BY <1>3 DEF TestPort, Step, GoesOn, Continues
<1>4. CASE RetestPort(p)
  BY <1>4 DEF RetestPort, Step, GoesOn, Continues, PortIsFree
<1>5. CASE Bind(p)
  BY <1>5 DEF Bind, Step, NeverServes, EndsEarly, Binds
<1> QED BY <1>1, <1>2, <1>3, <1>4, <1>5 DEF StartStep, Step

LEMMA UserCases ==
    ASSUME TypeOK, NEW p \in Proc, User(p)
    PROVE Step(p)
<1>1. CASE AnswerNo(p)
  BY <1>1 DEF AnswerNo, Step, GoesOn, Continues
<1>2. CASE Login(p)
  BY <1>2 DEF Login, Step, LoggedIn, Fails, Faults, At
<1>3. CASE CallChanges(p)
  BY <1>3 DEF CallChanges, Step, CallComesOrGoes, Fails, Faults
<1>4. CASE CloseApp(p)
  BY <1>4 DEF CloseApp, Step, GoesOn, Continues
<1> QED BY <1>1, <1>2, <1>3, <1>4 DEF User, Step

LEMMA StopCases ==
    ASSUME TypeOK, NEW p \in Proc, NEW t \in Thread, Stop(p, t)
    PROVE Step(p)
<1>1. CASE StopTest(p, t)
  BY <1>1 DEF StopTest, Step, GoesOn, Continues
<1>2. CASE StopHangup(p, t)
  BY <1>2 DEF StopHangup, Step, GoesOn, Continues, Fails, Faults, At
<1>3. CASE StopLogout(p, t)
  <2>1. CASE phone[p] = "alive" /\ lib[p] = "running"
    <3>1. acc' = [acc EXCEPT ![p] = acc[p] /\ onCall[p]] /\ file' \in BOOLEAN
      BY <1>3, <2>1, Zenon DEF StopLogout, LogoutAll, TypeOK
    <3> QED BY <1>3, <2>1, <3>1 DEF StopLogout, Step, LoggedOut
  <2>2. CASE ~(phone[p] = "alive" /\ lib[p] = "running")
    BY <1>3, <2>2 DEF StopLogout, Step, Fails, Faults, At
  <2> QED BY <2>1, <2>2
<1>4. CASE StopDestroy(p, t)
  BY <1>4 DEF StopDestroy, Step, Destroys, Fails, Faults, At
<1> QED BY <1>1, <1>2, <1>3, <1>4 DEF Stop, Step

LEMMA EndCases ==
    ASSUME TypeOK, NEW p \in Proc, EndStep(p)
    PROVE Step(p)
<1>1. CASE Join(p)
  BY <1>1 DEF Join, Step, GoesOn, Continues
<1>2. CASE Unwind(p)
  <2>1. PhoneEnds(p)
    BY <1>2, UnwindsCases DEF Unwind
  <2> QED BY <1>2, <2>1 DEF Unwind, Step, Unwound
<1>3. CASE Abandon(p)
  <2>1. PhoneEnds(p)
    BY <1>3, UnwindsCases DEF Abandon
  <2> QED BY <1>3, <2>1 DEF Abandon, Step, Abandoned
<1> QED BY <1>1, <1>2, <1>3 DEF EndStep, Step

(* What a step of the specification is.                                    *)
LEMMA StepCases ==
    ASSUME TypeOK, [Next]_vars
    PROVE UNCHANGED vars \/ \E p \in Proc : Step(p)
<1>1. ASSUME NEW p \in Proc, NEW t \in Thread, ThreadStep(p, t) PROVE Step(p)
  BY <1>1, StopCases DEF ThreadStep, Step
<1> QED BY <1>1, StartCases, UserCases, EndCases DEF Next

-----------------------------------------------------------------------------
(* Typing *)

LEMMA GoesOnTyping ==
    ASSUME TypeOK, NEW p \in Proc, GoesOn(p)
    PROVE TypeOK'
<1>1. ASSUME NEW t \in Thread, NEW from, NEW to \in Place, Continues(p, t, from, to),
             t = "server" => from # "serving"
      PROVE TypeOK'
  BY <1>1, LifecycleAssumption DEF Continues, Goes, At, TypeOK, Place
<1>2. /\ "server" \in Thread /\ "closer" \in Thread
      /\ {"library", "retest", "ask", "abandon", "stop", "unwind", "clear", "logout"} \subseteq Place
  BY DEF Thread, Place, Starting, Stopping, Leaving
<1>3. CASE Continues(p, "server", "config", "library")
  BY <1>1, <1>2, <1>3
<1>4. ASSUME NEW to \in {"retest", "ask"}, Continues(p, "server", "test", to) PROVE TypeOK'
  BY <1>1, <1>2, <1>4
<1>5. CASE Continues(p, "server", "ask", "abandon")
  BY <1>1, <1>2, <1>5
<1>6. CASE Continues(p, "server", "retest", "stop")
  BY <1>1, <1>2, <1>6
<1>7. CASE Continues(p, "server", "join", "unwind")
  BY <1>1, <1>2, <1>7
<1>8. CASE Continues(p, "closer", "off", "stop")
  BY <1>1, <1>2, <1>8
<1>9. ASSUME NEW t \in Thread, NEW to \in {"clear", AfterStop(t)}, Continues(p, t, "stop", to) PROVE TypeOK'
  <2>1. AfterStop(t) \in Place
    BY DEF AfterStop, Place, Stopping, Leaving
  <2> QED BY <1>1, <1>2, <1>9, <2>1
<1>10. ASSUME NEW t \in Thread, Continues(p, t, "hangup", "logout") PROVE TypeOK'
  BY <1>1, <1>2, <1>10
<1> QED BY <1>3, <1>4, <1>5, <1>6, <1>7, <1>8, <1>9, <1>10 DEF GoesOn

LEMMA TypingStep ==
    ASSUME TypeOK, [Next]_vars
    PROVE TypeOK'
<1> USE LifecycleAssumption DEF TypeOK, At, Goes, Ends, Thread, Starting, Stopping, Leaving, Ended
<1>1. ASSUME NEW p \in Proc, Launch(p) PROVE TypeOK'
  BY <1>1 DEF Launch
<1>2. ASSUME NEW p \in Proc, MakePhone(p) PROVE TypeOK'
  BY <1>2 DEF MakePhone
<1>3. ASSUME NEW p \in Proc, RestoreAccounts(p) PROVE TypeOK'
  BY <1>3 DEF RestoreAccounts
<1>4. ASSUME NEW p \in Proc, StartRelayer(p) PROVE TypeOK'
  BY <1>4 DEF StartRelayer
<1>5. ASSUME NEW p \in Proc, AnswerYes(p) PROVE TypeOK'
  BY <1>5 DEF AnswerYes
<1>6. ASSUME NEW p \in Proc, LibraryStarts(p) PROVE TypeOK'
  BY <1>6 DEF LibraryStarts
<1>7. ASSUME NEW p \in Proc, PortIsFree(p) PROVE TypeOK'
  BY <1>7 DEF PortIsFree
<1>8. ASSUME NEW p \in Proc, Binds(p) PROVE TypeOK'
  BY <1>8 DEF Binds
<1>9. ASSUME NEW p \in Proc, LoggedIn(p) PROVE TypeOK'
  BY <1>9 DEF LoggedIn
<1>10. ASSUME NEW p \in Proc, CallComesOrGoes(p) PROVE TypeOK'
  BY <1>10 DEF CallComesOrGoes
<1>11. ASSUME NEW p \in Proc, Exit(p) PROVE TypeOK'
  BY <1>11 DEF Exit
<1>12. ASSUME NEW p \in Proc, RunReturns(p) PROVE TypeOK'
  BY <1>12 DEF RunReturns
<1>13. ASSUME NEW p \in Proc, NEW t \in Thread, StopClear(p, t) PROVE TypeOK'
  BY <1>13 DEF StopClear
<1>14. ASSUME NEW p \in Proc, NEW t \in Thread, LoggedOut(p, t) PROVE TypeOK'
  BY <1>14 DEF LoggedOut
<1>15. ASSUME NEW p \in Proc, NEW t \in Thread, Destroys(p, t) PROVE TypeOK'
  BY <1>15 DEF Destroys, AfterStop
<1>16. ASSUME NEW p \in Proc, NEW t \in Thread, Leave(p, t) PROVE TypeOK'
  BY <1>16 DEF Leave
<1>17. ASSUME NEW p \in Proc, CloseChannel(p) PROVE TypeOK'
  BY <1>17 DEF CloseChannel
<1>18. ASSUME NEW p \in Proc, RelayerExits(p) PROVE TypeOK'
  BY <1>18 DEF RelayerExits
<1>19. ASSUME NEW p \in Proc, Unwound(p) PROVE TypeOK'
  BY <1>19 DEF Unwound, PhoneEnds
<1>20. ASSUME NEW p \in Proc, Abandoned(p) PROVE TypeOK'
  <2>1. CASE Ends(p, "aborted")
    BY <1>20, <2>1 DEF Abandoned, PhoneEnds
  <2>2. CASE Goes(p, "server", "leave") /\ UNCHANGED port
    BY <1>20, <2>2 DEF Abandoned, PhoneEnds
  <2> QED BY <1>20, <2>1, <2>2 DEF Abandoned
<1>21. ASSUME NEW p \in Proc, GoesOn(p) PROVE TypeOK'
  <2> HIDE DEF TypeOK
  <2> QED BY <1>21, GoesOnTyping
<1>22. ASSUME NEW p \in Proc, Fails(p) PROVE TypeOK'
  <2>1. Faults(p)
    BY <1>22 DEF Fails
  <2> QED BY <2>1 DEF Faults
<1>23. ASSUME NEW p \in Proc, NeverServes(p) PROVE TypeOK'
  <2>1. PICK from \in {"config", "library", "bind"}, how \in {"exited", "aborted"} : EndsEarly(p, from, how)
    BY <1>23 DEF NeverServes
  <2> QED BY <2>1 DEF EndsEarly
<1>24. CASE UNCHANGED vars
  BY <1>24 DEF vars
<1> HIDE LifecycleAssumption DEF TypeOK, At, Goes, Ends, Thread, Starting, Stopping, Leaving, Ended
<1> QED
  BY <1>1, <1>2, <1>3, <1>4, <1>5, <1>6, <1>7, <1>8, <1>9, <1>10, <1>11, <1>12, <1>13, <1>14,
     <1>15, <1>16, <1>17, <1>18, <1>19, <1>20, <1>21, <1>22, <1>23, <1>24, StepCases DEF Step

(* The typing invariant; whoever has the port is inside run().             *)
THEOREM Typing == Spec => []TypeOK
<1>1. Init => TypeOK
  BY DEF Init, TypeOK, Thread
<1>2. TypeOK /\ [Next]_vars => TypeOK'
  BY TypingStep
<1> QED BY <1>1, <1>2, PTL DEF Spec

-----------------------------------------------------------------------------
(* Order *)

(* A step of p changes nothing of another process q, except that it may ask *)
(* q to exit when q is in run().                                            *)
LEMMA OthersKeep ==
    ASSUME TypeOK, NEW p \in Proc, NEW q \in Proc, q # p, Step(p)
    PROVE /\ at'[q] = at[q] /\ running'[q] = running[q] /\ lib'[q] = lib[q] /\ phone'[q] = phone[q]
          /\ acc'[q] = acc[q] /\ relayer'[q] = relayer[q] /\ fault'[q] = fault[q]
          /\ asked'[q] # asked[q] => at[q]["server"] = "serving"
<1> DEFINE Kept == /\ at'[q] = at[q] /\ running'[q] = running[q] /\ lib'[q] = lib[q] /\ phone'[q] = phone[q]
                   /\ acc'[q] = acc[q] /\ relayer'[q] = relayer[q] /\ fault'[q] = fault[q]
                   /\ asked'[q] # asked[q] => at[q]["server"] = "serving"
<1> USE LifecycleAssumption DEF TypeOK, Goes, Ends
<1>1. CASE Launch(p) \/ MakePhone(p) \/ RestoreAccounts(p) \/ StartRelayer(p)
  BY <1>1 DEF Launch, MakePhone, RestoreAccounts, StartRelayer
<1>2. CASE AnswerYes(p)
  BY <1>2 DEF AnswerYes
<1>3. CASE LibraryStarts(p) \/ PortIsFree(p) \/ Binds(p)
  BY <1>3 DEF LibraryStarts, PortIsFree, Binds
<1>4. CASE LoggedIn(p) \/ CallComesOrGoes(p) \/ Exit(p) \/ RunReturns(p)
  BY <1>4 DEF LoggedIn, CallComesOrGoes, Exit, RunReturns
<1>5. ASSUME NEW t \in Thread, StopClear(p, t) \/ LoggedOut(p, t) \/ Destroys(p, t) \/ Leave(p, t) PROVE Kept
  BY <1>5 DEF StopClear, LoggedOut, Destroys, Leave
<1>6. CASE CloseChannel(p) \/ RelayerExits(p)
  BY <1>6 DEF CloseChannel, RelayerExits
<1>7. CASE Unwound(p) \/ Abandoned(p)
  BY <1>7 DEF Unwound, Abandoned, PhoneEnds
<1>8. CASE GoesOn(p)
  BY <1>8 DEF GoesOn, Continues
<1>9. CASE Fails(p)
  BY <1>9 DEF Fails, Faults
<1>10. CASE NeverServes(p)
  BY <1>10 DEF NeverServes, EndsEarly
<1> QED BY <1>1, <1>2, <1>3, <1>4, <1>5, <1>6, <1>7, <1>8, <1>9, <1>10 DEF Step

(* A process that nobody closes has the thread of the server alone.        *)
LEMMA OwnStepKeepsOrder ==
    ASSUME TypeOK, NEW p \in Proc \ Closers, Orderly(p), Step(p)
    PROVE Orderly(p)'
<1> USE LifecycleAssumption
    DEF Orderly, TypeOK, At, Goes, Ends, Thread, Starting, Stopping, Leaving, Ended, BeforeLibrary,
        BeforePhone, BeforeAccounts, Closing
<1>1. CASE Launch(p)
  BY <1>1 DEF Launch
<1>2. CASE MakePhone(p)
  BY <1>2 DEF MakePhone
<1>3. CASE RestoreAccounts(p)
  BY <1>3 DEF RestoreAccounts
<1>4. CASE StartRelayer(p)
  BY <1>4 DEF StartRelayer
<1>5. CASE AnswerYes(p)
  BY <1>5 DEF AnswerYes
<1>6. CASE LibraryStarts(p)
  BY <1>6 DEF LibraryStarts
<1>7. CASE PortIsFree(p)
  BY <1>7 DEF PortIsFree
<1>8. CASE Binds(p)
  BY <1>8 DEF Binds
<1>9. CASE LoggedIn(p)
  BY <1>9 DEF LoggedIn
<1>10. CASE CallComesOrGoes(p)
  BY <1>10 DEF CallComesOrGoes
<1>11. CASE Exit(p)
  BY <1>11 DEF Exit
<1>12. CASE RunReturns(p)
  BY <1>12 DEF RunReturns
<1>13. ASSUME NEW t \in Thread, StopClear(p, t) PROVE Orderly(p)'
  BY <1>13 DEF StopClear
<1>14. ASSUME NEW t \in Thread, LoggedOut(p, t) PROVE Orderly(p)'
  BY <1>14 DEF LoggedOut
<1>15. ASSUME NEW t \in Thread, Destroys(p, t) PROVE Orderly(p)'
  BY <1>15 DEF Destroys, AfterStop
<1>16. ASSUME NEW t \in Thread, Leave(p, t) PROVE Orderly(p)'
  BY <1>16 DEF Leave
<1>17. CASE CloseChannel(p)
  BY <1>17 DEF CloseChannel
<1>18. CASE RelayerExits(p)
  BY <1>18 DEF RelayerExits
<1>19. CASE Unwound(p)
  BY <1>19 DEF Unwound, PhoneEnds
<1>20. CASE Abandoned(p)
  BY <1>20 DEF Abandoned, PhoneEnds
<1>21. CASE GoesOn(p)
  BY <1>21 DEF GoesOn, Continues, AfterStop
<1>22. CASE Fails(p)
  BY <1>22 DEF Fails, Faults, Alive
<1>23. CASE NeverServes(p)
  BY <1>23 DEF NeverServes, EndsEarly
<1> HIDE DEF Orderly, TypeOK, At, Goes, Ends, Thread, Starting, Stopping, Leaving, Ended, BeforeLibrary,
        BeforePhone, BeforeAccounts, Closing
<1> QED
  BY <1>1, <1>2, <1>3, <1>4, <1>5, <1>6, <1>7, <1>8, <1>9, <1>10, <1>11, <1>12, <1>13, <1>14,
     <1>15, <1>16, <1>17, <1>18, <1>19, <1>20, <1>21, <1>22, <1>23 DEF Step

LEMMA IInvStep ==
    ASSUME IInv, [Next]_vars
    PROVE IInv'
<1>1. TypeOK /\ TypeOK'
  BY TypingStep DEF IInv
<1>2. ASSUME NEW q \in Proc \ Closers PROVE Orderly(q)'
  <2>1. Orderly(q)
    BY DEF IInv
  <2>2. CASE UNCHANGED vars
    BY <2>1, <2>2 DEF Orderly, vars
  <2>3. ASSUME NEW p \in Proc, Step(p) PROVE Orderly(q)'
    <3>1. CASE p = q
      BY <1>1, <2>1, <2>3, <3>1, OwnStepKeepsOrder
    <3>2. CASE p # q
      BY <1>1, <2>1, <2>3, <3>2, OthersKeep
        DEF Orderly, BeforeLibrary, BeforePhone, BeforeAccounts, Closing, Starting, Ended
    <3> QED BY <3>1, <3>2
  <2> QED BY <1>1, <2>2, <2>3, StepCases
<1> QED BY <1>1, <1>2 DEF IInv

(* The order of baseapp.cpp's StartApp, server.cpp's Start and Stop and     *)
(* ~TinyPhone in every process that nobody closes: PJSIP, the TinyPhone,    *)
(* its accounts and the relayer are there at each statement that uses them. *)
THEOREM Order == Spec => []IInv
<1>1. Init => IInv
  BY LifecycleAssumption
     DEF Init, IInv, TypeOK, Orderly, Thread, BeforeLibrary, BeforePhone, BeforeAccounts, Closing,
         Starting, Ended
<1>2. IInv /\ [Next]_vars => IInv'
  BY IInvStep
<1> QED BY <1>1, <1>2, PTL DEF Spec

(* On no way through Start, Stop (server.cpp) and ~TinyPhone does a process *)
(* that nobody closes use PJSIP after libDestroy or the TinyPhone after its *)
(* end, but for the account that ~TinyPhone leaves behind.                  *)
THEOREM UsesWhatIsThere == Spec => []NoUseAfterEnd
<1>1. IInv => NoUseAfterEnd
  BY DEF IInv, TypeOK, Orderly, NoUseAfterEnd, Ended, Closing
<1> QED BY <1>1, Order, PTL

(* Such a process that calls exit has joined its relayer and ended the       *)
(* TinyPhone; if it was asked to, libDestroy has been called before that.    *)
THEOREM LeavesInOrder == Spec => []ExitIsClean
<1>1. IInv => ExitIsClean
  BY DEF IInv, TypeOK, Orderly, ExitIsClean, Ended, Closing, BeforeAccounts, BeforePhone, BeforeLibrary
<1> QED BY <1>1, Order, PTL
================================================================================
