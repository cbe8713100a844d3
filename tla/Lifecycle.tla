------------------------------- MODULE Lifecycle -------------------------------
(***************************************************************************)
(* The life of tinyphone processes on one machine: StartApp, Start and Stop *)
(* (baseapp.cpp, server.cpp), the way out through /exit, and the way out of *)
(* whoever closes the window or sends a signal (winapp.cpp, osxapp.cpp,     *)
(* console.cpp).  All processes want the same port and share user.conf.     *)
(*                                                                         *)
(* Two threads of a process matter: "server" runs StartApp, "closer" is the *)
(* thread of the window or the signal handler.  at[p][t] is what thread t    *)
(* does next.  One account stands for all of them: acc[p] says that it is   *)
(* in the map of p, onCall[p] that it has a call, file that user.conf has    *)
(* it.  A process that uses PJSIP when it is not running, or a TinyPhone     *)
(* that is gone, has a fault, and no more is said of it.                    *)
(***************************************************************************)
EXTENDS Naturals

CONSTANTS
    Proc,     \* processes, each launched once
    Nobody,   \* not a process
    Closers,  \* the processes that somebody may close
    Windows,  \* whether a port in use is asked about (_WIN32)
    Offline,  \* ALLOW_OFFLINE_CONFIG
    WSEvents  \* the processes whose configuration has enableWSEvents

ASSUME LifecycleAssumption ==
    /\ Nobody \notin Proc
    /\ Closers \subseteq Proc /\ WSEvents \subseteq Proc
    /\ Windows \in BOOLEAN /\ Offline \in BOOLEAN

Thread == {"server", "closer"}

VARIABLES
    at,       \* what each thread does next
    running,  \* TinyPhoneHttpServer::running
    asked,    \* app.stop() has been called
    lib,      \* PJSIP
    phone,    \* the TinyPhone, a local variable of Start
    acc, onCall,
    closed,   \* the channel
    relayer,  \* ws_publisher_thread
    fault,
    port,     \* who listens on it
    file

vars == <<at, running, asked, lib, phone, acc, onCall, closed, relayer, fault, port, file>>

Stopping == {"stop", "clear", "hangup", "logout", "destroy"}
Starting == {"config", "library", "phone", "restore", "relayer", "test", "ask", "retest", "bind"}
Leaving == {"close", "join", "unwind", "abandon", "leave"}
Ended == {"exited", "aborted"}

\* The values, and that whoever has the port is inside run().
TypeOK ==
    /\ at \in [Proc -> [Thread -> {"off", "serving"} \cup Starting \cup Stopping \cup Leaving \cup Ended]]
    /\ lib \in [Proc -> {"none", "running", "destroyed"}]
    /\ phone \in [Proc -> {"none", "alive", "gone"}]
    /\ relayer \in [Proc -> {"none", "running", "exited"}]
    /\ {running, asked, acc, onCall, closed, fault} \subseteq [Proc -> BOOLEAN]
    /\ port \in {p \in Proc : at[p]["server"] = "serving"} \cup {Nobody}
    /\ file \in BOOLEAN

Init ==
    /\ at = [p \in Proc |-> [t \in Thread |-> "off"]]
    /\ running = [p \in Proc |-> FALSE]
    /\ asked = [p \in Proc |-> FALSE]
    /\ lib = [p \in Proc |-> "none"]
    /\ phone = [p \in Proc |-> "none"]
    /\ acc = [p \in Proc |-> FALSE]
    /\ onCall = [p \in Proc |-> FALSE]
    /\ closed = [p \in Proc |-> FALSE]
    /\ relayer = [p \in Proc |-> "none"]
    /\ fault = [p \in Proc |-> FALSE]
    /\ port = Nobody
    /\ file \in BOOLEAN

At(p, t, place) == at[p][t] = place /\ ~fault[p]

Goes(p, t, place) == at' = [at EXCEPT ![p][t] = place]

\* The end of a process: all of its threads, and its socket.
Ends(p, how) ==
    /\ at' = [at EXCEPT ![p] = [t \in Thread |-> how]]
    /\ port' = IF port = p THEN Nobody ELSE port

Alive(p) == at[p]["server"] \notin {"off"} \cup Ended

-----------------------------------------------------------------------------
(* Start-up *)

Launch(p) ==
    /\ at[p]["server"] = "off"
    /\ Goes(p, "server", "config")
    /\ UNCHANGED <<running, asked, lib, phone, acc, onCall, closed, relayer, fault, port, file>>

\* What a place a configuration is fetched from may hold.  An incomplete one parses
\* and lacks a key.
Text == {"none", "good", "incomplete", "unparsable"}

\* The text InitConfig parses: the secondary location is asked when the primary one
\* does not answer, and a local file overrides both.
ConfigText(primary, secondary, local) ==
    LET remote == IF primary = "none" THEN secondary ELSE primary
    IN  IF Offline /\ local # "none" THEN local ELSE remote

\* InitConfig.  Without a text, or with one that does not parse, it calls exit; an
\* error of another kind is caught by nobody.
LoadConfig(p) ==
    /\ At(p, "server", "config")
    /\ \E primary, secondary, local \in Text :
         LET text == ConfigText(primary, secondary, local) IN
         \/ text \in {"none", "unparsable"} /\ Ends(p, "exited")
         \/ text = "incomplete" /\ Ends(p, "aborted")
         \/ text = "good" /\ Goes(p, "server", "library") /\ UNCHANGED port
    /\ UNCHANGED <<running, asked, lib, phone, acc, onCall, closed, relayer, fault, file>>

\* InitPJSUAEndpoint; an error ends the process.
StartLibrary(p) ==
    /\ At(p, "server", "library")
    /\ \/ Ends(p, "exited") /\ UNCHANGED lib
       \/ Goes(p, "server", "phone") /\ lib' = [lib EXCEPT ![p] = "running"] /\ UNCHANGED port
    /\ UNCHANGED <<running, asked, phone, acc, onCall, closed, relayer, fault, file>>

\* The local TinyPhone of Start, its codecs, devices and event stream.
MakePhone(p) ==
    /\ At(p, "server", "phone")
    /\ phone' = [phone EXCEPT ![p] = "alive"]
    /\ Goes(p, "server", "restore")
    /\ UNCHANGED <<running, asked, lib, acc, onCall, closed, relayer, fault, port, file>>

\* RestoreAccounts: AddAccount writes user.conf as it was read.
RestoreAccounts(p) ==
    /\ At(p, "server", "restore")
    /\ acc' = [acc EXCEPT ![p] = file]
    /\ Goes(p, "server", "relayer")
    /\ UNCHANGED <<running, asked, lib, phone, onCall, closed, relayer, fault, port, file>>

StartRelayer(p) ==
    /\ At(p, "server", "relayer")
    /\ relayer' = [relayer EXCEPT ![p] = IF p \in WSEvents THEN "running" ELSE @]
    /\ Goes(p, "server", IF Windows THEN "test" ELSE "retest")
    /\ UNCHANGED <<running, asked, lib, phone, acc, onCall, closed, fault, port, file>>

\* is_tcp_port_in_use on Windows: the user is asked about the other instance.
TestPort(p) ==
    /\ At(p, "server", "test")
    /\ Goes(p, "server", IF port = Nobody THEN "retest" ELSE "ask")
    /\ UNCHANGED <<running, asked, lib, phone, acc, onCall, closed, relayer, fault, port, file>>

\* Yes: /exit is posted to it, from this machine; two seconds are not waited for.
AnswerYes(p) ==
    /\ At(p, "server", "ask")
    /\ asked' = [q \in Proc |-> asked[q] \/ q = port]
    /\ Goes(p, "server", "retest")
    /\ UNCHANGED <<running, lib, phone, acc, onCall, closed, relayer, fault, port, file>>

\* No: Start returns.
AnswerNo(p) ==
    /\ At(p, "server", "ask")
    /\ Goes(p, "server", "abandon")
    /\ UNCHANGED <<running, asked, lib, phone, acc, onCall, closed, relayer, fault, port, file>>

\* Variation: running is not set.
RetestPortUnset(p) ==
    /\ At(p, "server", "retest")
    /\ Goes(p, "server", IF port = Nobody THEN "bind" ELSE "stop")
    /\ UNCHANGED <<running, asked, lib, phone, acc, onCall, closed, relayer, fault, port, file>>

\* Variation: the port is waited for.
RetestPortWaits(p) ==
    /\ At(p, "server", "retest")
    /\ port = Nobody
    /\ running' = [running EXCEPT ![p] = TRUE]
    /\ Goes(p, "server", "bind")
    /\ UNCHANGED <<asked, lib, phone, acc, onCall, closed, relayer, fault, port, file>>

\* The port is tested once more, and running is set.
RetestPort(p) ==
    /\ At(p, "server", "retest")
    /\ IF port = Nobody
         THEN running' = [running EXCEPT ![p] = TRUE] /\ Goes(p, "server", "bind")
         ELSE Goes(p, "server", "stop") /\ UNCHANGED running
    /\ UNCHANGED <<asked, lib, phone, acc, onCall, closed, relayer, fault, port, file>>

\* run() binds the port; when another process has been faster, the exception of the
\* acceptor ends the process.
Bind(p) ==
    /\ At(p, "server", "bind")
    /\ IF port = Nobody
         THEN port' = p /\ Goes(p, "server", "serving")
         ELSE Ends(p, "aborted")
    /\ UNCHANGED <<running, asked, lib, phone, acc, onCall, closed, relayer, fault, file>>

-----------------------------------------------------------------------------
(* Serving *)

\* A route that logs an account in; after Stop of a closer there is no PJSIP.
Login(p) ==
    /\ At(p, "server", "serving")
    /\ ~acc[p]
    /\ IF lib[p] = "running"
         THEN acc' = [acc EXCEPT ![p] = TRUE] /\ file' = TRUE /\ UNCHANGED fault
         ELSE fault' = [fault EXCEPT ![p] = TRUE] /\ UNCHANGED <<acc, file>>
    /\ UNCHANGED <<at, running, asked, lib, phone, onCall, closed, relayer, port>>

\* A call of the account begins or ends: PJSIP calls back the account, which looks
\* into the TinyPhone.
CallChanges(p) ==
    /\ ~fault[p] /\ Alive(p)
    /\ lib[p] = "running" /\ acc[p]
    /\ IF phone[p] = "alive"
         THEN onCall' = [onCall EXCEPT ![p] = ~@] /\ UNCHANGED fault
         ELSE fault' = [fault EXCEPT ![p] = TRUE] /\ UNCHANGED onCall
    /\ UNCHANGED <<at, running, asked, lib, phone, acc, closed, relayer, port, file>>

\* /exit with the right to: app.stop().
Exit(p) ==
    /\ At(p, "server", "serving")
    /\ asked' = [asked EXCEPT ![p] = TRUE]
    /\ UNCHANGED <<at, running, lib, phone, acc, onCall, closed, relayer, fault, port, file>>

\* run() returns.
RunReturns(p) ==
    /\ At(p, "server", "serving")
    /\ asked[p]
    /\ port' = Nobody
    /\ Goes(p, "server", "stop")
    /\ UNCHANGED <<running, asked, lib, phone, acc, onCall, closed, relayer, fault, file>>

-----------------------------------------------------------------------------
(* TinyPhoneHttpServer::Stop, by either thread *)

AfterStop(t) == IF t = "server" THEN "close" ELSE "leave"

\* if (running): a plain bool.
StopTest(p, t) ==
    /\ At(p, t, "stop")
    /\ Goes(p, t, IF running[p] THEN "clear" ELSE AfterStop(t))
    /\ UNCHANGED <<running, asked, lib, phone, acc, onCall, closed, relayer, fault, port, file>>

StopClear(p, t) ==
    /\ At(p, t, "clear")
    /\ running' = [running EXCEPT ![p] = FALSE]
    /\ Goes(p, t, "hangup")
    /\ UNCHANGED <<asked, lib, phone, acc, onCall, closed, relayer, fault, port, file>>

\* HangupAllCalls: the calls end later, if at all.
StopHangup(p, t) ==
    /\ At(p, t, "hangup")
    /\ IF phone[p] = "alive" /\ lib[p] = "running"
         THEN Goes(p, t, "logout") /\ UNCHANGED fault
         ELSE fault' = [fault EXCEPT ![p] = TRUE] /\ UNCHANGED at
    /\ UNCHANGED <<running, asked, lib, phone, acc, onCall, closed, relayer, port, file>>

\* TinyPhone::Logout(): accounts with a call are kept; SaveAccounts writes the rest.
LogoutAll(p) ==
    /\ acc' = [acc EXCEPT ![p] = @ /\ onCall[p]]
    /\ file' = (acc[p] /\ onCall[p])

StopLogout(p, t) ==
    /\ At(p, t, "logout")
    /\ IF phone[p] = "alive" /\ lib[p] = "running"
         THEN LogoutAll(p) /\ Goes(p, t, "destroy") /\ UNCHANGED fault
         ELSE fault' = [fault EXCEPT ![p] = TRUE] /\ UNCHANGED <<at, acc, file>>
    /\ UNCHANGED <<running, asked, lib, phone, onCall, closed, relayer, port>>

\* TinyPhone::Shutdown and libDestroy.
StopDestroy(p, t) ==
    /\ At(p, t, "destroy")
    /\ IF phone[p] = "alive" /\ lib[p] = "running"
         THEN lib' = [lib EXCEPT ![p] = "destroyed"] /\ Goes(p, t, AfterStop(t)) /\ UNCHANGED fault
         ELSE fault' = [fault EXCEPT ![p] = TRUE] /\ UNCHANGED <<at, lib>>
    /\ UNCHANGED <<running, asked, phone, acc, onCall, closed, relayer, port, file>>

Stop(p, t) ==
    StopTest(p, t) \/ StopClear(p, t) \/ StopHangup(p, t) \/ StopLogout(p, t) \/ StopDestroy(p, t)

-----------------------------------------------------------------------------
(* The end of Start *)

\* Variation: the channel is not closed.
CloseChannelNot(p) ==
    /\ At(p, "server", "close")
    /\ Goes(p, "server", "join")
    /\ UNCHANGED <<running, asked, lib, phone, acc, onCall, closed, relayer, fault, port, file>>

\* updates.close()
CloseChannel(p) ==
    /\ At(p, "server", "close")
    /\ closed' = [closed EXCEPT ![p] = TRUE]
    /\ Goes(p, "server", "join")
    /\ UNCHANGED <<running, asked, lib, phone, acc, onCall, relayer, fault, port, file>>

RelayerExits(p) ==
    /\ ~fault[p] /\ Alive(p)
    /\ relayer[p] = "running" /\ closed[p]
    /\ relayer' = [relayer EXCEPT ![p] = "exited"]
    /\ UNCHANGED <<at, running, asked, lib, phone, acc, onCall, closed, fault, port, file>>

Join(p) ==
    /\ At(p, "server", "join")
    /\ relayer[p] # "running"
    /\ Goes(p, "server", "unwind")
    /\ UNCHANGED <<running, asked, lib, phone, acc, onCall, closed, relayer, fault, port, file>>

\* Variation: the destructor does not look at PJSIP.
UnwindsBlindly(p) ==
    /\ phone' = [phone EXCEPT ![p] = "gone"]
    /\ LogoutAll(p)
    /\ fault' = [fault EXCEPT ![p] = lib[p] # "running"]

\* ~TinyPhone: a PJSIP that still runs is logged out of.
Unwinds(p) ==
    /\ phone' = [phone EXCEPT ![p] = "gone"]
    /\ IF lib[p] = "running" THEN LogoutAll(p) ELSE UNCHANGED <<acc, file>>
    /\ UNCHANGED fault

\* Start returns.
Unwind(p) ==
    /\ At(p, "server", "unwind")
    /\ Unwinds(p)
    /\ Goes(p, "server", "leave")
    /\ UNCHANGED <<running, asked, lib, onCall, closed, relayer, port>>

\* Start returns early: the relayer has not been joined, and the destructor of its
\* thread ends the process.
Abandon(p) ==
    /\ At(p, "server", "abandon")
    /\ Unwinds(p)
    /\ IF relayer[p] = "running"
         THEN Ends(p, "aborted")
         ELSE Goes(p, "server", "leave") /\ UNCHANGED port
    /\ UNCHANGED <<running, asked, lib, onCall, closed, relayer>>

\* exit, by the thread of the server or by the closer.
Leave(p, t) ==
    /\ At(p, t, "leave")
    /\ Ends(p, "exited")
    /\ UNCHANGED <<running, asked, lib, phone, acc, onCall, closed, relayer, fault, file>>

\* The window is closed or a signal arrives: StopApp, and exit.
CloseApp(p) ==
    /\ p \in Closers /\ Alive(p)
    /\ At(p, "closer", "off")
    /\ Goes(p, "closer", "stop")
    /\ UNCHANGED <<running, asked, lib, phone, acc, onCall, closed, relayer, fault, port, file>>

-----------------------------------------------------------------------------
StartStep(p) ==
    \/ LoadConfig(p) \/ StartLibrary(p) \/ MakePhone(p) \/ RestoreAccounts(p)
    \/ StartRelayer(p) \/ TestPort(p) \/ RetestPort(p) \/ Bind(p)

EndStep(p) ==
    \/ RunReturns(p) \/ CloseChannel(p) \/ RelayerExits(p) \/ Join(p)
    \/ Unwind(p) \/ Abandon(p)

User(p) == Launch(p) \/ AnswerYes(p) \/ AnswerNo(p) \/ Login(p) \/ CallChanges(p) \/ Exit(p) \/ CloseApp(p)

ThreadStep(p, t) == Stop(p, t) \/ Leave(p, t)

Next ==
    \E p \in Proc : StartStep(p) \/ EndStep(p) \/ User(p) \/ \E t \in Thread : ThreadStep(p, t)

\* The threads of a process run; nothing is assumed of users.
Fairness ==
    \A p \in Proc :
        /\ WF_vars(StartStep(p)) /\ WF_vars(EndStep(p))
        /\ \A t \in Thread : WF_vars(ThreadStep(p, t))

Spec == Init /\ [][Next]_vars /\ Fairness

-----------------------------------------------------------------------------
(* Properties *)

\* On no way through Start, Stop and ~TinyPhone does a process that nobody closes use
\* PJSIP after libDestroy or the TinyPhone after its end, but for one: the process did
\* not get the port, and ~TinyPhone left an account behind because it had a call.
NoUseAfterEnd ==
    \A p \in Proc \ Closers :
        fault[p] => phone[p] = "gone" /\ lib[p] = "running" /\ acc[p] /\ ~asked[p]

\* A process that nobody closes and that calls exit once it has had a TinyPhone has
\* joined its relayer and ended the TinyPhone; if it was asked to exit, PJSIP has been
\* destroyed before that.
ExitIsClean ==
    \A p \in Proc \ Closers :
        at[p]["server"] = "exited" /\ phone[p] # "none" =>
            /\ relayer[p] # "running"
            /\ phone[p] = "gone"
            /\ asked[p] => lib[p] = "destroyed"

\* /exit "Exit the application" (README.md): once it has been asked to, or somebody
\* has closed its window or sent it a signal, a process ends, in whatever its threads
\* are; no thread waits for another one that has gone.
ExitEnds ==
    \A p \in Proc : asked[p] \/ at[p]["closer"] = "stop" ~> at[p]["server"] \in Ended \/ fault[p]

\* A process that is launched gets to serve, or ends, or waits for an answer; two that
\* are launched together do not keep each other from it.
LaunchSettles ==
    \A p \in Proc : at[p]["server"] = "config"
        ~> at[p]["server"] \in {"serving", "ask"} \cup Ended \/ fault[p]
=============================================================================
