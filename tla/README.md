# Tinyphone: TLA+ models and proofs

Tinyphone is a SIP softphone without a window: a C++ program around PJSIP
(`src/tinyphone`) that is driven over HTTP and reports events over a web socket.
This directory holds TLA+ modules that model its stateful parts, TLC instances
that check them, and TLAPS proofs about them.  Paths below are relative to the
repository.

## 1. The system

| component | state | operations | driven by |
|---|---|---|---|
| ring tones (`phone.cpp` StartRinging, StopRinging) | `ringing_count`, `ringback_count`, `SIPCall::isRinging`, two generators | start, stop | the callbacks of every call |
| calls (`call.cpp`, `account.cpp`) | `SIPAccount::calls`, the `SIPCall` objects, PJSIP's sessions and call ids, the timers of auto answer | dial, incoming, answer, hold, resume, hang up, disconnect, remove | HTTP threads, PJSIP threads, a PJSIP timer |
| accounts (`phone.cpp`, `server.cpp`) | `TinyPhone::accounts`, `add_acc_mutex`, `user.conf` | login, logout, logout of all, save, restore | HTTP threads, the thread of `Start` |
| events (`channel.h`, `events.h`, `server.cpp`) | the channel, `subscribers` | publish, relay, open, close | callbacks, the relayer thread, HTTP threads |
| server life cycle (`server.cpp`, `baseapp.cpp`, `config.cpp`) | `running`, the port, PJSIP's library state, the local TinyPhone | StartApp, Start, Stop, `/exit`, ~TinyPhone | the thread of StartApp, the window or signal handler |
| registration (`account.cpp`, `server.cpp`) | the REGISTER under way of each account, `create_result_promise` | login with and without `?sync`, reregister, logout | HTTP threads, PJSIP threads |
| conference (`phone.cpp`) | the conference bridge | join, break | HTTP threads |
| audio devices, codecs (`phone.cpp`) | device indices | configure, refresh, test | callbacks, HTTP threads |
| SIP addresses (`utils.cpp`) | none | complete, add the transport, take apart | `/dial`, `/calls`, events |
| configuration (`config.cpp`) | `ApplicationConfig` | the fallback chain of InitConfig | start-up |
| archive of logs (`microtar.cpp`) | `mtar_t`: position, remaining data, last header | write, find, next, read | `GET /logs`, whoever reads the archive |
| C# web socket client (`src/TinyphoneCSharpClient`) | socket, status, cancellation, receive task | connect, listen, disconnect, dispose | its user, its listener |
| C# HTTP wrappers (`TinyphoneService.cs`) | none | one method per route: an object, or null for an error | its user |

How they interact: an HTTP route calls `TinyPhone`, which calls PJSIP; PJSIP
calls back into `SIPAccount` and `SIPCall` on its own threads; each callback
first publishes an event into the channel, then changes the vector of calls, the
tones and the hold state of *other* calls.  Routes and callbacks share all of
this; the only locks are `add_acc_mutex` (changes of the account map), the mutex
of the channel, and `mtx` (onopen and onclose).  There are no tests in the
repository.

What is hard in it: callbacks that overtake the route that caused them; an
exception in the middle of a callback that skips the rest of it; checks made
before a lock is taken; pointers kept across a deletion; a file rewritten in
place; a shared tone whose owner nobody remembers.  `PROJECT.json` lists each
of these at its line, with the properties that cover it.

## 2. The modules

```
Ringtones <--EXTENDS-- Tones <--EXTENDS-- Calls <--EXTENDS-- MCCalls
    ^                                       ^
    |           Conference <--EXTENDS-------'
    |               ^--EXTENDS-- CallApi <--EXTENDS-- MCCallApi, CallsProofs
    |                 SipUri <--EXTENDS-'
    '--INSTANCE-- RingtoneThreads (refinement: ImplementsRingtones)
                         ^--EXTENDS-- RingtoneThreadsProofs
Accounts      <--EXTENDS-- MCAccounts, AccountsProofs
AudioDevices  <--EXTENDS-- Registration  <--EXTENDS-- MCRegistration, RegistrationProofs
EventFeed     <--INSTANCE-- EventChannel (refinement: ImplementsFeed)
                   ^--EXTENDS-- EventChannelProofs
Microtar      <--EXTENDS-- LogArchive    <--EXTENDS-- MCLogArchive, LogArchiveProofs
Lifecycle     <--EXTENDS-- LifecycleProofs
WsClient      <--EXTENDS-- WsClientProofs
```

**Ringtones** - the two tones, a handler a step.  `count` is the pair of counters,
`playing` the generators connected to the speaker, `isRinging` the flag of each call;
`rung` is a ghost, the tune a call rings with, which the code does not remember.
`StopRinging` takes down every counter that stands at one, as the code does: this is why
a counter that reached two stays (`StuckTone`) and why answering one call may silence
another.  `bad` is the set of generators that throw in a handler (`Throwing`, if
`ToneMayFail`): the counter is up when startTransmit throws and stays up with nothing
connected; stopTransmit leaves its generator connected with the counter down, and since
one `try` stands around both tunes, a throw at "Ringing" leaves "RingBack" untested
(`ThrowsFirst`, `Tested`, `TakenDown`).

**Tones** - what the user hears of it.  Two ghosts say how far the program has lost
track: `cut`, the ringing calls beside which another call has stopped ringing, and
`amiss`, the tunes whose last connection or disconnection threw or was skipped, until the
generator is connected or disconnected again.  The properties (`ToneMatchesCount`,
`HeardUnlessCut`, `QuietWhenIdle`) say that nothing else separates counter, generator and
ear.  Calls is built on Tones.

**RingtoneThreads** - the same two functions statement by statement; `Threads` handlers at a
time.  The load and the store of `++` are two steps, the test and the decrement of
StopRinging are two, and the decrement may reload or reuse the value tested, since the
compiler may do either; which generators will throw in a handler is chosen when it begins
(`throwing`).  With one handler at a time it implements Ringtones (`ImplementsRingtones`):
`FinalCount` and `FinalPlaying` are what the counters and the generators will be when the
handler under way has ended, the throw that awaits it included, so a handler takes effect
with its first statement and the others carry it out.  This is what lets Calls make one step
of a handler.  With two it does not, which is the finding of `tone_threads`: Calls says
nothing of handlers that overlap.

**Calls** - the vector of calls of each account and the handlers on them.  A step
is one handler from entry to return, but for MakeCall (`Dial`, `DialReturns`:
callbacks of the new call run before it is in the vector) and
onCallState(DISCONNECTED) (`Disconnected`, `CallRemoved`: the tone of one second
lies between them).  `call[c]` holds what a handler can see of a call: whether
the object exists, the state of the session, the first audio medium, a re-INVITE
under way and the call id (`slot`).  Media may be without audio ("NONE", which the code
treats like local hold) where `Agreed` says so.  The remote party and PJSIP are the
environment: `RemoteRinging`, `RemoteAnswer`, `RemoteReinvite`,
`ReinviteAnswered` and so on change the session as PJSIP's callbacks announce it,
and run the handler of that callback in the same step.  A `getInfo` of a call
PJSIP has forgotten throws, a re-INVITE over another one throws, and an exception
skips what it skips in the code: the rest of the hold loop, the `delete this`, or
the whole of the disconnect handler.  An error of the sound device cuts the tone of one
second short, so `CallRemoved` may come before `DialReturns`, which then puts a deleted
call into the vector: nothing is claimed of the steps after that (`Defined`), since the
next loop over the vector reads freed memory.  The ghost `lost` marks a call whose end
was handled before MakeCall was done ("late") or could not be published.

**Conference** - the connections between calls in PJSIP's bridge (`bridge`, pairs of
calls) on top of Calls.  The loops of `Conference` and `BreakConference` go over the
vectors of all accounts and skip what has the call's own id; the first call for which
something throws ends the loop: the re-INVITE or getAudioMedia (`JoinThrows`,
`LeaveThrows`), or one of the two transmissions (`PortMayFail`), after the re-INVITE and
perhaps after the other direction (`StopsAt`).  What was done before stays done, and the
function returns false.  They make a star, not a mesh: the call is joined to every
other one, the others are not joined to each other unless a second request does it.
PJSIP lets any two ports be connected; what it does to the connections of a call whose
media change is left open (`PortsFollow`).

**CallApi** - the call routes and the user of the C# client who calls them.  One
request is followed step by step: `Lookup` (CallById) and then one action per route
that works with the pointer it got, while Calls goes on with everything else
(`Elsewhere`), other clients' requests included, each of those in one step.  Which route
it is makes no difference up to the look-up and is chosen after it; the second call of an
attended transfer is looked up where it is used.  A route that follows a pointer to a deleted
call ends the behaviour (`FollowsDangling`).  `told` is what the wrapper hands to its
user: an object that says the thing is done ("ok"), null, or an object that promises
nothing ("nothing": a REFER or DTMF on its way, a status that is false).

**SipUri** - `GetSIPURI`, `AddTransportSuffix` and `ParseSIPURI` as functions of texts,
which are sequences of characters with the scheme as one token, with the offsets of the
code, -1 for npos and a negative length as the huge size_t it is.  The reference is the
grammar: `DialledIsShown` and `CallerIsShown` build an address from its parts and ask
for the parts back.  For the nameless `<sip:u@d>` the negative length of
`utils.cpp:211-213` gives the whole address for a name, which is what `CallerIsShown` says
of it.  CallApi uses it where a call is dialled and where `/calls` shows one.

**Accounts** - the map, its mutex and `user.conf`.  Every function that takes
`add_acc_mutex` is a step up to SaveAccounts and a step after the file has been
truncated; the loop of `TinyPhone::Logout()` is a step per delete and per erase,
because look-ups take no mutex.  Routes are a step per look-up.  A thread that
follows a pointer to a deleted object ends the behaviour (`phase = "undefined"`);
nothing is claimed after that.  `acked` is a ghost, what the user has been told; the
ghost `dropped` holds those of them that the sweep of Stop has logged out, of which no
user is told.
`Crash`, `StopBegin`/`StopEnd`, `Restart`, `Restore`, `RestoreFails` are the life of
the process as far as the file is concerned.  The ghost `spoilt` remembers that a
save or a restore has been interrupted, by a crash or by an account that could not
be added: what the file and the acknowledgements are worth after that is not
claimed, for the file until the next save has written it whole.

**Registration** - one account name: its entry in the map, the objects it has had,
the REGISTER or un-REGISTER each has under way (`tsx`), and the promise that the first
result keeps.  `LoginRoute`, `AddAccount`, `Await` and `TimeOut` are `POST /login` cut
where other threads can come in; AddAccount and Logout, whose insides are those of
Accounts, are a step each.  `Abandoned` is the promise that goes with its object.  The
ghost `past` remembers whether the registrar has accepted a REGISTER of the object and
whether a result was missed, because publishEvent threw before the promise was kept.
`Parses` is what `from_json` makes of the client's request.

**AudioDevices** - which devices `ConfigureAudioDevices` takes from a list that may
change between two refreshes, and `TestAudioDevice`, on which a login depends.  Device
number 0 counts as no choice in the code, and a number is kept when no preferred device
is there, whatever stands at that number by then; the model does the same.  The
reference (`Best`) is the first able device of the first preference, number 0 included;
what the code keeps of it is `TakesPreferred`.

**EventChannel** - the channel with its mutex (each method a step, the wait of
`pop` one more), the relayer thread, the set of subscribers, and the close and
join at the end of Start.  Changing `subscribers` while the relayer walks over it
is undefined behaviour and ends what is claimed (`defined`).  **EventFeed** is
what it promises: events are taken over in the order in which they were accepted.

**Lifecycle** - several processes on one machine, from StartApp to the end of
Start.  `at[p][t]` is the next statement of a thread: "server" runs StartApp, "closer"
is the window or the signal handler, which calls Stop and exits.  One account stands
for all of them, since only whether there is one, and whether it has a call, decides
what Stop, the destructor and `user.conf` do.  The configuration is the fallback chain
of InitConfig (`ConfigText`).  The processes share the port and the file.  A process
that uses PJSIP when it is not running, or a TinyPhone that is gone, has a `fault`,
after which nothing is claimed of it.  The signal handler of the Linux build
interrupts a thread instead of running beside it; it is modelled as the thread it is
on Windows, which allows more.

**Microtar** - `microtar.cpp` as functions of a tape, which is a sequence of segments
(header, data, nulls) instead of bytes: rounding, reading a header, `mtar_next`,
`mtar_find`, `mtar_read_data`, with `remaining_data` modulo `Word`.  Text read as a
header is taken never to have a fitting checksum.  **LogArchive** is the route
`GET /logs` with the logs growing between any two steps: measure, open, header, a turn
of the copy loop, padding, finalize; and a reader of the result that finds, goes on,
reads and changes its mind.  The overload of `mtar_write_file` with a size
(`microtar.cpp:398`) is declared in no header and never called; it is left out.

**WsClient** - the C# client, a listener (`StartListeningAsync`, left to run) beside a
user who makes one call after the other.  StartListeningAsync runs on the user's thread
until it awaits something (`Awaited`): the user is at "listen" up to there, which in a
stranded client is for ever.  A step lies between two looks at the shared
fields `Status` and `_webSocket`, since a continuation runs on any thread of the pool.
The sockets are .NET's (external): `Accepted`, `Refused`, `CloseAnswered` and the
`Receive...` actions are what the server and the network do.  Messages are reduced to
the fact that a handler may throw.

In each module the operators commented "Variation" are plausible bugs of the
definition that follows them; no specification uses them, they serve to test
that the properties can fail.

## 3. The runs

| run | instance | what it shows |
|---|---|---|
| `calls_safety` | 3 calls, 3 slots, one account, `ToneMayFail` | an accepted dial has held the others; what the user hears, with generators that throw |
| `call_api` | 3 calls of 2 accounts, exceptions, one request followed | what the vectors hold and what rings, through every exception and the race of MakeCall with the end of its call; a success that is told is a thing done, a null changes nothing; addresses are shown as they were typed |
| `calls_liveness` | 3 calls, 2 accounts, 1 slot, delayed auto answer | removal, auto answer over a reused slot, media without audio |
| `accounts` | 3 names, 3 objects, 2 HTTP threads, limit 1 | map, objects, file and acknowledgements agree through races, failures, crashes and graceful stops; how far the limit can be exceeded |
| `registration` | 2 threads, 2 objects, 3 lists of devices | a login that waited and is told 200 has been accepted; every login is answered; which devices a refresh takes |
| `events` | 3 events, 2 connections | order, no lost wake-up, shutdown, the feed |
| `archive` | 2 logs of up to 1400 bytes that grow | framing, no mixing, what can be found, what a reader gets |
| `lifecycle` | 2 processes, one may be closed, Windows | no use after the end, a clean and certain exit, the contest for the port |
| `ws_client` | 3 sockets, 3 calls of the user | reconnection, no lock-out, no waiting for a listener that goes on, every call returns |
| `tone_threads` | 2 calls, two handlers | **violation**: a counter below zero (`phone.cpp:431` says it cannot) |
| `ws_reconnect` | as `ws_client` | **violation**: a listener that never reconnects (`ITinyphoneWebSocketService.cs:68`) |
| `optional_fields` | as `registration` | **violation**: the optional proxy of the client's README may not be left out (`config.cpp:33`) |

Bounds.  `MaxCount` of RingtoneThreads caps a counter that leaks: 3 is one more than the first value
that sticks.  Three calls are a call, another one it can hold or resume, and a
third that comes between them; with one slot they are three generations of a call
id.  `call_api` starts where the bridge is of interest: three calls that talk, one in
the first account and two in the second, so that a loop crosses from a vector to the
next and can fail at either end of it; or with one object left to be dialled, which
is what `/dial` and the addresses need.  Each SIPAccount and SIPCall object is built
once, so `Obj`, `Object` and `Call` bound the length of a history: three objects let an
account be logged out and in again and raced for, two are a login and the one that
replaces it under a waiting thread (a login begins only while an object is left for
it).  Two HTTP threads are what a race needs.  `MaxCalls` in Accounts only has to tell
none from some; in Calls it is the number of slots.  The lists of devices have none, the
preferred one last or missing, and ones that match a name but cannot do what is asked.
In the archive the lengths 0, 700 and 1024 are an empty log, one that needs padding and
one that fills the buffer of the copy loop exactly; the growths complete a buffer or
overflow a header; `Word` is 2^16 instead of 2^32, still far above every length.  Two
processes are what a contest for the port needs.  Two sockets can be referred to at once
besides the new one, so three suffice (an unreferenced socket is used again, and
histories are unbounded); three calls let a user disconnect and listen again.  Calls,
slots, names, objects and threads are symmetric in the runs of `calls_safety` and
`accounts` only, never in a liveness run.

What the runs assume.  `ToneOutlastsDial` (Calls): the tone of one second in onCallEnd, when
it plays, is longer than what is left of MakeCall after makeCall.  It does not play when the
sound device fails (`call.cpp:205`), and in `call_api` the device may fail, so the race of
`phone.cpp:168` is in that run; `ListedObjectExists` and `ListedIsKnownToPJSIP` pin it, and
an event that could not be published, as the only ways in which a vector keeps what is gone.
The theorems do without the assumption.  `Agreed`, what offer and answer may make of the
media of a call, is all three values in `calls_liveness` and ACTIVE elsewhere, where a call
without audio is among the talking ones of `call_api`; early media is with audio.  The
generators throw (`ToneMayFail`) in `calls_safety`, the events and the sound device
(`PublishMayFail`, `DeviceMayFail`) and one port of the bridge (`PortMayFail`) in
`call_api`; the theorems hold for all of them together.  A write error of `user.conf` is not
modelled.  A graceful stop logs out every account without calls, so it empties `user.conf`:
the models follow the code, and `AckedIsRegistered` exempts the names in `dropped`, exactly
those, and the states after an interrupted save or restore. `DevicesPreferred` promises
nothing of a best device that is number 0, which counts as no choice (`phone.cpp:239` and
243), nor of what a kept number has come to stand for.  `NoUseAfterEnd` and `ExitIsClean`
are stated of processes nobody closes: a closer tears PJSIP down beside the server thread,
and nothing in the code prevents the fault.  In `ReconnectsOrStranded`, stranded is the
state `ws_reconnect` gets into: Status says Connected of a socket the client has closed
itself.  The handlers of the C# events StatusChanged and ErrorOccurred are taken not to
throw.  `SyncLoginIsTrue` excepts an object one of whose results was missed: the promise is
then kept by a later result, and a 200 may be that of an un-REGISTER. `NullChangesNothing`
excepts `/dial`, which answers 500 for a call that goes on when holding the others throws.
`ShownAsTyped` does not cover two inputs that the code does not take apart as meant: a
scheme in capitals is recognised by `GetSIPURI` and not by `ParseSIPURI`, and the last
character of an empty text is undefined.  `CallsReturn` excepts a StartListeningAsync in a
stranded client: it spins on the thread of its caller and never comes to an await (without
the exception TLC finds it violated).

TLC reaches some things that no property forbids, since the code promises nothing: the
logout route tests the number of calls before the lock is taken, so a call that arrives
in between is deleted with its account (`server.cpp:337`); a route follows the pointer
of `CallById` after the call has ended (`server.cpp:479`); DisconnectAsync within
the five seconds after a lost connection rethrows the error of that connection and
leaves Status at Reconnecting; a call not yet confirmed when another is dialled is not
held and talks beside it once it is answered (`account.cpp:80`); a login of a name that
exists answers 200 with "result" 200 before the registrar has said anything
(`server.cpp:202`).

Fairness.  Calls: a handler that has begun ends (`DialReturns`, `CallRemoved`),
PJSIP's transaction timers disconnect a call that has been hung up, a scheduled
timer fires.  Registration: a thread of the server runs on from AddAccount, and its
`wait_for` has a limit; nothing is assumed of the registrar.  EventChannel: the relayer
thread and the thread that joins it run when they can.  Lifecycle: the threads of a
process run.  WsClient: the tasks run, an attempt to connect ends, a close frame is
answered or the connection lost.  All of these are weak: each stays enabled until
taken.  The one strong assumption is of the environment of WsClient: a server that is
asked to accept again and again accepts in the end; without it no client could
reconnect.  No fairness is assumed of users or remote parties, nor that a server ever
sends anything.  CallApi, Accounts and LogArchive have no liveness.

## 4. The proofs

TLAPS proves, for every value of the constants (the assumptions are the `ASSUME`
of the modules, evaluated by TLC in every run):

* `CallsProofs`, about the tones: `RingTyping` and `StuckForGood` (the action property,
  which no run repeats) of Ringtones; `ToneAccounting` of Tones, with generators that throw
  in any handler: `CountsNotNegative`, `ToneMatchesCount`, `HeardUnlessCut` and
  `QuietWhenIdle`.  The first two are inductive together; the others need `TonesKept`: a
  ringing call that was not cut has its counter at one or more, and a counter that stands
  at one and is not amiss has a ringing call behind it.
* `RingtoneThreadsProofs`, with `Threads = 1` and finitely many calls:
  `SerialHandlersAreRingtones`, the refinement (`ImplementsRingtones`; the first statements
  are `Ring` and `Silence`, all others stutter), and `SerialCounts` (`CountsNotNegative`).
  The inductive invariant `SerialInv` says that one handler at most is under way, that what
  it has loaded is still what is there, and that a counter it is about to take down stands
  at one: with two handlers the last two fail. The generators may throw.
* `CallsProofs`, about Calls and, where the statement says `ApiSpec`, about CallApi with its
  routes and exceptions.  The invariant `IInv` is `TypeOK`, the accounting of the tones,
  `VectorsOK` (a vector holds calls of its account, each once), `OwnSlots` (no two calls
  have one id) and `Sound`, what is true of each call by itself: an object is untouched
  until it is made, MakeCall lists its call at its end and not before, an answered call has
  media, what is listed or about to be is alive and known to PJSIP unless `lost` says why
  not.  None of the properties is inductive alone: that a deleted call is not listed needs
  that it was listed once only, that one ringing is early needs that an answered call has
  media.  From it follow `CallsTyping`, `OngoingAreListed`, `ListedExist`, `ListedAreKnown`,
  `RingEndsWithEarly` and `TonesOfCalls`, for every value of the constants: what fails, how
  long the tone lasts and what offer and answer agree on.  Most of the work is one lemma per
  handler that says what a step looks like from the calls: it changes one of them and leaves
  marks (a re-INVITE under way, a hang-up) on others. `DialHoldsOthers` is the action
  property of MakeCall's return. `SuccessMeansDone` and `NullMeansNothing` are the two
  action properties of the client; the first needs `ApiInv`, which adds that the pointer a
  route holds is listed or its call has ended, and that the bridge connects listed calls
  only. `ShownIsTyped` (`ShownAsTyped`) is about the operators of SipUri: `find` returns the
  place of the first mark and `substr` cuts there (`CutAt`), the texts that `GetSIPURI`
  completes have the shape `sip: user @ domain parameters` whatever was typed (`Typed`), and
  `ParseSIPURI` cuts such a text, bare, in brackets behind a name or in brackets alone, into
  the same parts (`AddressParsed`, `NamedParsed`, `NamelessParsed`).  Its assumption
  `Grammar` says what the runs enumerate, without a bound on the length: the parts of an
  address are texts over any characters but the marks `sip:`, `@`, `;`, `?` and `>`, a
  remote party names a domain, and "unknown" is such a text and not empty.  The marks have
  names in the proofs (`AtSign`, ...), since the SMT backend does not read them as strings.
* `EventChannelProofs`: `ChannelIsFifo` (the queue is the interval of numbers
  after those relayed), `NoWakeupLost` (inductive with the place of the relayer:
  only a relayer that is in `pop` waits), `ChannelImplementsFeed` (each step of
  the channel is a step of the feed or a stutter, using `ChannelIsFifo` for the
  event that is popped), `SentWithoutGap` (`SentInOrder`; the strengthening: while the
  relayer sends, it has the last event taken in hand, and whom it has still to send it to
  is among the subscribers; a connection not opened was sent nothing); `ChannelTyping`
  (`TypeOK`, with `ChannelIsFifo` for the number a new connection starts from).
* `AccountsProofs`: `Typing`; `MutexHeld` (the owner of the mutex is the thread inside, and
  Main does what the phase says); `MapAgrees` (`MapIsExact`: a mapped name leads to an
  object that lives, and every object that lives is mapped; inductive together with: an
  object has one name, a pointer a thread has found is still the one mapped under its name
  while the object lives, and the loop of `Logout()` has only mapped names ahead of it);
  `FileKept` (`FileMatchesRegistry`; the strengthening adds, of a file that is not spoilt,
  that a process that went down left it whole and that a restore still has all of it ahead
  or has rewritten it); `AcksKept` (`AckedIsRegistered`; the strengthening says for every
  thread inside the mutex what it has yet to tell the user (`Due`: told and not dropped),
  that a whole file holds what has been acknowledged, and that a restore has the rest ahead
  of it); `LimitHolds` (`AccountsBounded`: the registered accounts and the threads past the
  test of the limit together never exceed `MaxAccounts + |Http| - 1`, and neither do the
  names of the file and those a restore has ahead, which is what carries the bound over a
  restart).
* `RegistrationProofs`: `PromisesKept` (the inductive invariant: a promise of 200 has an
  accepted REGISTER of that object behind it, or a missed result, and a live object whose
  promise waits has its REGISTER still under way, or has missed one; the second half is
  why an un-REGISTER, which PJSIP refuses while a REGISTER is under way, cannot be what
  keeps the promise); `SyncLoginHolds` (`SyncLoginIsTrue`: only `Await` sends 200 to a
  thread that waits, and it sends what the promise holds); `RegTyping` (`RegTypeOK`);
  `PreferredDevicesTaken` (`DevicesPreferred`, for any preferences and lists: the two loops of
  ConfigureAudioDevices are recursive functions over 0..n, and what they return
  (`Settles`) is found by taking the least preference, and the least device, that fits; the
  invariant `Counts` says that without the default devices a number is never negative).
* `LogArchiveProofs`: `FramedHolds` (`Framed`; inductive with the accounting of the log
  being copied: position, `remaining_data` and the bytes written add up to the header
  rounded up, which needs that a log only grows and is read in order); `LogsStayApart`
  (`NeverMixed`, which also holds of logs that outgrow their headers; inductive with: the
  segments of the tape do not reach beyond its end, no log has a header before its turn,
  and of the log being copied every byte so far is at its place behind the header).
  `FindAnswers` is about `mtar_find` alone: its recursion is well founded on every tape,
  since each turn of the loop moves on (`StepLooksAhead`) and no header lies behind the
  end of the tape (`SearchExists`), and what it reports as found is a header of the log
  with nothing remaining of an earlier read.  `LogsAreFound` (`FoundUnlessPushed`) and
  `ReaderGetsTheLog` (`ReadsTheLog`) rest on two more invariants.  `LinkInv`, of the route:
  the segments are in the order of their places, a header announces the size its log was
  measured with, and as long as no log before it outgrew its header, `mtar_next` goes from
  each header to the next one (`Linked`) and from the last to the end of the archive
  (`Ended`).  `ReaderInv`, of the reader: it stands at the header of the log it was led to, or
  behind it by a block and what it got.  `Walk` takes the search from header to header along
  `Linked`, by the least header it could fail to reach.  `ArchiveTyping` is `TypeOK`.
* `LifecycleProofs`: `Typing`; `Order`, the inductive invariant of a process nobody
  closes: at which statements PJSIP runs, the TinyPhone and its accounts exist and the
  relayer is joined, one lemma for the process that steps and one that no other process
  disturbs it; `UsesWhatIsThere` (`NoUseAfterEnd`) and `LeavesInOrder` (`ExitIsClean`)
  follow from it.
* `WsClientProofs`: `NeverLockedOut` (`ConnectingIsTransient`; inductive with the range
  of `pc`: a task leaves ConnectAsync only by setting another status).  `ClientInv` adds
  that a task holds a socket exactly where it waits for one, that a listener has a token,
  and that only a listener inside ReceiveMessagesAsync is running; from it follow
  `ClientTyping` (`TypeOK`), `SocketsAreThere` (`NeverNull`: every State the client reads is
  that of a socket; that one of three sockets is free is `OneIsUnused`) and
  `JoinsOnlyTheStopped` (`JoinIsServed`, the safety half of `CallsReturn`).

Model-checked only, since fairness and ENABLED are out of the prover's reach, are the
liveness properties: `HungUpIsRemoved`, `AutoAnswered`, `LoginReturns`, `ShutdownEnds`,
`EventsRelayed`, `ReconnectsOrStranded`, `CallsReturn`, `ExitEnds` and `LaunchSettles`.  Every
invariant and action property of a passing run is a theorem.

What a recursive function computes is proved without the library's induction theorems,
which the provers cannot instantiate: a counterexample would have a least element, and
`Least` (LogArchiveProofs), `LeastOf` (RegistrationProofs) and the like say that a
set of numbers that is not empty has one.

`TypeOK` of EventChannel, Lifecycle, LogArchive, Registration and WsClient and the
refinement of Ringtones by RingtoneThreads are proved and no run repeats them.

## 5. What is not modelled

Setting the priorities of the codecs (once, inside PJSIP), choosing the SIP port, what the
destructors of globals do after `exit`, SendMessageAsync and the parsing of messages keep no
state that another part looks at.  Which account `PrimaryAccount` returns depends on which
ones are registered; Accounts lets it return any, or none.  The C# wrappers that are not of
calls make one request and return what they get; a wrapper whose time is over throws while
its route goes on, which is not followed.  `SIPAccount::HoldOtherCalls` and `HoldAllCalls`
are never called, nor is the overload of `mtar_write_file` with a size. Of `utils.cpp` and
`net.cpp` the rest formats texts, asks the operating system or blocks on a socket.  `enum.h`
is a table of names.  The modal dialog of DisplayError on the way out of an instance that
finds its port taken is left out: that process ends when its user has closed the dialog.  Of
the archive, writes that fail (`microtar.cpp:367-370`, ignored at 389) and an archive that
cannot be opened (ignored at `server.cpp:749`) are left out: the copy is taken to be
written.  A second StartListeningAsync while a listener runs, which overwrites the token of
the first (`TinyphoneWebSocketService.cs:129`), is left out, and an await is taken not to
complete at once.  Nothing is said of what follows a deleted call in a vector, or of a set
changed while the relayer walks over it.  Metrics, logging, encryption of the stored
password, the user interfaces and the installer are left out for good: they keep no state or
are pure input and output.

Met while modelling, outside any run: the answer to a login without `?sync` has no
"result", so the client README's example prints that the login failed, and LoginAsync
has no way to ask for `?sync`; DialAsync without an account sends a null, which makes
`/dial` take the whole body for the number (`server.cpp:381`); events of incoming calls
have no "id"; `RetryCount` of appsettings.json is read by nothing.

## 6. Plan

1. Done: every component that keeps state; every invariant and action property of a
   passing run is a theorem, and so are the two refinements (`ImplementsRingtones` of
   RingtoneThreads, `ImplementsFeed` of EventChannel).
2. Left: the second listener and the failing writes of section 5, and `net.cpp`, which
   keeps no state.  The hazards of `PROJECT.json` without a property are in the models;
   what the code promises of them is nothing, and each note says so.
