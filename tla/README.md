# PiceaToLoxone: specifications, model checking and proofs

PiceaToLoxone is a gateway between an HPS *Picea* energy appliance and a
*Loxone* Miniserver. It polls the appliance over HTTPS and pushes some ninety
values to virtual inputs of the Miniserver; and when Loxone calls its HTTP
server (`/set?value=1`), it reads the Miniserver's virtual outputs and POSTs the
settings that differ to the appliance. Every midnight it restarts its services
inside the same process.

The program's own code is in `src/PiceaToLoxoneC++` (3 267 lines of C++). Its HTTP
server is civetweb, of which `src/civetweb` is a copy; the part of it that this
program runs is modelled too.

This directory holds component models with their TLC runs, four abstract
specifications that some of them are shown to implement, and TLAPS proofs of
their safety properties.

Contents: 1 inventory - 2 modules - 3 ServiceCycle - 4 SettingsSync -
5 ValuePush - 6 WorkerPool and HttpConnection - 7 LogFiles - 8 conversions and
restart time - 9 runs, bounds and mutants - 10 fairness - 11 proofs -
12 disagreements and observations - 13 not modelled - 14 plan.

## 1. Inventory

| Component | State | Operations | Interacts with |
|---|---|---|---|
| Service cycle: `main`, `WaitUntilRestartWindow`, `TerminateHandler` (`Program.cpp`) | locals of the loop: the `LoxoneAPI` object, the future of the poller | load configuration, open a cycle, wait, stop, join, restart; abort | calls everything below; owns the objects whose lifetimes matter |
| Poller: `PiceaAPI::StartLoop`, `TryToConnect`, `FetchData`, `FetchFromApi` (`PiceaAPI.cpp`) | static atomics `isConnected`, `isFatalError`, `g_stopRequested`; static `PSD`, `OnDataFetched` | connect, poll, replace `PSD`, call back; `RequestStop`, `ResetRuntimeState` by `main` | a thread of its own (`std::async`); flags shared with `main` and the request workers |
| Value push: `HandleFetchedData`, `SendDataToLoxone` (`LoxoneAPI.cpp`) | a vector of futures | one task per value, join | called back on the poller's thread; one thread per value; the Miniserver |
| Settings writer: `CheckLoxoneValues`, `CheckVirtualOutputStatus`, `SendSettingsData`, `UpdateConfigSettings` | locals per request; reads `PSD`, `isConnected` | read outputs, compare, POST | on civetweb's worker threads, several at once, unsynchronised with the poller |
| Request handling: `request_handler`, `StartHttpServer`, `StopHttpServer` | a civetweb context; per request the body read so far | check, read, answer | started and stopped by `main`; a `LoxoneAPI` object per `/set` |
| civetweb: threads | ring of accepted sockets, idle and spawned counts, `stop_flag`, a mutex with two conditions | accept, queue, take, serve; create workers; stop and join | runs `request_handler`; `mg_stop` joins it |
| civetweb: one connection | buffer, lengths and counts of the message being read | read head, body and chunks, discard the rest, close | the client; `stop_flag` |
| Configuration: `Config::LoadConfig` | static strings | parse once per process | read by all threads, never written afterwards |
| Conversions: `zeitInSekunden`, `sekundenInZeitformat`, `Base64Encode`, enumerations | none | pure | used by the two directions |
| Logging: `Logger`, `CleanupOldLogFiles` | files, a mutex | append; remove old files | every thread; a line that cannot be written throws |
| Restart time: `GetNextLocalMidnight` | none | pure, calendar | `main` |
| libcurl, jsoncpp, container engine | reference count of `curl_global_init`; ... | transfers with 20 s timeouts; parse or throw; restart policy | external |

What is hard here: `main` (1 thread), the poller (1), civetweb's workers (many)
and the tasks of a push (many) share statics with no lock; objects on the stacks
of `main` and of the workers are captured or released under others; a stop is
requested by a flag that its addressee also writes; exceptions leave threads by
way of futures, destructors and `std::terminate`; requests time out on this side
and are carried out on the other; a cache of the appliance's settings is compared
with outputs while both change; inside civetweb, wakeups, a ring with two indices
and a message that arrives in arbitrary pieces; and a logger that throws with its
mutex locked. What makes each component correct is stated in sections 3 to 8;
`PROJECT.json` lists every hazard at its line.

## 2. Modules

| Module | Content |
|---|---|
| `ServiceSession` | abstract: work is only in progress inside a session |
| `HttpServer` | abstract: requests begin only while the server runs, and it is stopped when none is left |
| `ConnectionQueue` | abstract: a bounded first-come-first-served queue |
| `ValueMirror` | abstract: an input shows some reading, and only later ones after it |
| `ServiceCycle` | `main`, poller and workers as threads; implements `ServiceSession` and `HttpServer` |
| `WorkerPool` | civetweb's master and worker threads; implements `HttpServer` and `ConnectionQueue` |
| `HttpConnection` | one worker reads one request after the other; the answer chosen |
| `SettingsSync` | Loxone to Picea: workers, poller and `PSD`, late POSTs |
| `ValuePush` | Picea to Loxone: fan-out, join, failures; implements `ValueMirror` |
| `LogFiles` | lines from all threads, change records, the cleanup, uncaught exceptions |
| `Base64`, `SettingValues`, `RestartTime` | the computations that are not obvious |
| `..._proofs` | the theorems about the module of that name |
| `...MC` | symmetry sets and values for TLC |

`ServiceCycle` is the composition: it runs `main`, the poller and the workers
together with every flag they share, and leaves open what a transfer carries.
The other modules each open one part of it, and the places where they meet are
these.

* `HttpServer` is what `ServiceCycle` relies on and `WorkerPool` delivers: both are
  shown to implement it, `WorkerPool` with its threads as handlers,
  `ServiceCycle` with the workers that are in `request_handler`.
* `WorkerPool` serves a connection in one step, `process_new_connection`, whose
  fairness says that serving ends. `HttpConnection!Released` justifies it for the
  reading of the request, curl's timeouts for the handler.
* `SettingsSync` and `ValuePush` replace the cycle by what it does to them:
  `SettingsSync!Disconnect` stands for every way in which `isConnected` falls,
  `ValuePush!CycleRestarts` for the replacement of a poller that threw, which
  `ServiceCycle!PollerEndRestarts` establishes. `ValuePush!NoTaskOutlivesPush` is in
  turn what allows `ServiceCycle` to treat a push as one transfer of the poller.
* `SettingsSync!Convert` abstracts from the form of a value; `SettingValues` has the
  forms and no interleavings.
* `ServiceCycle!MayHang` says when a process may stop for good because the logger
  threw with its mutex locked; `LogFiles` shows how that comes about
  (`FatalEndsProcess`).

In the modules a definition whose comment begins with "Mutant:" is not part of
the model: it is a variant of the definition that follows it, with a fault that
such code plausibly has, and `PROJECT.json` says which property it violates.

## 3. ServiceCycle

| State | Code |
|---|---|
| `mainPc` | position in `main`, `Program.cpp:171-256` |
| `pollPc` | position in `StartLoop` and what it calls, `PiceaAPI.cpp:22-745`; `"done"` is a future that is ready |
| `workerPc` | per civetweb worker: position in `request_handler`, `LoxoneAPI.cpp:790-872` |
| `terminating` | workers with an exception that escaped: `TerminateHandler` sleeps 5 s and aborts |
| `g_stopRequested`, `isConnected`, `isFatalError` | the atomics of `PiceaAPI` |
| `callback` | `OnDataFetched` with the `this` it captured: live or dangling |
| `curlRefs` | `curl_global_init` minus `curl_global_cleanup` |
| `http` | the civetweb context |
| `midnight`, `transfersAfterStop` | the clock; a history counter |

A step is the code between two accesses to shared state; two accesses are one
step only where no other thread can touch the state in between (said at the
definition). `RequestStop` is two steps because the poller runs between the two
stores. `Connected` stores into `isConnected` whatever `RequestStop` has done
since the transfer began, as the code does.

`HttpServerRefinement` relates it to `HttpServer`, see section 2.

Failures are chosen by the constant `Faults`: a configuration that does not load,
a log line that throws, an answer of the wrong type or a missing thread, a port
that cannot be bound, a kill. An exception of `main` is followed through the
unwinding of its scope: `~future`, which waits, then `~LoxoneAPI`.

Safety: `CallbackNeverDangles`, `CurlAlive`, `NewCycleQuiescent`,
`NoStaleConnection`, `StopHonoured`, `StopBoundsWork`, and the refinement
`SessionRefinement`. The latter says that a cycle is a session: a worker or the
poller is only at work between `StartHttpServer` and the joins, and the next cycle
begins when nobody is. Liveness: `RestartCompletes`, `PollerEndRestarts`.

`EarlyMidnight` is the one constant that excludes a behaviour of the code. If it
is TRUE, midnight may strike before the poller's thread has executed its first
two statements; then `StopHonoured`, `StopBoundsWork` and `RestartCompletes` fail
(section 12). The runs and theorems about the stop protocol are for FALSE, so that
they say what holds apart from that race; all the other theorems do not depend on
it.

## 4. SettingsSync

| State | Code |
|---|---|
| `loxone`, `picea` | external: the virtual outputs, the appliance's settings |
| `PSD` | the static `PiceaAPI::PSD`, one `std::optional` per setting |
| `psd`, `uncopied`, `pollPc` | the poller's local, and `PSD = psd` under way |
| `workerPc`, `at`, `value`, `newpsd` | per worker: position in `CheckLoxoneValues`, the setting it is at, its locals |
| `late` | POSTs whose client has timed out and which the appliance may still carry out |
| `genuine` | history: did the fetched answer have status 200 |

`PSD = psd` (`PiceaAPI.cpp:694`) is a copy of one member after another with no
lock, and `currentValue.has_value() && currentValue.value() != result`
(`LoxoneAPI.cpp:348`) reads a member twice: steps of the poller fall between the
two reads. A member that is empty at the second one is `bad_optional_access`,
which `request_handler` does not catch; `Abort` is the end of the process and its
restart. The data race on the bytes of one member is resolved to the old or the
new value; a torn string or double is not modelled (section 13).

The nineteen settings are `NumSettings` settings visited in order. `Convert` says
for each which value an output stands for, or that it refuses: every block of
`CheckLoxoneValues` is this pattern. The log record of a change is left out; it
reads the member once more under a check of its own, and an empty member found
there ends the process as `BadOptionalAccess` does.

Safety: `NoBadAccess`, `SettledStays`. `Settled` says that outputs and appliance
agree and that every copy under way agrees with them; `SettledStays` that the
program alone never leaves that state, whatever is interleaved. Liveness:
`Converges`, when the outside world stops interfering agreement is reached and
kept, through stale caches, two requests at once, dropped POSTs, late POSTs, answers
that lack settings and aborts. Such answers are the JSON body of an error, which has no
setting (`FetchErrorBody`), and one that leaves out a key or names a state the program
does not know (`FetchSomeSettings`, `PiceaAPI.cpp:541-584`); with `NullAnswers = FALSE`
there are none.

## 5. ValuePush

| State | Code |
|---|---|
| `reading` | external: the number of the latest reading of each value |
| `pc`, `pd`, `pending` | the poller in `FetchData` and `HandleFetchedData`, its locals, the values not yet come to |
| `sending` | the running tasks, each with its own copy of input and value |
| `failed` | tasks of this push that returned false or threw |
| `shown` | external: what each virtual input of the Miniserver shows |
| `late`, `overtaken` | requests whose client is gone; history: the inputs that one of them was the last to set |

A reading is represented by its number, so that "older" and "newer" can be said.
`Spawn` treats the values in any order although the code has a fixed one: the
properties do not depend on it, and the model then covers every order in which
values are absent. `SpawnThrows` is `std::async` without a thread to be had, in
the middle of the fan-out: the destructors of the futures already made wait
(`Unwound`), then the exception ends the poller.

Safety: `NoTaskOutlivesPush`, `PushComplete`, and the refinement
`MirrorRefinement`: sends run concurrently, and still no input ever goes back to
an older reading, except when a request is done whose sender has timed out or was
killed; then it goes back no further than to what was news when it was given up.
Liveness: `Catches` says that this does not last.

## 6. WorkerPool and HttpConnection

`WorkerPool` is the library's threads, as the image builds them (no SSL, the queue
with condition variables, `prespawn_threads` 0).

| State | Code (`civetweb.c`) |
|---|---|
| `app` | position in `mg_start`, `mg_stop`, `free_context` |
| `masterPc` | the accept loop: `master_thread_run`, `accept_new_connection`, `produce_socket`, `mg_start_worker_thread` |
| `workerPc` | `worker_thread_run`, `consume_socket` |
| `squeue`, `sq_head`, `sq_tail` | the ring and its two indices, which the consumer winds back |
| `idle`, `spawned` | `idle_worker_thread_count`, `spawned_worker_threads` |
| `stop_flag` | 0 runs, 1 stops, 2 the master is done |
| `held`, `client`, `conn` | sockets in hand, and their descriptors |

A step is one critical section of `thread_mutex`, or the code between two accesses
to `stop_flag`, which the mutex does not guard. A signal wakes one sleeper, and a
worker that was busy may take what it was woken for. Faults: a worker thread or
the master thread cannot be created, a worker has no memory, wakeups are
spurious.

Safety: `OneKeeper`, `NoLostWakeup`, `PoolGrows`, `NoThreadOutlivesContext`, and the
refinements `HttpServerRefinement` and `QueueRefinement`. Liveness: `Served`,
`StopCompletes`, each with the exceptions that the code has.

`HttpConnection` is what one worker does with a connection, one connection after
the other on the same `struct mg_connection`.

| State | Code |
|---|---|
| `request`, `arrived`, `received`, `clientOpen` | external: the message and how much of it has come |
| `data_len`, `request_len`, `content_len`, `consumed_content`, `is_chunked`, `must_close` | the members of that name |
| `pc`, `reader`, `len`, `all_read`, `purpose`, `left`, `read` | position and locals of `read_message`, `get_request`, `mg_read`, `mg_read_inner`, `pull_all` |
| `taken`, `status`, `checked` | `request_handler`: the body it has, its answer, whether it called `CheckLoxoneValues` |
| `cut` | history: not all of the message could be read |

A message is a sequence of units, and a copy is the sequence of the positions of
what was copied: an offset that is wrong, a part taken twice or left out shows.
A CORS preflight is answered 200 before any handler is looked for; without a handler
the answer is 405 for a method that would change files, 404 for any other.
Polling a socket and receiving from it are two steps, as `stop_flag` is read in
between. The client may send unit by unit, fall silent, close or reset. Safety:
`TakenInOrder`, `BodyTakenWhole`, `NothingLeftUnread`. Liveness: `Released`.

## 7. LogFiles

| State | Code |
|---|---|
| `g_logMutex` | the mutex of `Logger.cpp` |
| `pc`, `job`, `handle` | per thread: position in `WriteLine`, the lines it is to write, its `ofstream` |
| `files` | external: the files, their lines, the day they were last written |
| `mainAt`, `unseen`, `victim` | `main`, `CleanupOldLogFiles` |
| `terminating` | threads in `TerminateHandler` |

A file that is removed goes on existing for the thread that has it open, as on
any POSIX system. `WriteLine` throws when the directory cannot be made
(`Logger.cpp:84`), with the mutex locked; if somebody catches it, unwinding unlocks
it, if nobody does, `std::terminate` runs with the mutex still locked, and the first
thing `TerminateHandler` does is to log. Other handlers that throw, files that
cannot be opened or removed, and a kill are faults too.

Safety: `LinesWhole`; `FreshLinesStay`, which says what the cleanup may lose:
nothing younger than the limit, but what is logged to a file between the look at
its age and its removal, and nothing of `App.log` even then, because `main` logs to
it right before it looks. Liveness: `FatalEndsProcess`.

## 8. Conversions and restart time

`Base64` is the loop of `Base64Encode` with its accumulator, an `int` that is shifted
left and never masked and overflows at the fourth character; it is the unsigned
number with the same bits, as gcc makes it. `EncodesText` compares the result with
what RFC 4648 says of the same text.

`SettingValues` takes one setting of each kind (switch, battery setup, filter
state, time of day) round the circle: output, `CheckLoxoneValues`,
`SendSettingsData`, appliance, `FetchData`, `HandleFetchedData`, input. `RoundTrip`
says that once nothing changes the circle comes to rest with the input showing the
output's number; it names the one exception.

`RestartTime` counts hours of UTC in a short year with two changes of the clocks.
`GetNextLocalMidnight` asks `mktime` with the `tm_isdst` of now. `RestartsDaily` says
what comes of it: never later than a day, never at once, and at midnight or, when
the clocks are changed in between, an hour before or after it. The image sets no
time zone, so this concerns hosts that give it one.

## 9. Runs, bounds and mutants

| Run | Instance | Checks | States |
|---|---|---|---|
| `cycle` | 3 workers, all faults | the properties of section 3 | 168 652 |
| `cycle_lost_stop` | 1 worker, no faults, `EarlyMidnight` | `RestartCompletes`: violated | |
| `cycle_hung_failure` | 1 worker, log faults | `FailureEndsProcess`: violated | |
| `settings_safety` | 2 workers, 2 settings, 2 disturbances, 1 late POST | `NoBadAccess`, `SettledStays` | 2 730 648 |
| `settings_liveness` | 2 workers, 1 setting with a refused output, 3 disturbances, 1 late POST, answers without the setting | `Converges` | 214 902 |
| `settings_lost_update` | 1 worker, 1 setting | `SentWhenDifferent`: violated | |
| `settings_error_body` | 1 worker, 1 setting | `CallbackOnlyAfterSuccess`: violated | |
| `push` | 1 + 1 inputs, 3 readings, 3 disturbances, 2 late requests | the properties of section 5 | 313 812 |
| `pool` | 3 workers, 4 connections, a ring of 2, all faults | the properties of section 6, `WorkerPool` | 164 075 |
| `requests` | 27 requests, buffers of 4, 3 and 2 units | the properties of section 6, `HttpConnection` | 264 804 |
| `logs` | `main`, poller, 1 worker; 2 files, 2 faults | the properties of section 7 | 578 308 |
| `conversions` | texts of up to 6 of 4 characters; 14 numbers; a year of 5 days | the properties of section 8 | 16 736 |

Bounds and why they are enough:

* Workers of the cycle: they share only the reference count of libcurl and
  `isConnected`, and act alike. Two are needed for one to release libcurl while
  another uses it, two for an older POST to follow a newer one; the third is for
  the stop, with one worker before, one in and one after its handler. The theorems
  are for any number.
* `MaxTransfers` only saturates a counter: 3 is one more than the 2 that
  `StopBoundsWork` allows.
* `MaxDisturbances` is a budget on failures and outside changes together. Faults
  do not interact except by leaving state behind; 3 are a change, a lost or late
  POST, and a change back. Under liveness the budget is the assumption that the
  outside world comes to rest, which convergence presupposes.
* `MaxReadings = 2` gives three readings: an old one on its way, a newer shown, and
  a newest. `MaxLate = 2` lets two late requests for one input meet.
* Settings: in `CheckLoxoneValues` settings meet in one place only, the common
  POST, so two are enough for one to be sent along with, or without, another; this is
  `settings_safety`. `settings_liveness` has one setting, so that two requests at once
  stay within reach: an older reading is POSTed after a newer one, in time or late. The
  setting refuses one of its outputs, as `filter_exchange_state` does.
* The pool: the ring of 2 slots is wound back, full and overtaken by 4 connections
  (one in the master's hand, one in a worker's); 3 workers are one asleep, one
  woken and one that takes the other's connection.
* Requests: the head ends before, at and behind the end of what was received
  first, a body is longer than the handler's buffer and than the connection's, a
  chunk is longer than what is buffered, every flaw leads to its own answer, and
  the next request finds what the last one left in the structure. The server is
  stopped and started any number of times.
* Log files: one line of each thread and four of `main`, that is two cleanups, with
  a limit of one day: a file is fresh at the first and old at the second.
* `Width = 65536` instead of 2^32: the smallest `int` C allows overflows earlier and
  more often, which six characters reach several times; the theorem is for every
  multiple of 65536. The numbers are the edges of each kind's range and beyond.

Symmetry is used in `settings_safety` only. Deadlock is checked in every run but
`logs`, where lines and days are bounded and a process whose logger hangs really
stops.

Every property of every passing run has a mutant in `PROJECT.json`: a definition
of the model replaced by a faulty variant under which TLC finds the property
violated. Examples: the server torn down without joining its workers
(`NewCycleQuiescent`), stop checks missing before the transfers
(`StopBoundsWork`), a cache that is only filled once (`Converges`), a worker
signalled only when the queue was empty (`NoLostWakeup`), the ring's tail wound
back without its head (`QueueRefinement`), an age limit off by one
(`FreshLinesStay`).

## 10. Fairness

Weak fairness of each thread, because each can always finish what it is in:
libcurl's transfers have a connection timeout of 10 and a total timeout of 20
seconds (`PiceaAPI.cpp:731-732`, `LoxoneAPI.cpp:729-730`), sleeps are finite or cut
short by the stop flag, civetweb ends every wait for a client at
`request_timeout` (30 seconds), and the operating system schedules every thread.
Nothing says that requests arrive, that clients send, or that a signal comes
unasked: `Connect`, `Send`, spurious wakeups, the start and the stop of a server
are not fair. In `SettingsSync` alone requests keep arriving, because Loxone
triggers `/set` again and without a trigger nothing is ever sent; that is an
assumption of `Converges`. `TerminateHandler` and the container's restart policy are
fair. The clock is not: no property relies on midnight coming. Nor is any
outcome: a transfer may fail for ever in `ServiceCycle`. In the two data modules
outcomes that spoil a transfer draw on the disturbance budget.

One thing may stop all of a process for good: a log line that throws where nobody
catches it. `MayHang` in `ServiceCycle` takes the fairness of the threads away in
such states, and the liveness properties except them; `LogFiles` shows that nothing
else has this effect.

## 11. Proofs

All theorems are for every value of the constants that the named assumptions of
the modules allow: any finite set of workers and inputs, any number of settings,
readings, disturbances, connections, log lines and days, any ring and buffer size,
any set of requests, any choice of faults.

| Theorem | Property | Extra assumption |
|---|---|---|
| `ServiceCycle_proofs!TypeCorrect` | `TypeOK` | |
| `CallbackIsSafe` | `CallbackNeverDangles` | |
| `CurlIsAlive` | `CurlAlive` | |
| `CyclesAreQuiescent` | `NewCycleQuiescent` | |
| `ConnectionsAreFresh` | `NoStaleConnection` | |
| `StopIsHonoured` | `StopHonoured` | `EarlyMidnight = FALSE` |
| `StopEndsSoon` | `StopBoundsWork` | `EarlyMidnight = FALSE` |
| `RestartIsBounded` | none | `EarlyMidnight = FALSE` |
| `Implements` | `SessionRefinement` | |
| `UsesServerAsPromised` | `HttpServerRefinement` | |
| `SettingsSync_proofs!TypeCorrect` | `TypeOK` | |
| `NoRequestAborts` | `NoBadAccess` | `NullAnswers = FALSE` |
| `SettledIsStable` | `SettledStays` | |
| `ValuePush_proofs!TypeCorrect` | `TypeOK` | |
| `TasksAreJoined` | `NoTaskOutlivesPush` | |
| `PushesAreComplete` | `PushComplete` | |
| `Mirrors` | `MirrorRefinement` | |
| `WorkerPool_proofs!TypeCorrect` | `TypeOK` | |
| `NoWakeupIsLost` | `NoLostWakeup` | |
| `PoolGrowsInTime` | `PoolGrows` | |
| `ThreadsAreJoined` | `NoThreadOutlivesContext` | |
| `OneHand` | `OneKeeper` | |
| `ServesAsPromised` | `HttpServerRefinement` | |
| `RingIsQueue` | `QueueRefinement` | |
| `StopIsBounded` | none | |
| `StopIsNeverStuck` | none | |
| `HttpConnection_proofs!TypeCorrect` | `TypeOK` | |
| `BodyInOrder` | `TakenInOrder` | |
| `BodyIsTakenWhole` | `BodyTakenWhole` | |
| `AllIsRead` | `NothingLeftUnread` | |
| `WorkIsBounded` | none | |
| `LogFiles_proofs!NoLineIsTorn` | `LinesWhole` | |
| `FreshLinesAreKept` | `FreshLinesStay` | |
| `Base64_proofs!AlwaysEncodesText` | `EncodesText` | |
| `Conversions_proofs!ComesBack` | `RoundTrip` | |
| `AlwaysRestartsDaily` | `RestartsDaily` | |

*ServiceCycle.* None of the safety properties is inductive. `curlRefs \in Nat` is
not, because a decrement needs to know that it is not the last; `CurlInv` says
what the count is: one per worker that holds an API object, plus one while
`main`'s scope is open. That in turn needs to know where `main` can be while a
worker runs (`HttpInv`) or the poller runs (`PollerInv`), and the callback is
live because `PollerInv` keeps the poller inside that scope (`CallbackInv`). Their
conjunction `IInv` is inductive. `ConnectionInv`, `StopInv` and `WorkInv` are built
on it: the flag is down until the poller of the cycle has begun; a poller that
has begun before the stop never writes the stop flag again; the transfers already
ended plus those still possible (`Left`) are at most two. The refinements are
proved step by step: each action is an `Open`, `Begin`, `End`, `Close`, `Closed`,
`Crash` or `Restart` of the session, or a stutter, and likewise for `HttpServer`.
`RestartIsBounded` counts the steps that a restart can still take: under a stop
request every loop of the poller leads out (`PollerLeft`, at most nine steps), and from
`mg_stop` on a worker only finishes the request it has (`WorkersLeft`, at most four), so
that every step of `main`, the poller or a worker lowers `JoinRank` and none raises it.

*SettingsSync.* `TypeCorrect` needs only that an idle worker holds no change.
`NoRequestAborts` adds `FullInv`: what is about to be copied is not empty, so a
member seen non-empty stays so. `SettledIsStable` looks at every step from a
settled state: a POST carries, member by member, what the appliance has already.

*ValuePush.* A task carries the reading of the running poll, none is left when a
poll begins (`JoinInv`), and that reading is no older than what Loxone shows but
for what a straggler has set: together the tasks of successive polls cannot
overtake one another, and each is a step of the mirror.

*WorkerPool.* The counter of idle workers is not the number of idle workers: a
thread about to be created is counted already, and one that gave up still is.
`Counting` says how far the two may be apart, and that the connections in the
queue are no more than the workers woken for them while anybody sleeps; `Phases`
says which threads there can be at each moment of `mg_start` and `mg_stop`. From
their conjunction follow the wakeups, the growth of the pool and the joins; a
second invariant says where each connection is, and from it the ring is a queue:
winding back both indices leaves the sequence between them as it is. Two more
theorems are about `mg_stop`. `StopIsBounded`: every step of a thread of the server lowers
`StopRank`, the steps it, the master and the workers have left, and neither a client nor a
spurious wakeup raises it. `StopIsNeverStuck`: while `mg_stop` waits, some thread
has a step to take, because nobody is asleep when the master begins to join (`SInv`);
the conditions of the steps are written out, as ENABLED cannot be proved about. A
master that waits for room in the queue is excepted, as in `StopCompletes`: a stop does
not wake it (section 12).

*HttpConnection.* `InSync` is the heart of it: the socket has been read exactly as
far as the buffer or the copies go, so that copying from the buffer and reading
the socket meet. `MgReadInv` and `ReadInv` carry it through the loops of
`mg_read` for every purpose of a read (data, CRLF, size line, trailer). That nothing
foreign is taken does not say that nothing is missed, and neither of the two properties
that do is inductive. A second invariant, `WholeInv`, is built on the first: a
connection that was not cut can still bring all of its message (`OpenInv`), so that a
read that stops short has come to the message's end; what was copied and what is
still wanted are together what was asked for (`AskedInv`); and the read under
way is the one the chunks call for (`FrameInv`), so that no well-formed chunk is taken
for a broken one. The handler's units then list the body's data up to where it has
read (`Enough`), and a bijection counts them. Of the messages it is assumed that those
without a flaw are made of chunks (`Chunks`, part of `RequestsAssumption`), as
RFC 2616 has it and `mg_read` expects; of any other message these two say nothing.
`WorkIsBounded` says that no peer can keep a worker in the loops of `mg_read` for ever:
every unit is received, copied and returned once, so that every step of the worker lowers
`Rank`, and only a new connection raises it again.

*LogFiles.* `Holding` and `Ends` say that the text without an end at the end of a
file is the one its writer, the owner of the mutex, is about to end. `Ages` says that
no line is younger than its file, `AppIsFresh` that `App.log` is of today from
`main`'s line before the cleanup to its end, and `VictimIsOld` that what the file about
to be removed holds is old or came to it since the look.

*Base64.* The invariant says which bits of the accumulator are still to be written
and that they are the last of the text's bits, however often it has overflown:
`Width` is a multiple of 65536 and at most twelve bits are ever looked at.

*SettingValues, RestartTime.* What was said is understood as what was wanted, but for a battery
without a name (`ObeyedIsAgreed`); the times of day are arithmetic (`TimeOfDay`). A restart is ahead by
whole days as the clock with the `tm_isdst` of the beginning counts them
(`RestartInv`), and two values of `tm_isdst` differ by an hour at most.

Only model-checked: liveness (`RestartCompletes`, `PollerEndRestarts`, `Converges`,
`Catches`, `Served`, `StopCompletes`, `Released`, `FatalEndsProcess`), which is
outside the prover's reach, and the violations. Of three of them a part that is
safety is proved: `RestartIsBounded`, `StopIsBounded` and `WorkIsBounded` bound the
steps that may come before what `RestartCompletes` (from `mg_stop` on), `StopCompletes` and
`Released` promise. That those steps are taken is the part that needs fairness and ENABLED,
and stays with TLC. The measures have no run of their own; TLC evaluated them on the
instances of section 9 before they were proved. Every safety property of a passing run is
a theorem. All the invariants of the proofs were also checked by TLC on
small instances before they were proved.

## 12. Disagreements and observations

The first four are runs that end in a violation.

* `cycle_lost_stop`. `StartLoop` begins by clearing `g_stopRequested`
  (`PiceaAPI.cpp:28`). If `main` has already set it, the stop is lost, and `main` waits
  for a poller that runs on. It takes a midnight within the time the new thread
  needs to start: rare, but final, for the process neither works nor ends.
* `cycle_hung_failure`. An exception in a cycle is meant to end the process
  (`Program.cpp:249`), and the container to restart (`README.md:101`); but it unwinds
  through the future's destructor, which waits for the poller, and nobody has
  asked that to stop.
* `settings_lost_update`. `LoxoneAPI.h:31` says the data are sent when they differ;
  they are compared with the last poll, so an output that is set and set back
  within one poll interval is passed over, while the appliance keeps the first
  value until the next request. `Converges` shows that the disagreement ends.
* `settings_error_body`. `PiceaAPI.h:196` says the callback follows a successful
  fetch; an HTTP error with a JSON body is taken for one, and empties `PSD`.

What the models make visible besides, without a promise that it would break:

* `FatalEndsProcess` and `StopCompletes` hold with exceptions. An exception of the
  logger that nobody catches leaves the process hanging, neither working nor
  restarted. A master that waits for room in a full ring is not woken by `mg_stop`
  (`civetweb.c:20170`, while the comment at 20270 relies on the master): if no worker
  could be created, `mg_stop` waits for ever.
* `mg_start` ignores that its master thread could not be created
  (`civetweb.c:21869`): nothing is served, and the port stays bound.
* Sockets that are queued, or taken out of the queue, when the stop flag goes up
  are never closed (`civetweb.c:20128-20149`).
* `RoundTrip`: a number of `ext_battery_setup` without a name is sent as `"none"` at
  every request.
* A body that is cut short is handed to the handler, which acts on what it has. A
  POST that meets a stop may be answered with 400 for the same reason.
* `FreshLinesStay`: a change record is lost when it is written to an old
  `loxone_changes.log` between the look at its age and its removal.
* `RestartsDaily`: in autumn the services restart at 23:00 and again at midnight.
* Read in passing: the 403 answer declares 15 bytes for a body of 22
  (`LoxoneAPI.cpp:804`); the 413 branch of `get_message` (`civetweb.c:19057`) is not
  reached, as `read_message` returns -2, not 0, for a head that fills the buffer;
  `is_grid_connected_system` is sent twice (`LoxoneAPI.cpp:222-225`), by two tasks with
  the same value, which `ValuePush` counts as one.

## 13. Not modelled

* `Config::LoadConfig`: a sequential parse of one file, read before any other thread
  exists and never again. Its outcome is in `ServiceCycle`, its results are constants.
* civetweb apart from section 6. This program registers one handler, for the prefix
  `/set`, sets no document root and no option but the port, so that files,
  directories, CGI, WebDAV, WebSocket, Lua, SSI, authentication, HTTP/2, SSL and the
  HTTP client are not reached or not compiled. Keep-alive is off. Examples and
  unit tests are not part of the program. This is most of the repository's lines.
* Messages that begin with empty lines; the sending of an answer, which changes no
  state; parsing within a line of the head.
* Memory effects of the unsynchronised copy of `PSD`: a member is old or new. For
  strings (the night times) the race is undefined behaviour which neither TLC nor
  this model resolves any further.
* Malformed numbers in answers (`atoi`, `atof`, `istringstream`).
* Log texts, HTTP headers, the statistics of `StartLoop`.
* The build files, the prebuilt binaries and the inside of libcurl and jsoncpp: a
  transfer ends within its timeout, a parse succeeds, fails or throws.

## 14. Plan

Done, in this order: `ServiceCycle` with `ServiceSession`; the two directions of the
data; the threads of the HTTP server and the interface `HttpServer` at which they
meet the service cycle; the reading of requests; the log files; the conversions and
the restart time; the proofs of the safety properties of each.

What is left: a composition of `ServiceCycle` with `ValuePush` at an abstract poller, as
`HttpServer` is one for the server, so that the last of the assumptions in section
2 becomes a refinement instead of prose.
