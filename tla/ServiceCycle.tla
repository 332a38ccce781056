---------------------------- MODULE ServiceCycle ----------------------------
(***************************************************************************)
(* The life of the process: main() of Program.cpp opens a service cycle,   *)
(* runs the Picea polling thread (PiceaAPI::StartLoop under std::async)    *)
(* and the embedded HTTP server (civetweb workers calling                  *)
(* request_handler), and at midnight, or when the poller ends, stops both, *)
(* joins them and starts over.                                             *)
(*                                                                         *)
(* Every thread has a program counter; a step is the code between two      *)
(* accesses to state another thread can see.  What the transfers carry is  *)
(* left to other modules: here a transfer only ends, fails or throws.      *)
(***************************************************************************)
EXTENDS Integers, FiniteSets

CONSTANTS
    Workers,          \* the worker threads of the HTTP server
    Picea,            \* the name of the polling thread among the activities
    Faults,           \* what may go wrong: see FaultKinds
    EarlyMidnight,    \* may midnight strike before the poller has run at all?
    MaxTransfers      \* where the history counter of transfers saturates

(* "config": the configuration cannot be loaded; "log": a log line cannot  *)
(* be written, so Logger throws; "data": an answer of the appliance or a   *)
(* lack of threads makes the poller or a request throw; "bind": the HTTP   *)
(* port cannot be bound; "kill": the process is killed from outside.       *)
FaultKinds == {"config", "log", "data", "bind", "kill"}

ASSUME WorkersAssumption == IsFiniteSet(Workers)
ASSUME PiceaAssumption == Picea \notin Workers
ASSUME FaultsAssumption == Faults \subseteq FaultKinds
ASSUME EarlyMidnightAssumption == EarlyMidnight \in BOOLEAN
ASSUME MaxTransfersAssumption == MaxTransfers \in Nat

VARIABLES
    mainPc,           \* where main() is
    pollPc,           \* where the polling thread is
    workerPc,         \* where each HTTP worker is
    terminating,      \* workers whose exception escaped: std::terminate runs
    g_stopRequested, isConnected, isFatalError,
    callback,         \* PiceaAPI::OnDataFetched: "none", "live" or "dangling"
    curlRefs,         \* libcurl's count of curl_global_init calls
    http,             \* civetweb: "none", "running" or "stopping"
    midnight,         \* the scheduled restart time has been reached
    transfersAfterStop  \* history: poller transfers ended since RequestStop

flags   == <<g_stopRequested, isConnected, isFatalError>>
threads == <<mainPc, pollPc, workerPc, terminating>>
vars    == <<mainPc, pollPc, workerPc, terminating, g_stopRequested, isConnected,
             isFatalError, callback, curlRefs, http, midnight, transfersAfterStop>>

-----------------------------------------------------------------------------

MainPcs == {"load", "reset", "startHttp", "backoff", "launch", "schedule", "await",
            "announce", "stop", "disconnect", "stopHttp", "drain", "join", "rest",
            "unwindFuture", "unwindApi", "exited"}

PollPcs == {"none", "start", "outer", "tryCheck", "connect", "tryReturn", "inner",
            "fetchCheck", "getData", "configCheck", "getConfig", "push", "nap",
            "retry", "exit", "done"}

WorkerPcs == {"idle", "request", "check", "post", "reply"}

(* The poller's blocking calls into libcurl. *)
Transfers == {"connect", "getData", "getConfig", "push"}

(* The poller's thread is running. *)
PollerAlive == pollPc \notin {"none", "done"}

(* The workers that own a LoxoneAPI object of their own. *)
ApiHolders == {w \in Workers : workerPc[w] \in {"check", "post"}}

(* The scope of main()'s loop body: its LoxoneAPI object is alive. *)
InScope == mainPc \notin {"load", "reset", "exited"}

(* main() has called RequestStop and not yet seen the poller end. *)
StopPhase == mainPc \in {"disconnect", "stopHttp", "drain", "join"}

TypeOK ==
    /\ mainPc \in MainPcs
    /\ pollPc \in PollPcs
    /\ workerPc \in [Workers -> WorkerPcs]
    /\ terminating \subseteq Workers
    /\ g_stopRequested \in BOOLEAN
    /\ isConnected \in BOOLEAN
    /\ isFatalError \in BOOLEAN
    /\ callback \in {"none", "live", "dangling"}
    /\ curlRefs \in Nat
    /\ http \in {"none", "running", "stopping"}
    /\ midnight \in BOOLEAN
    /\ transfersAfterStop \in 0..MaxTransfers

(* The statics of a process that has just been loaded. *)
Init ==
    /\ mainPc = "load"
    /\ pollPc = "none"
    /\ workerPc = [w \in Workers |-> "idle"]
    /\ terminating = {}
    /\ g_stopRequested = FALSE
    /\ isConnected = FALSE
    /\ isFatalError = FALSE
    /\ callback = "none"
    /\ curlRefs = 0
    /\ http = "none"
    /\ midnight = FALSE
    /\ transfersAfterStop = 0

-----------------------------------------------------------------------------
(* The process as a whole. *)

(* The process is gone, and with it every thread and every static. *)
ProcessGone ==
    /\ mainPc' = "exited"
    /\ pollPc' = "none"
    /\ workerPc' = [w \in Workers |-> "idle"]
    /\ terminating' = {}
    /\ g_stopRequested' = FALSE
    /\ isConnected' = FALSE
    /\ isFatalError' = FALSE
    /\ callback' = "none"
    /\ curlRefs' = 0
    /\ http' = "none"
    /\ midnight' = FALSE
    /\ transfersAfterStop' = 0

(* TerminateHandler: five seconds after an exception escaped from a request *)
(* the process aborts; every other thread runs on until then.               *)
TerminateHandler ==
    /\ terminating # {}
    /\ ProcessGone

(* The container engine or the kernel ends the process at any moment. *)
ProcessKilled ==
    /\ "kill" \in Faults
    /\ mainPc # "exited"
    /\ ProcessGone

(* compose.yaml, restart: unless-stopped. *)
ContainerRestart ==
    /\ mainPc = "exited"
    /\ mainPc' = "load"
    /\ UNCHANGED <<pollPc, workerPc, terminating, flags, callback, curlRefs, http,
                   midnight, transfersAfterStop>>

-----------------------------------------------------------------------------
(* main() *)

MainGoes(from, to) ==
    /\ mainPc = from
    /\ mainPc' = to
    /\ UNCHANGED <<workerPc, terminating, isFatalError>>

LoadConfig ==
    /\ MainGoes("load", "reset")
    /\ UNCHANGED <<pollPc, flags, callback, curlRefs, http, midnight, transfersAfterStop>>

LoadConfigFails ==
    /\ "config" \in Faults
    /\ mainPc = "load"
    /\ ProcessGone

(* Mutant: the connection flag is not reset between two cycles. *)
ResetKeepsConnection ==
    /\ g_stopRequested' = FALSE
    /\ isFatalError' = FALSE
    /\ UNCHANGED isConnected

(* ResetRuntimeState, the constructor of LoxoneAPI and SubscribeToPiceaAPI; *)
(* no other thread exists between them.                                     *)
ResetRuntimeState ==
    /\ g_stopRequested' = FALSE
    /\ isConnected' = FALSE
    /\ isFatalError' = FALSE

(* Mutant: the subscription of the first process start is thought to last.  *)
SubscribeMissing == UNCHANGED callback

SubscribeToPiceaAPI == callback' = "live"

Reset ==
    /\ mainPc = "reset"
    /\ mainPc' = "startHttp"
    /\ ResetRuntimeState
    /\ curlRefs' = curlRefs + 1
    /\ SubscribeToPiceaAPI
    /\ UNCHANGED <<pollPc, workerPc, terminating, http, midnight, transfersAfterStop>>

StartHttpServer ==
    /\ MainGoes("startHttp", "launch")
    /\ http' = "running"
    /\ UNCHANGED <<pollPc, flags, callback, curlRefs, midnight, transfersAfterStop>>

StartHttpServerFails ==
    /\ "bind" \in Faults
    /\ MainGoes("startHttp", "backoff")
    /\ UNCHANGED <<pollPc, flags, callback, curlRefs, http, midnight, transfersAfterStop>>

(* Mutant: the destructor and its caller both release libcurl. *)
DestroyApiTwice ==
    /\ callback' = "dangling"
    /\ curlRefs' = curlRefs - 2

(* ~LoxoneAPI on an object whose server is not running: what the callback   *)
(* captured no longer exists.                                               *)
DestroyApi ==
    /\ callback' = "dangling"
    /\ curlRefs' = curlRefs - 1

Backoff ==
    /\ MainGoes("backoff", "reset")
    /\ DestroyApi
    /\ UNCHANGED <<pollPc, flags, http, midnight, transfersAfterStop>>

(* std::async(std::launch::async, StartLoop) *)
Launch ==
    /\ MainGoes("launch", "schedule")
    /\ pollPc' = "start"
    /\ transfersAfterStop' = 0
    /\ UNCHANGED <<flags, callback, curlRefs, http, midnight>>

Schedule ==
    /\ MainGoes("schedule", "await")
    /\ midnight' = FALSE
    /\ UNCHANGED <<pollPc, flags, callback, curlRefs, http, transfersAfterStop>>

(* The wall clock passes the scheduled restart time. *)
MidnightStrikes ==
    /\ mainPc = "await"
    /\ ~midnight
    /\ EarlyMidnight \/ pollPc # "start"
    /\ midnight' = TRUE
    /\ UNCHANGED <<threads, flags, callback, curlRefs, http, transfersAfterStop>>

(* Mutant: only the clock is watched, not the future. *)
WaitForMidnightOnly ==
    /\ MainGoes("await", "announce")
    /\ midnight
    /\ UNCHANGED <<pollPc, flags, callback, curlRefs, http, midnight, transfersAfterStop>>

(* The wait ends at midnight, or within a second of the poller's end. *)
WaitUntilRestartWindow ==
    /\ MainGoes("await", "announce")
    /\ midnight \/ pollPc = "done"
    /\ UNCHANGED <<pollPc, flags, callback, curlRefs, http, midnight, transfersAfterStop>>

Announce ==
    /\ MainGoes("announce", "stop")
    /\ UNCHANGED <<pollPc, flags, callback, curlRefs, http, midnight, transfersAfterStop>>

(* RequestStop is two stores, and the poller and the workers run in between. *)
RequestStop ==
    /\ MainGoes("stop", "disconnect")
    /\ g_stopRequested' = TRUE
    /\ UNCHANGED <<pollPc, isConnected, callback, curlRefs, http, midnight, transfersAfterStop>>

RequestStopDisconnects ==
    /\ MainGoes("disconnect", "stopHttp")
    /\ isConnected' = FALSE
    /\ UNCHANGED <<pollPc, g_stopRequested, callback, curlRefs, http, midnight, transfersAfterStop>>

(* mg_stop raises the stop flag, then waits for every worker thread. *)
StopHttpServer ==
    /\ MainGoes("stopHttp", "drain")
    /\ http' = "stopping"
    /\ UNCHANGED <<pollPc, flags, callback, curlRefs, midnight, transfersAfterStop>>

WorkersJoined == \A w \in Workers : workerPc[w] = "idle"

(* Mutant: the server is torn down without joining its workers. *)
DrainedUnjoined ==
    /\ MainGoes("drain", "join")
    /\ http' = "none"
    /\ UNCHANGED <<pollPc, flags, callback, curlRefs, midnight, transfersAfterStop>>

Drained ==
    /\ MainGoes("drain", "join")
    /\ WorkersJoined
    /\ http' = "none"
    /\ UNCHANGED <<pollPc, flags, callback, curlRefs, midnight, transfersAfterStop>>

(* piceaFuture.wait() *)
JoinPoller ==
    /\ MainGoes("join", "rest")
    /\ pollPc = "done"
    /\ UNCHANGED <<pollPc, flags, callback, curlRefs, http, midnight, transfersAfterStop>>

(* Two seconds later the scope of the cycle ends: ~future, then ~LoxoneAPI. *)
Rest ==
    /\ MainGoes("rest", "reset")
    /\ pollPc = "done"
    /\ pollPc' = "none"
    /\ DestroyApi
    /\ UNCHANGED <<flags, http, midnight, transfersAfterStop>>

(* A log line of main() throws.  The scope is unwound: first ~future, which *)
(* waits for the poller although nobody asked it to stop, then ~LoxoneAPI;  *)
(* then main() returns 1.                                                   *)
FutureAlive == {"schedule", "announce", "stopHttp", "join", "rest"}
ApiAlive    == {"startHttp", "backoff", "launch"}

MainThrows ==
    /\ "log" \in Faults
    /\ \/ mainPc \in FutureAlive /\ mainPc' = "unwindFuture"
       \/ mainPc \in ApiAlive /\ mainPc' = "unwindApi"
    /\ UNCHANGED <<pollPc, workerPc, terminating, flags, callback, curlRefs, http,
                   midnight, transfersAfterStop>>

(* Before the scope is entered, or in a destructor, a throw ends the process. *)
MainThrowsAndEnds ==
    /\ "log" \in Faults
    /\ mainPc \in {"load", "reset", "unwindApi"}
    /\ ProcessGone

UnwindFuture ==
    /\ MainGoes("unwindFuture", "unwindApi")
    /\ pollPc = "done"
    /\ UNCHANGED <<pollPc, flags, callback, curlRefs, http, midnight, transfersAfterStop>>

UnwindStopsHttp ==
    /\ MainGoes("unwindApi", "unwindApi")
    /\ http = "running"
    /\ http' = "stopping"
    /\ UNCHANGED <<pollPc, flags, callback, curlRefs, midnight, transfersAfterStop>>

UnwindApi ==
    /\ mainPc = "unwindApi"
    /\ http # "running"
    /\ WorkersJoined
    /\ ProcessGone

Main ==
    \/ LoadConfig \/ LoadConfigFails \/ Reset
    \/ StartHttpServer \/ StartHttpServerFails \/ Backoff
    \/ Launch \/ Schedule \/ WaitUntilRestartWindow \/ Announce
    \/ RequestStop \/ RequestStopDisconnects
    \/ StopHttpServer \/ Drained \/ JoinPoller \/ Rest
    \/ UnwindFuture \/ UnwindStopsHttp \/ UnwindApi

-----------------------------------------------------------------------------
(* PiceaAPI::StartLoop, on its own thread *)

PollerGoes(from, to) ==
    /\ pollPc = from
    /\ pollPc' = to
    /\ UNCHANGED <<mainPc, workerPc, terminating, isFatalError, callback, curlRefs,
                   http, midnight>>

(* Mutant: the loops look at the fatal-error flag only. *)
KeepRunningUnlessFatal == ~isFatalError

KeepRunning == ~isFatalError /\ ~g_stopRequested

(* The history counter: it saturates at MaxTransfers. *)
CountTransfer ==
    transfersAfterStop' = IF StopPhase /\ transfersAfterStop < MaxTransfers
                          THEN transfersAfterStop + 1 ELSE transfersAfterStop

(* The two stores at the head of StartLoop.  Nobody else writes isConnected *)
(* between ResetRuntimeState and here, so they are one step.                *)
StartLoop ==
    /\ PollerGoes("start", "outer")
    /\ g_stopRequested' = FALSE
    /\ isConnected' = FALSE
    /\ UNCHANGED transfersAfterStop

OuterLoop ==
    /\ \/ KeepRunning /\ PollerGoes("outer", "tryCheck")
       \/ ~KeepRunning /\ PollerGoes("outer", "exit")
    /\ UNCHANGED <<g_stopRequested, isConnected, transfersAfterStop>>

(* TryToConnect: the stop check, or curl cannot be set up. *)
TryToConnectGivesUp ==
    /\ PollerGoes("tryCheck", "retry")
    /\ g_stopRequested \/ "data" \in Faults
    /\ UNCHANGED <<g_stopRequested, isConnected, transfersAfterStop>>

TryToConnect ==
    /\ PollerGoes("tryCheck", "connect")
    /\ ~g_stopRequested
    /\ UNCHANGED <<g_stopRequested, isConnected, transfersAfterStop>>

(* HTTP status 200 or not: what curl_easy_perform found is stored blindly,  *)
(* whatever RequestStop has stored while the transfer ran.                  *)
Connected ==
    /\ PollerGoes("connect", "tryReturn")
    /\ isConnected' \in BOOLEAN
    /\ CountTransfer
    /\ UNCHANGED g_stopRequested

(* "return isConnected.load()" reads the flag again. *)
TryToConnectReturns ==
    /\ \/ isConnected /\ PollerGoes("tryReturn", "inner")
       \/ ~isConnected /\ PollerGoes("tryReturn", "retry")
    /\ UNCHANGED <<g_stopRequested, isConnected, transfersAfterStop>>

InnerLoop ==
    /\ \/ isConnected /\ KeepRunning /\ PollerGoes("inner", "fetchCheck")
       \/ ~(isConnected /\ KeepRunning) /\ PollerGoes("inner", "retry")
    /\ UNCHANGED <<g_stopRequested, isConnected, transfersAfterStop>>

(* Mutant: FetchData and FetchFromApi trust the check of the loop. *)
UncheckedTransfer(check, transfer) ==
    /\ PollerGoes(check, transfer)
    /\ UNCHANGED <<g_stopRequested, isConnected, transfersAfterStop>>

(* The stop checks of FetchData and of its two calls of FetchFromApi. *)
CheckedTransfer(check, transfer) ==
    /\ \/ ~g_stopRequested /\ PollerGoes(check, transfer)
       \/ g_stopRequested /\ PollerGoes(check, "nap")
    /\ UNCHANGED <<g_stopRequested, isConnected, transfersAfterStop>>

FetchData == CheckedTransfer("fetchCheck", "getData")
FetchConfig == CheckedTransfer("configCheck", "getConfig")

(* A failed transfer leaves isConnected alone; an answer that is no JSON    *)
(* clears it; any answer that parses counts, whatever its HTTP status.      *)
TransferFails(from) ==
    /\ PollerGoes(from, "nap")
    /\ isConnected' \in {isConnected, FALSE}
    /\ CountTransfer
    /\ UNCHANGED g_stopRequested

DataArrives ==
    /\ PollerGoes("getData", "configCheck")
    /\ CountTransfer
    /\ UNCHANGED <<g_stopRequested, isConnected>>

(* if (OnDataFetched) OnDataFetched(pd, psd), with no look at the stop flag. *)
ConfigArrives ==
    /\ \/ callback # "none" /\ PollerGoes("getConfig", "push")
       \/ callback = "none" /\ PollerGoes("getConfig", "nap")
    /\ CountTransfer
    /\ UNCHANGED <<g_stopRequested, isConnected>>

HandleFetchedDataReturns ==
    /\ PollerGoes("push", "nap")
    /\ CountTransfer
    /\ UNCHANGED <<g_stopRequested, isConnected>>

(* The poll interval and the five seconds before a retry, cut short by stop. *)
Nap ==
    /\ PollerGoes("nap", "inner")
    /\ UNCHANGED <<g_stopRequested, isConnected, transfersAfterStop>>

(* Mutant: the initial stores of StartLoop are repeated before a new attempt. *)
RetryRearms ==
    /\ PollerGoes("retry", "outer")
    /\ g_stopRequested' = FALSE
    /\ UNCHANGED <<isConnected, transfersAfterStop>>

Retry ==
    /\ PollerGoes("retry", "outer")
    /\ UNCHANGED <<g_stopRequested, isConnected, transfersAfterStop>>

StartLoopReturns ==
    /\ PollerGoes("exit", "done")
    /\ isConnected' = FALSE
    /\ UNCHANGED <<g_stopRequested, transfersAfterStop>>

(* An exception leaves StartLoop and is kept in the shared state of the     *)
(* future: jsoncpp on a value of the wrong type, no thread for a push, a    *)
(* log line that cannot be written.  isConnected stays as it is.            *)
LoopThrows ==
    /\ \/ /\ "data" \in Faults
          /\ pollPc \in {"getData", "getConfig", "push"}
          /\ UNCHANGED isConnected
       \/ /\ "log" \in Faults
          /\ pollPc \in {"start", "tryCheck", "getData", "getConfig", "push", "nap", "retry", "exit"}
          /\ isConnected' = IF pollPc \in {"start", "exit"} THEN FALSE ELSE isConnected
       \/ /\ "log" \in Faults
          /\ pollPc = "connect"
          /\ isConnected' \in {isConnected, TRUE}
    /\ g_stopRequested' = IF pollPc = "start" THEN FALSE ELSE g_stopRequested
    /\ pollPc' = "done"
    /\ UNCHANGED <<mainPc, workerPc, terminating, isFatalError, callback, curlRefs,
                   http, midnight, transfersAfterStop>>

Poller ==
    \/ StartLoop \/ OuterLoop \/ TryToConnectGivesUp \/ TryToConnect \/ Connected
    \/ TryToConnectReturns \/ InnerLoop \/ FetchData \/ FetchConfig
    \/ TransferFails("getData") \/ TransferFails("getConfig")
    \/ DataArrives \/ ConfigArrives \/ HandleFetchedDataReturns
    \/ Nap \/ Retry \/ StartLoopReturns \/ LoopThrows

-----------------------------------------------------------------------------
(* civetweb's workers and request_handler *)

WorkerGoes(w, from, to) ==
    /\ workerPc[w] = from
    /\ w \notin terminating
    /\ workerPc' = [workerPc EXCEPT ![w] = to]
    /\ UNCHANGED <<mainPc, pollPc, terminating, flags, callback, http, midnight,
                   transfersAfterStop>>

(* Mutant: a worker also takes what is in the queue when the stop comes. *)
AcceptStopping(w) ==
    /\ http # "none"
    /\ WorkerGoes(w, "idle", "request")
    /\ UNCHANGED curlRefs

(* A worker takes a connection off the queue: only before mg_stop. *)
Accept(w) ==
    /\ http = "running"
    /\ WorkerGoes(w, "idle", "request")
    /\ UNCHANGED curlRefs

(* The peer goes away or says nothing until the timeout: no handler runs. *)
RequestDropped(w) ==
    /\ WorkerGoes(w, "request", "idle")
    /\ UNCHANGED curlRefs

(* 403, 400, 404, or 200 for a /set whose value is not 1. *)
RequestRejected(w) ==
    /\ WorkerGoes(w, "request", "reply")
    /\ UNCHANGED curlRefs

(* Mutant: the handler relies on the libcurl initialisation of main(). *)
request_handler_uninitialised(w) ==
    /\ WorkerGoes(w, "request", "check")
    /\ UNCHANGED curlRefs

(* /set?value=1: a LoxoneAPI object on the worker's stack, whose            *)
(* constructor calls curl_global_init.                                      *)
request_handler(w) ==
    /\ WorkerGoes(w, "request", "check")
    /\ curlRefs' = curlRefs + 1

(* CheckLoxoneValues found a change, and UpdateConfigSettings sees a         *)
(* connection.                                                               *)
UpdateConfigSettings(w) ==
    /\ WorkerGoes(w, "check", "post")
    /\ isConnected
    /\ UNCHANGED curlRefs

(* The object goes out of scope before the answer is written: nothing had   *)
(* changed, there is no connection, or the POST is over.                    *)
CheckEnds(w) ==
    /\ \/ WorkerGoes(w, "check", "reply")
       \/ WorkerGoes(w, "post", "reply")
    /\ curlRefs' = curlRefs - 1

Reply(w) ==
    /\ WorkerGoes(w, "reply", "idle")
    /\ UNCHANGED curlRefs

(* No try in request_handler, and civetweb's thread is C: std::terminate.   *)
HandlerThrows(w) ==
    /\ \/ "log" \in Faults /\ workerPc[w] \in {"request", "check", "post"}
       \/ "data" \in Faults /\ workerPc[w] \in {"check"}
    /\ w \notin terminating
    /\ terminating' = terminating \cup {w}
    /\ UNCHANGED <<mainPc, pollPc, workerPc, flags, callback, curlRefs, http,
                   midnight, transfersAfterStop>>

Worker(w) ==
    \/ Accept(w) \/ RequestDropped(w) \/ RequestRejected(w)
    \/ request_handler(w) \/ UpdateConfigSettings(w) \/ CheckEnds(w)
    \/ Reply(w) \/ HandlerThrows(w)

-----------------------------------------------------------------------------

Process == TerminateHandler \/ ProcessKilled \/ ContainerRestart

Next ==
    \/ Main \/ MainThrows \/ MainThrowsAndEnds
    \/ MidnightStrikes
    \/ Poller
    \/ \E w \in Workers : Worker(w)
    \/ Process

Spec == Init /\ [][Next]_vars

(* When nobody catches what a log line throws (a line of request_handler,   *)
(* or of main()'s own catch) g_logMutex stays locked for ever, and whoever  *)
(* logs next stops there, TerminateHandler before all: LogFiles shows it.   *)
(* Such a process may still do anything here, but it need not do any more.  *)
MayHang == /\ "log" \in Faults
           /\ terminating # {} \/ mainPc \in {"load", "reset", "unwindApi"}

(* Every transfer has a 20-second curl timeout, every request a read        *)
(* timeout, every sleep an end: a thread that can move does.  Nothing is    *)
(* assumed about which outcome a step has, nor that midnight ever comes.    *)
Fairness ==
    /\ WF_vars(~MayHang /\ Main)
    /\ WF_vars(~MayHang /\ Poller)
    /\ \A w \in Workers : WF_vars(~MayHang /\ Worker(w) /\ workerPc[w] # "idle")
    /\ WF_vars(~MayHang /\ TerminateHandler)
    /\ WF_vars(ContainerRestart)

FairSpec == Spec /\ Fairness

-----------------------------------------------------------------------------
(* Safety *)

(* The poller never calls HandleFetchedData on a LoxoneAPI object that has  *)
(* been destroyed: the lambda captures `this` and outlives every cycle.     *)
CallbackNeverDangles == pollPc = "push" => callback = "live"

(* Whoever uses libcurl does so while somebody's curl_global_init is in     *)
(* force, though objects on the stacks of main() and of the request workers *)
(* come and go independently.                                               *)
CurlAlive == (pollPc \in Transfers \/ ApiHolders # {}) => curlRefs > 0

(* A cycle starts from nothing: no poller, no request, no server, no        *)
(* leftover of libcurl, whichever way the cycle before it ended.            *)
NewCycleQuiescent ==
    mainPc = "reset" => /\ pollPc = "none"
                        /\ \A w \in Workers : workerPc[w] = "idle"
                        /\ http = "none"
                        /\ curlRefs = 0

(* What a request worker takes for a connection to the appliance was        *)
(* established by the poller of the running cycle, never by an earlier one, *)
(* although an exception can leave the flag set when its poller is gone.    *)
NoStaleConnection ==
    (http # "none" /\ isConnected) => pollPc \notin {"none", "start"}

(* Once RequestStop has run the request stays up until the poller has been  *)
(* joined: nothing in the poller's own code takes it back.                  *)
StopHonoured == mainPc \in {"disconnect", "stopHttp", "drain", "join"} => g_stopRequested

(* After RequestStop the poller ends at most two of its blocking transfers  *)
(* (twenty seconds each): the one under way, and a push it leads to.        *)
StopBoundsWork == transfersAfterStop <= 2

(* Refinement: a cycle is a session. *)
SessionState ==
    IF mainPc = "exited" THEN "down"
    ELSE IF mainPc \in {"load", "reset"} THEN "closed"
    ELSE IF mainPc \in {"startHttp", "launch", "schedule", "await", "announce", "stop"} THEN "open"
    ELSE "closing"

BusyActivities == {w \in Workers : workerPc[w] # "idle"}
                      \cup (IF PollerAlive THEN {Picea} ELSE {})

Session == INSTANCE ServiceSession
              WITH Activities <- Workers \cup {Picea},
                   session <- SessionState,
                   busy <- BusyActivities

(* Every step of the threads is a step of the session or none at all: in    *)
(* particular main() only ends a cycle when poller and requests are over.   *)
SessionRefinement == Session!Spec

Server == INSTANCE HttpServer
             WITH Handlers <- Workers,
                  server <- http,
                  active <- {w \in Workers : workerPc[w] # "idle"}

(* Refinement: the use main() makes of its server is the one that civetweb's *)
(* threads are shown to allow in WorkerPool: no request is begun once the    *)
(* stop has been asked for, and the stop is not over while one is served.    *)
HttpServerRefinement == Server!Spec

-----------------------------------------------------------------------------
(* Liveness *)

(* A restart that main() has begun comes to an end: a fresh cycle, or a     *)
(* fresh process when something threw or was killed on the way, unless the  *)
(* logging itself hangs.                                                    *)
RestartCompletes == mainPc = "stop" ~> mainPc \in {"reset", "exited"} \/ MayHang

(* A poller that ended, by an exception say, is replaced without waiting    *)
(* for midnight.                                                            *)
PollerEndRestarts == pollPc = "done" ~> mainPc \in {"reset", "exited"} \/ MayHang

(* An exception of main() unwinds the scope of the cycle, so that main()    *)
(* can return and compose.yaml's restart policy start a new process.        *)
FailureEndsProcess == mainPc = "unwindFuture" ~> mainPc = "exited" \/ MayHang

=============================================================================
