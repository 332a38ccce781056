------------------------ MODULE ServiceCycle_proofs -------------------------
(***************************************************************************)
(* Proofs about ServiceCycle, for any number of workers and any faults.    *)
(*                                                                         *)
(* The safety properties talk about one thread at a time; what makes them  *)
(* true is where the other threads can be meanwhile.  The inductive        *)
(* invariant IInv says just that: which positions of main() allow a live   *)
(* callback, a running poller, a server and its requests, and that the     *)
(* libcurl count is one per live LoxoneAPI object.                         *)
(***************************************************************************)
EXTENDS ServiceCycle, FiniteSetTheorems, TLAPS

(* Positions of main() at which the poller's thread may exist, and at which *)
(* the server may.                                                          *)
PollerScope == {"schedule", "await", "announce", "stop", "disconnect", "stopHttp",
                "drain", "join", "unwindFuture"}
HttpScope   == {"launch", "schedule", "await", "announce", "stop", "disconnect",
                "stopHttp", "drain", "unwindFuture", "unwindApi"}

CallbackInv == InScope => callback = "live"

PollerInv == /\ PollerAlive => mainPc \in PollerScope
             /\ pollPc = "done" => mainPc \in PollerScope \cup {"rest", "unwindApi"}

HttpInv == /\ http # "none" => mainPc \in HttpScope
           /\ \A w \in Workers : workerPc[w] # "idle" => http # "none"

CurlInv == curlRefs = Cardinality(ApiHolders) + (IF InScope THEN 1 ELSE 0)

IInv == TypeOK /\ CallbackInv /\ PollerInv /\ HttpInv /\ CurlInv

(* A flag that is up while the server runs was raised by this cycle's poller. *)
ConnectionInv ==
    /\ mainPc \in {"startHttp", "backoff", "launch"} => ~isConnected
    /\ mainPc \in PollerScope \cup {"rest"} => pollPc # "none"
    /\ mainPc \in HttpScope \cup {"join", "rest"} /\ pollPc \in {"none", "start"}
          => ~isConnected

(* The next two need the poller to have begun before midnight strikes.       *)
(* A stop that has been requested stays so, because StartLoop's own reset of *)
(* the request is over when main() can first make it.                        *)
StopInv ==
    /\ mainPc \in {"announce", "stop"} => pollPc # "start"
    /\ mainPc = "await" /\ midnight => pollPc # "start"
    /\ StopPhase => g_stopRequested /\ pollPc # "start"

(* The transfers a poller that has been asked to stop can still end. *)
Left == IF pollPc = "getConfig" THEN 2
        ELSE IF pollPc \in Transfers THEN 1 ELSE 0

WorkInv ==
    /\ mainPc \in {"schedule", "await", "announce", "stop"} => transfersAfterStop = 0
    /\ StopPhase => transfersAfterStop + Left <= 2
    /\ transfersAfterStop <= 2

-----------------------------------------------------------------------------

LEMMA WorkerSubsets ==
    ASSUME NEW S \in SUBSET Workers
    PROVE  IsFiniteSet(S) /\ Cardinality(S) \in Nat
BY WorkersAssumption, FS_Subset, FS_CardinalityType

(* main(), the poller and the clock do not touch the workers.  What is left *)
(* for a step to show is local to the thread that moves.                    *)
LEMMA SameHolders ==
    ASSUME UNCHANGED workerPc
    PROVE  ApiHolders' = ApiHolders
BY DEF ApiHolders

LEMMA HoldersType == ApiHolders \in SUBSET Workers
BY DEF ApiHolders

LEMMA GonePreserves ==
    ASSUME ProcessGone
    PROVE  IInv'
<1>1. ApiHolders' = {}
  BY DEF ProcessGone, ApiHolders
<1>2. Cardinality(ApiHolders') = 0
  BY <1>1, FS_EmptySet
<1>3. /\ g_stopRequested' \in BOOLEAN
      /\ isConnected' \in BOOLEAN
      /\ isFatalError' \in BOOLEAN
  BY DEF ProcessGone
<1>4. CurlInv'
  BY <1>2 DEF ProcessGone, CurlInv, InScope
<1>5. workerPc' \in [Workers -> WorkerPcs]
  BY DEF ProcessGone, WorkerPcs
<1>6. transfersAfterStop' \in 0..MaxTransfers /\ curlRefs' \in Nat
  BY MaxTransfersAssumption DEF ProcessGone
<1>7. /\ mainPc' \in MainPcs /\ pollPc' \in PollPcs /\ terminating' \subseteq Workers
      /\ callback' \in {"none", "live", "dangling"}
      /\ http' \in {"none", "running", "stopping"}
      /\ midnight' \in BOOLEAN
  BY DEF ProcessGone, MainPcs, PollPcs
<1>8. TypeOK'
  BY <1>3, <1>5, <1>6, <1>7 DEF TypeOK
<1>9. CallbackInv' /\ PollerInv' /\ HttpInv'
  BY DEF ProcessGone, CallbackInv, InScope, PollerInv, PollerAlive, HttpInv
<1>10. QED
  BY <1>4, <1>8, <1>9 DEF IInv

LEMMA MainPreserves ==
    ASSUME IInv, Main
    PROVE  IInv'
<1> USE MaxTransfersAssumption
    DEF IInv, TypeOK, MainPcs, PollPcs, CallbackInv, InScope, PollerInv, PollerScope,
        PollerAlive, HttpInv, HttpScope, CurlInv, MainGoes, flags, DestroyApi
<1>0. /\ Cardinality(ApiHolders) \in Nat
      /\ UNCHANGED workerPc => Cardinality(ApiHolders') = Cardinality(ApiHolders)
  BY HoldersType, WorkerSubsets, SameHolders
<1>1. ASSUME LoadConfig PROVE IInv'
  BY <1>0, <1>1 DEF LoadConfig
<1>2. ASSUME LoadConfigFails PROVE IInv'
  BY <1>2, GonePreserves DEF LoadConfigFails
<1>3. ASSUME Reset PROVE IInv'
  <2>1. /\ g_stopRequested' \in BOOLEAN
        /\ isConnected' \in BOOLEAN
        /\ isFatalError' \in BOOLEAN
    BY <1>3 DEF Reset, ResetRuntimeState
  <2>2. QED
    BY <1>0, <1>3, <2>1 DEF Reset, SubscribeToPiceaAPI
<1>4. ASSUME StartHttpServer PROVE IInv'
  BY <1>0, <1>4 DEF StartHttpServer
<1>5. ASSUME StartHttpServerFails PROVE IInv'
  BY <1>0, <1>5 DEF StartHttpServerFails
<1>6. ASSUME Backoff PROVE IInv'
  BY <1>0, <1>6 DEF Backoff
<1>7. ASSUME Launch PROVE IInv'
  BY <1>0, <1>7 DEF Launch
<1>8. ASSUME Schedule PROVE IInv'
  BY <1>0, <1>8 DEF Schedule
<1>9. ASSUME WaitUntilRestartWindow PROVE IInv'
  BY <1>0, <1>9 DEF WaitUntilRestartWindow
<1>10. ASSUME Announce PROVE IInv'
  BY <1>0, <1>10 DEF Announce
<1>11. ASSUME RequestStop PROVE IInv'
  BY <1>0, <1>11 DEF RequestStop
<1>12. ASSUME RequestStopDisconnects PROVE IInv'
  BY <1>0, <1>12 DEF RequestStopDisconnects
<1>13. ASSUME StopHttpServer PROVE IInv'
  BY <1>0, <1>13 DEF StopHttpServer
<1>14. ASSUME Drained PROVE IInv'
  BY <1>0, <1>14 DEF Drained, WorkersJoined
<1>15. ASSUME JoinPoller PROVE IInv'
  BY <1>0, <1>15 DEF JoinPoller
<1>16. ASSUME Rest PROVE IInv'
  BY <1>0, <1>16 DEF Rest
<1>17. ASSUME UnwindFuture PROVE IInv'
  BY <1>0, <1>17 DEF UnwindFuture
<1>18. ASSUME UnwindStopsHttp PROVE IInv'
  BY <1>0, <1>18 DEF UnwindStopsHttp
<1>19. ASSUME UnwindApi PROVE IInv'
  BY <1>19, GonePreserves DEF UnwindApi
<1> HIDE DEF IInv
<1>20. QED
  BY <1>1, <1>2, <1>3, <1>4, <1>5, <1>6, <1>7, <1>8, <1>9, <1>10, <1>11, <1>12,
     <1>13, <1>14, <1>15, <1>16, <1>17, <1>18, <1>19 DEF Main

LEMMA PollerPreserves ==
    ASSUME IInv, Poller
    PROVE  IInv'
<1> USE MaxTransfersAssumption
    DEF IInv, TypeOK, PollPcs, CallbackInv, InScope, PollerInv, PollerScope,
        PollerAlive, HttpInv, CurlInv, PollerGoes, CountTransfer
<1>0. UNCHANGED workerPc => Cardinality(ApiHolders') = Cardinality(ApiHolders)
  BY SameHolders
<1>1. ASSUME StartLoop PROVE IInv'
  BY <1>0, <1>1 DEF StartLoop
<1>2. ASSUME OuterLoop PROVE IInv'
  BY <1>0, <1>2 DEF OuterLoop
<1>3. ASSUME TryToConnectGivesUp \/ TryToConnect PROVE IInv'
  BY <1>0, <1>3 DEF TryToConnectGivesUp, TryToConnect
<1>4. ASSUME Connected PROVE IInv'
  BY <1>0, <1>4 DEF Connected
<1>5. ASSUME TryToConnectReturns PROVE IInv'
  BY <1>0, <1>5 DEF TryToConnectReturns
<1>6. ASSUME InnerLoop PROVE IInv'
  BY <1>0, <1>6 DEF InnerLoop
<1>7. ASSUME FetchData PROVE IInv'
  BY <1>0, <1>7 DEF FetchData, CheckedTransfer
<1>8. ASSUME FetchConfig PROVE IInv'
  BY <1>0, <1>8 DEF FetchConfig, CheckedTransfer
<1>9. ASSUME TransferFails("getData") PROVE IInv'
  <2>1. isConnected' \in BOOLEAN
    BY <1>9 DEF TransferFails
  <2>2. QED
    BY <1>0, <1>9, <2>1 DEF TransferFails
<1>10. ASSUME TransferFails("getConfig") PROVE IInv'
  <2>1. isConnected' \in BOOLEAN
    BY <1>10 DEF TransferFails
  <2>2. QED
    BY <1>0, <1>10, <2>1 DEF TransferFails
<1>11. ASSUME DataArrives PROVE IInv'
  BY <1>0, <1>11 DEF DataArrives
<1>12. ASSUME ConfigArrives PROVE IInv'
  BY <1>0, <1>12 DEF ConfigArrives
<1>13. ASSUME HandleFetchedDataReturns PROVE IInv'
  BY <1>0, <1>13 DEF HandleFetchedDataReturns
<1>14. ASSUME Nap \/ Retry PROVE IInv'
  BY <1>0, <1>14 DEF Nap, Retry
<1>15. ASSUME StartLoopReturns PROVE IInv'
  BY <1>0, <1>15 DEF StartLoopReturns
<1>16. ASSUME LoopThrows PROVE IInv'
  <2>1. isConnected' \in BOOLEAN
    BY <1>16 DEF LoopThrows
  <2>2. g_stopRequested' \in BOOLEAN
    BY <1>16 DEF LoopThrows
  <2>3. /\ PollerAlive /\ pollPc' = "done"
        /\ UNCHANGED <<mainPc, workerPc, terminating, isFatalError, callback, curlRefs,
                       http, midnight, transfersAfterStop>>
    BY <1>16 DEF LoopThrows
  <2>4. QED
    BY <1>0, <2>1, <2>2, <2>3
<1> HIDE DEF IInv
<1>17. QED
  BY <1>1, <1>2, <1>3, <1>4, <1>5, <1>6, <1>7, <1>8, <1>9, <1>10, <1>11, <1>12,
     <1>13, <1>14, <1>15, <1>16 DEF Poller

(* What a worker's step does to the set of LoxoneAPI objects on the stacks   *)
(* of the workers, and to its size.                                          *)
LEMMA WorkerPreserves ==
    ASSUME IInv, NEW w \in Workers, Worker(w)
    PROVE  IInv'
<1> USE DEF IInv, TypeOK, WorkerPcs, CallbackInv, InScope, PollerInv, PollerAlive,
            HttpInv, CurlInv, WorkerGoes, flags
<1>0. /\ IsFiniteSet(ApiHolders)
      /\ Cardinality(ApiHolders) \in Nat
  BY HoldersType, WorkerSubsets
<1>1. ASSUME Accept(w) PROVE IInv'
  <2>1. ApiHolders' = ApiHolders
    BY <1>1 DEF Accept, ApiHolders
  <2>2. QED
    BY <1>1, <2>1 DEF Accept
<1>2. ASSUME RequestDropped(w) \/ RequestRejected(w) \/ Reply(w) PROVE IInv'
  <2>1. ApiHolders' = ApiHolders
    BY <1>2 DEF RequestDropped, RequestRejected, Reply, ApiHolders
  <2>2. QED
    BY <1>2, <2>1 DEF RequestDropped, RequestRejected, Reply
<1>3. ASSUME request_handler(w) PROVE IInv'
  <2>1. /\ w \notin ApiHolders
        /\ ApiHolders' = ApiHolders \cup {w}
    BY <1>3 DEF request_handler, ApiHolders
  <2>2. Cardinality(ApiHolders') = Cardinality(ApiHolders) + 1
    BY <1>0, <2>1, FS_AddElement
  <2>3. QED
    BY <1>0, <1>3, <2>2 DEF request_handler
<1>4. ASSUME UpdateConfigSettings(w) PROVE IInv'
  <2>1. ApiHolders' = ApiHolders
    BY <1>4 DEF UpdateConfigSettings, ApiHolders
  <2>2. QED
    BY <1>4, <2>1 DEF UpdateConfigSettings
<1>5. ASSUME CheckEnds(w) PROVE IInv'
  <2>1. /\ w \in ApiHolders
        /\ ApiHolders' = ApiHolders \ {w}
    BY <1>5 DEF CheckEnds, ApiHolders
  <2>2. /\ Cardinality(ApiHolders') = Cardinality(ApiHolders) - 1
        /\ Cardinality(ApiHolders') \in Nat
    BY <1>0, <2>1, FS_RemoveElement, FS_CardinalityType
  <2>3. QED
    BY <1>0, <1>5, <2>2 DEF CheckEnds
<1>6. ASSUME HandlerThrows(w) PROVE IInv'
  BY <1>6, SameHolders DEF HandlerThrows
<1> HIDE DEF IInv
<1>7. QED
  BY <1>1, <1>2, <1>3, <1>4, <1>5, <1>6 DEF Worker

LEMMA StepPreserves == IInv /\ [Next]_vars => IInv'
<1> SUFFICES ASSUME IInv, [Next]_vars PROVE IInv'
  OBVIOUS
<1>0. UNCHANGED workerPc => Cardinality(ApiHolders') = Cardinality(ApiHolders)
  BY SameHolders
<1>1. CASE Main
  BY <1>1, MainPreserves
<1>2. CASE Poller
  BY <1>2, PollerPreserves
<1>3. CASE \E w \in Workers : Worker(w)
  BY <1>3, WorkerPreserves
<1>4. CASE MainThrows
  BY <1>0, <1>4
  DEF MainThrows, FutureAlive, ApiAlive, IInv, TypeOK, MainPcs, CallbackInv, InScope,
      PollerInv, PollerScope, PollerAlive, HttpInv, HttpScope, CurlInv, flags
<1>5. CASE MainThrowsAndEnds
  BY <1>5, GonePreserves DEF MainThrowsAndEnds
<1>6. CASE MidnightStrikes
  BY <1>0, <1>6
  DEF MidnightStrikes, IInv, TypeOK, CallbackInv, InScope, PollerInv, PollerAlive,
      HttpInv, CurlInv, threads, flags
<1>7. CASE Process
  <2>1. CASE TerminateHandler \/ ProcessKilled
    BY <2>1, GonePreserves DEF TerminateHandler, ProcessKilled
  <2>2. CASE ContainerRestart
    BY <1>0, <2>2
    DEF ContainerRestart, IInv, TypeOK, MainPcs, CallbackInv, InScope, PollerInv,
        PollerScope, PollerAlive, HttpInv, HttpScope, CurlInv, flags
  <2>3. QED
    BY <1>7, <2>1, <2>2 DEF Process
<1>8. CASE UNCHANGED vars
  BY <1>0, <1>8
  DEF vars, IInv, TypeOK, CallbackInv, InScope, PollerInv, PollerAlive, HttpInv, CurlInv
<1>9. QED
  BY <1>1, <1>2, <1>3, <1>4, <1>5, <1>6, <1>7, <1>8 DEF Next

LEMMA InitIInv == Init => IInv
<1> SUFFICES ASSUME Init PROVE IInv
  OBVIOUS
<1>1. ApiHolders = {}
  BY DEF Init, ApiHolders
<1>2. Cardinality(ApiHolders) = 0
  BY <1>1, FS_EmptySet
<1>3. CurlInv
  BY <1>2 DEF Init, CurlInv, InScope
<1>4. TypeOK
  <2>1. transfersAfterStop \in 0..MaxTransfers /\ curlRefs \in Nat
    BY MaxTransfersAssumption DEF Init
  <2>2. /\ mainPc \in MainPcs /\ pollPc \in PollPcs /\ terminating \subseteq Workers
        /\ callback \in {"none", "live", "dangling"}
        /\ http \in {"none", "running", "stopping"}
    BY DEF Init, MainPcs, PollPcs
  <2>3. /\ g_stopRequested \in BOOLEAN /\ isConnected \in BOOLEAN
        /\ isFatalError \in BOOLEAN /\ midnight \in BOOLEAN
    BY DEF Init
  <2>4. workerPc \in [Workers -> WorkerPcs]
    BY DEF Init, WorkerPcs
  <2>5. QED
    BY <2>1, <2>2, <2>3, <2>4 DEF TypeOK
<1>5. CallbackInv /\ PollerInv /\ HttpInv
  BY DEF Init, CallbackInv, InScope, PollerInv, PollerAlive, HttpInv
<1>6. QED
  BY <1>3, <1>4, <1>5 DEF IInv

LEMMA Inductive == Spec => []IInv
BY InitIInv, StepPreserves, PTL DEF Spec

-----------------------------------------------------------------------------

(* Every variable of the process stays within its type; for curlRefs this    *)
(* says that no destructor releases libcurl more often than it was acquired. *)
THEOREM TypeCorrect == Spec => []TypeOK
<1>1. IInv => TypeOK
  BY DEF IInv
<1>2. QED
  BY <1>1, Inductive, PTL

(* The lambda that SubscribeToPiceaAPI stores is only called while the        *)
(* object it captured exists.                                                 *)
THEOREM CallbackIsSafe == Spec => []CallbackNeverDangles
<1>1. IInv => CallbackNeverDangles
  BY DEF IInv, CallbackNeverDangles, CallbackInv, PollerInv, PollerAlive, PollerScope, InScope
<1>2. QED
  BY <1>1, Inductive, PTL

(* No thread uses libcurl between the last cleanup and the next init.        *)
THEOREM CurlIsAlive == Spec => []CurlAlive
<1>1. ASSUME IInv PROVE CurlAlive
  <2>1. Cardinality(ApiHolders) \in Nat
    BY HoldersType, WorkerSubsets
  <2>2. ASSUME pollPc \in Transfers PROVE curlRefs > 0
    BY <1>1, <2>1, <2>2
    DEF IInv, PollerInv, PollerAlive, PollerScope, InScope, CurlInv, Transfers
  <2>3. ASSUME ApiHolders # {} PROVE curlRefs > 0
    <3>1. PICK w \in Workers : workerPc[w] \in {"check", "post"}
      BY <2>3 DEF ApiHolders
    <3>2. InScope
      BY <1>1, <3>1 DEF IInv, HttpInv, HttpScope, InScope
    <3>3. QED
      BY <1>1, <2>1, <3>2 DEF IInv, CurlInv
  <2>4. QED
    BY <2>2, <2>3 DEF CurlAlive
<1>2. QED
  BY <1>1, Inductive, PTL

(* Whatever happened in a cycle, the next one finds nothing left of it.      *)
THEOREM CyclesAreQuiescent == Spec => []NewCycleQuiescent
<1>1. ASSUME IInv, mainPc = "reset"
      PROVE  /\ pollPc = "none"
             /\ \A w \in Workers : workerPc[w] = "idle"
             /\ http = "none"
             /\ curlRefs = 0
  <2>1. pollPc = "none" /\ http = "none" /\ \A w \in Workers : workerPc[w] = "idle"
    BY <1>1 DEF IInv, PollerInv, PollerAlive, PollerScope, HttpInv, HttpScope
  <2>2. ApiHolders = {}
    BY <2>1 DEF ApiHolders
  <2>3. curlRefs = 0
    BY <1>1, <2>2, FS_EmptySet DEF IInv, CurlInv, InScope
  <2>4. QED
    BY <2>1, <2>3
<1>2. IInv => NewCycleQuiescent
  BY <1>1 DEF NewCycleQuiescent
<1>3. QED
  BY <1>2, Inductive, PTL

-----------------------------------------------------------------------------
(* What main() and the poller agree on about the connection and the stop.    *)

(* A worker touches none of it. *)
LEMMA WorkerLeavesFlags ==
    ASSUME NEW w \in Workers, Worker(w)
    PROVE  UNCHANGED <<mainPc, pollPc, flags, midnight, transfersAfterStop>>
BY DEF Worker, WorkerGoes, Accept, RequestDropped, RequestRejected, request_handler,
       UpdateConfigSettings, CheckEnds, Reply, HandlerThrows

LEMMA ConnectionStep ==
    ASSUME IInv, ConnectionInv, [Next]_vars
    PROVE  ConnectionInv'
<1> USE DEF ConnectionInv, PollerScope, HttpScope
<1>1. CASE Main
  <2>1. CASE LoadConfigFails \/ UnwindApi
    BY <2>1 DEF LoadConfigFails, UnwindApi, ProcessGone
  <2>2. CASE Reset
    BY <2>2 DEF Reset, ResetRuntimeState
  <2>3. CASE LoadConfig \/ Backoff \/ Rest
    BY <2>3 DEF LoadConfig, Backoff, Rest, MainGoes, flags
  <2>4. CASE Launch
    BY <2>4 DEF Launch, MainGoes, flags
  <2>5. CASE \/ StartHttpServer \/ StartHttpServerFails \/ Schedule
             \/ WaitUntilRestartWindow \/ Announce \/ RequestStop \/ StopHttpServer
             \/ Drained \/ JoinPoller \/ UnwindFuture \/ UnwindStopsHttp
    BY <2>5
    DEF StartHttpServer, StartHttpServerFails, Schedule, WaitUntilRestartWindow, Announce,
        RequestStop, StopHttpServer, Drained, JoinPoller, UnwindFuture, UnwindStopsHttp,
        MainGoes, flags
  <2>6. CASE RequestStopDisconnects
    BY <2>6 DEF RequestStopDisconnects, MainGoes
  <2>7. QED
    BY <1>1, <2>1, <2>2, <2>3, <2>4, <2>5, <2>6 DEF Main
<1>2. CASE Poller
  <2>1. UNCHANGED mainPc /\ PollerAlive /\ pollPc' \notin {"none", "start"}
    BY <1>2
    DEF Poller, PollerGoes, PollerAlive, StartLoop, OuterLoop, TryToConnectGivesUp,
        TryToConnect, Connected, TryToConnectReturns, InnerLoop, FetchData, FetchConfig,
        CheckedTransfer, TransferFails, DataArrives, ConfigArrives,
        HandleFetchedDataReturns, Nap, Retry, StartLoopReturns, LoopThrows
  <2>2. mainPc \in PollerScope
    BY <2>1 DEF IInv, PollerInv
  <2>3. QED
    BY <2>1, <2>2
<1>3. CASE \E w \in Workers : Worker(w)
  BY <1>3, WorkerLeavesFlags DEF flags
<1>4. CASE MainThrows
  BY <1>4 DEF MainThrows, FutureAlive, ApiAlive, flags
<1>5. CASE MainThrowsAndEnds \/ TerminateHandler \/ ProcessKilled
  BY <1>5 DEF MainThrowsAndEnds, TerminateHandler, ProcessKilled, ProcessGone
<1>6. CASE MidnightStrikes \/ ContainerRestart
  BY <1>6 DEF MidnightStrikes, ContainerRestart, threads, flags
<1>7. CASE UNCHANGED vars
  BY <1>7 DEF vars
<1>8. QED
  BY <1>1, <1>2, <1>3, <1>4, <1>5, <1>6, <1>7 DEF Next, Process

(* A connection that request workers rely on was made by this cycle's        *)
(* poller, whenever the exception of an earlier one left the flag set.       *)
THEOREM ConnectionsAreFresh == Spec => []NoStaleConnection
<1>1. Init => ConnectionInv
  BY DEF Init, ConnectionInv, PollerScope, HttpScope
<1>2. IInv /\ ConnectionInv => NoStaleConnection
  BY DEF IInv, HttpInv, ConnectionInv, NoStaleConnection
<1>3. IInv /\ ConnectionInv /\ [Next]_vars => ConnectionInv'
  BY ConnectionStep
<1>4. QED
  BY <1>1, <1>2, <1>3, Inductive, PTL DEF Spec

LEMMA StopStep ==
    ASSUME EarlyMidnight = FALSE, IInv, StopInv, [Next]_vars
    PROVE  StopInv'
<1> USE DEF StopInv, StopPhase
<1>1. CASE Main
  <2>1. CASE LoadConfigFails \/ UnwindApi
    BY <2>1 DEF LoadConfigFails, UnwindApi, ProcessGone
  <2>2. CASE Reset \/ LoadConfig \/ Backoff \/ Rest \/ Launch
    BY <2>2 DEF Reset, LoadConfig, Backoff, Rest, Launch, MainGoes
  <2>3. CASE Schedule
    BY <2>3 DEF Schedule, MainGoes
  <2>4. CASE RequestStop \/ RequestStopDisconnects
    BY <2>4 DEF RequestStop, RequestStopDisconnects, MainGoes
  <2>5. CASE \/ StartHttpServer \/ StartHttpServerFails \/ WaitUntilRestartWindow
             \/ Announce \/ StopHttpServer \/ Drained \/ JoinPoller \/ UnwindFuture
             \/ UnwindStopsHttp
    BY <2>5
    DEF StartHttpServer, StartHttpServerFails, WaitUntilRestartWindow, Announce,
        StopHttpServer, Drained, JoinPoller, UnwindFuture, UnwindStopsHttp, MainGoes, flags
  <2>6. QED
    BY <1>1, <2>1, <2>2, <2>3, <2>4, <2>5 DEF Main
<1>2. CASE Poller
  <2>1. /\ UNCHANGED <<mainPc, midnight>>
        /\ pollPc' # "start"
        /\ pollPc # "start" => g_stopRequested' = g_stopRequested
    BY <1>2
    DEF Poller, PollerGoes, StartLoop, OuterLoop, TryToConnectGivesUp, TryToConnect,
        Connected, TryToConnectReturns, InnerLoop, FetchData, FetchConfig,
        CheckedTransfer, TransferFails, DataArrives, ConfigArrives,
        HandleFetchedDataReturns, Nap, Retry, StartLoopReturns, LoopThrows
  <2>2. QED
    BY <2>1
<1>3. CASE \E w \in Workers : Worker(w)
  BY <1>3, WorkerLeavesFlags DEF flags
<1>4. CASE MainThrows
  BY <1>4 DEF MainThrows, FutureAlive, ApiAlive, flags
<1>5. CASE MainThrowsAndEnds \/ TerminateHandler \/ ProcessKilled
  BY <1>5 DEF MainThrowsAndEnds, TerminateHandler, ProcessKilled, ProcessGone
<1>6. CASE MidnightStrikes \/ ContainerRestart
  BY <1>6 DEF MidnightStrikes, ContainerRestart, threads, flags
<1>7. CASE UNCHANGED vars
  BY <1>7 DEF vars
<1>8. QED
  BY <1>1, <1>2, <1>3, <1>4, <1>5, <1>6, <1>7 DEF Next, Process

LEMMA StopInvariant ==
    ASSUME EarlyMidnight = FALSE
    PROVE  Spec => []StopInv
<1>1. Init => StopInv
  BY DEF Init, StopInv, StopPhase
<1>2. IInv /\ StopInv /\ [Next]_vars => StopInv'
  BY StopStep
<1>3. QED
  BY <1>1, <1>2, Inductive, PTL DEF Spec

(* The stop request stays up until main() has seen the poller end, provided  *)
(* the poller had begun when midnight struck.                                *)
THEOREM StopIsHonoured ==
    ASSUME EarlyMidnight = FALSE
    PROVE  Spec => []StopHonoured
<1>1. StopInv => StopHonoured
  BY DEF StopInv, StopPhase, StopHonoured
<1>2. QED
  BY <1>1, StopInvariant, PTL

(* The poller ends a transfer: one less is left, one more is counted.        *)
LEMMA PollerWork ==
    ASSUME IInv, StopInv, WorkInv, Poller
    PROVE  WorkInv'
<1> USE MaxTransfersAssumption DEF StopPhase, Left, Transfers
<1>1. UNCHANGED mainPc
  BY DEF Poller, PollerGoes, StartLoop, OuterLoop, TryToConnectGivesUp, TryToConnect,
         Connected, TryToConnectReturns, InnerLoop, FetchData, FetchConfig,
         CheckedTransfer, TransferFails, DataArrives, ConfigArrives,
         HandleFetchedDataReturns, Nap, Retry, StartLoopReturns, LoopThrows
<1>2. transfersAfterStop \in Nat /\ (StopPhase => g_stopRequested /\ pollPc # "start")
  BY DEF IInv, TypeOK, StopInv
<1>3. ASSUME UNCHANGED transfersAfterStop, StopPhase => Left' <= Left PROVE WorkInv'
  BY <1>1, <1>2, <1>3 DEF WorkInv
<1>4. ASSUME CountTransfer, StopPhase => Left' + 1 <= Left PROVE WorkInv'
  BY <1>1, <1>2, <1>4 DEF WorkInv, CountTransfer
<1>5. CASE \/ StartLoop \/ OuterLoop \/ TryToConnectGivesUp \/ TryToConnectReturns
           \/ InnerLoop \/ Nap \/ Retry \/ StartLoopReturns \/ LoopThrows
  <2>1. UNCHANGED transfersAfterStop /\ pollPc' \notin Transfers
    BY <1>5
    DEF PollerGoes, StartLoop, OuterLoop, TryToConnectGivesUp, TryToConnectReturns,
        InnerLoop, Nap, Retry, StartLoopReturns, LoopThrows
  <2>2. Left' <= Left
    BY <2>1
  <2>3. QED
    BY <1>3, <2>1, <2>2
<1>6. CASE TryToConnect \/ FetchData \/ FetchConfig
  BY <1>2, <1>3, <1>6
  DEF PollerGoes, TryToConnect, FetchData, FetchConfig, CheckedTransfer
<1>7. CASE \/ Connected \/ TransferFails("getData") \/ TransferFails("getConfig")
           \/ DataArrives \/ ConfigArrives \/ HandleFetchedDataReturns
  <2>1. /\ CountTransfer
        /\ pollPc \in Transfers
        /\ pollPc' \in Transfers => pollPc = "getConfig" /\ pollPc' = "push"
    BY <1>7
    DEF PollerGoes, Connected, TransferFails, DataArrives, ConfigArrives,
        HandleFetchedDataReturns
  <2>2. Left' + 1 <= Left
    BY <2>1
  <2>3. QED
    BY <1>4, <2>1, <2>2
<1>8. QED
  BY <1>5, <1>6, <1>7 DEF Poller

LEMMA WorkStep ==
    ASSUME IInv, StopInv, WorkInv, [Next]_vars
    PROVE  WorkInv'
<1>1. CASE Main
  <2> USE DEF WorkInv, StopPhase, Left, Transfers
  <2>1. CASE LoadConfigFails \/ UnwindApi
    BY <2>1 DEF LoadConfigFails, UnwindApi, ProcessGone
  <2>2. CASE Reset \/ LoadConfig \/ Backoff \/ Rest \/ Launch
    BY <2>2 DEF Reset, LoadConfig, Backoff, Rest, Launch, MainGoes
  <2>3. CASE RequestStop
    BY <2>3 DEF RequestStop, MainGoes
  <2>4. CASE \/ StartHttpServer \/ StartHttpServerFails \/ Schedule
             \/ WaitUntilRestartWindow \/ Announce \/ RequestStopDisconnects
             \/ StopHttpServer \/ Drained \/ JoinPoller \/ UnwindFuture
             \/ UnwindStopsHttp
    BY <2>4
    DEF StartHttpServer, StartHttpServerFails, Schedule, WaitUntilRestartWindow, Announce,
        RequestStopDisconnects, StopHttpServer, Drained, JoinPoller, UnwindFuture,
        UnwindStopsHttp, MainGoes
  <2>5. QED
    BY <1>1, <2>1, <2>2, <2>3, <2>4 DEF Main
<1>2. CASE Poller
  BY <1>2, PollerWork
<1>3. CASE \E w \in Workers : Worker(w)
  BY <1>3, WorkerLeavesFlags DEF WorkInv, StopPhase, Left
<1>4. CASE MainThrows
  BY <1>4 DEF MainThrows, FutureAlive, ApiAlive, WorkInv, StopPhase, Left
<1>5. CASE MainThrowsAndEnds \/ TerminateHandler \/ ProcessKilled
  BY <1>5
  DEF MainThrowsAndEnds, TerminateHandler, ProcessKilled, ProcessGone, WorkInv, StopPhase
<1>6. CASE MidnightStrikes \/ ContainerRestart
  BY <1>6 DEF MidnightStrikes, ContainerRestart, threads, WorkInv, StopPhase, Left
<1>7. CASE UNCHANGED vars
  BY <1>7 DEF vars, WorkInv, StopPhase, Left
<1>8. QED
  BY <1>1, <1>2, <1>3, <1>4, <1>5, <1>6, <1>7 DEF Next, Process

(* A poller that has been asked to stop ends at most two more transfers, so  *)
(* that the join of main() is not held up for longer than these take.        *)
THEOREM StopEndsSoon ==
    ASSUME EarlyMidnight = FALSE
    PROVE  Spec => []StopBoundsWork
<1>1. Init => WorkInv
  BY DEF Init, WorkInv, StopPhase
<1>2. IInv /\ StopInv /\ WorkInv /\ [Next]_vars => WorkInv'
  BY WorkStep
<1>3. WorkInv => StopBoundsWork
  BY DEF WorkInv, StopBoundsWork
<1>4. QED
  BY <1>1, <1>2, <1>3, StopInvariant, Inductive, PTL DEF Spec

-----------------------------------------------------------------------------
(* ServiceCycle implements ServiceSession: each step of a thread is a step   *)
(* of the session, or none.  A step of main() moves the session and leaves   *)
(* the activities alone, a step of a poller or a worker does the converse.   *)

Moves == [Session!Next]_(Session!vars)

LEMMA SameBusy ==
    ASSUME UNCHANGED <<pollPc, workerPc>>
    PROVE  BusyActivities' = BusyActivities
BY DEF BusyActivities, PollerAlive

LEMMA GoneMoves ==
    ASSUME ProcessGone
    PROVE  Moves
<1>1. SessionState' = "down" /\ BusyActivities' = {}
  BY DEF ProcessGone, SessionState, BusyActivities, PollerAlive
<1>2. Session!Crash
  BY <1>1 DEF Session!Crash
<1>3. QED
  BY <1>2 DEF Moves, Session!Next

LEMMA MainMoves ==
    ASSUME IInv, Main
    PROVE  Moves
<1> DEFINE Still == BusyActivities' = BusyActivities
<1>0. UNCHANGED <<pollPc, workerPc>> => Still
  BY SameBusy
<1>1. ASSUME LoadConfig PROVE Moves
  BY <1>0, <1>1 DEF LoadConfig, MainGoes, SessionState, Moves, Session!vars
<1>2. ASSUME LoadConfigFails \/ UnwindApi PROVE Moves
  BY <1>2, GoneMoves DEF LoadConfigFails, UnwindApi
<1>3. ASSUME Reset PROVE Moves
  <2>1. Session!Open
    BY <1>0, <1>3 DEF Reset, SessionState, Session!Open
  <2>2. QED
    BY <2>1 DEF Moves, Session!Next
<1>4. ASSUME StartHttpServerFails \/ RequestStop PROVE Moves
  <2>1. Session!Close
    BY <1>0, <1>4
    DEF StartHttpServerFails, RequestStop, MainGoes, SessionState, Session!Close
  <2>2. QED
    BY <2>1 DEF Moves, Session!Next
<1>5. ASSUME Backoff \/ Rest PROVE Moves
  <2>1. ~PollerAlive /\ ~PollerAlive' /\ UNCHANGED workerPc
    BY <1>5 DEF IInv, PollerInv, PollerScope, PollerAlive, Backoff, Rest, MainGoes
  <2>2. \A w \in Workers : workerPc[w] = "idle"
    BY <1>5 DEF IInv, HttpInv, HttpScope, Backoff, Rest, MainGoes
  <2>3. BusyActivities = {} /\ BusyActivities' = {}
    BY <2>1, <2>2 DEF BusyActivities
  <2>4. Session!Closed
    BY <1>5, <2>3 DEF Backoff, Rest, MainGoes, SessionState, Session!Closed
  <2>5. QED
    BY <2>4 DEF Moves, Session!Next
<1>6. ASSUME Launch PROVE Moves
  <2>1. ~PollerAlive /\ PollerAlive' /\ UNCHANGED workerPc
    BY <1>6 DEF IInv, PollerInv, PollerScope, PollerAlive, Launch, MainGoes
  <2>2. Picea \notin BusyActivities /\ BusyActivities' = BusyActivities \cup {Picea}
    BY <2>1, PiceaAssumption DEF BusyActivities
  <2>3. Session!Begin(Picea)
    BY <1>6, <2>2 DEF Launch, MainGoes, SessionState, Session!Begin
  <2>4. QED
    BY <2>3 DEF Moves, Session!Next
<1>7. ASSUME StartHttpServer \/ Schedule \/ WaitUntilRestartWindow \/ Announce PROVE Moves
  BY <1>0, <1>7
  DEF StartHttpServer, Schedule, WaitUntilRestartWindow, Announce, MainGoes,
      SessionState, Moves, Session!vars
<1>8. ASSUME \/ RequestStopDisconnects \/ StopHttpServer \/ Drained \/ JoinPoller
             \/ UnwindFuture \/ UnwindStopsHttp
      PROVE  Moves
  BY <1>0, <1>8
  DEF RequestStopDisconnects, StopHttpServer, Drained, JoinPoller, UnwindFuture,
      UnwindStopsHttp, MainGoes, SessionState, Moves, Session!vars
<1>9. QED
  BY <1>1, <1>2, <1>3, <1>4, <1>5, <1>6, <1>7, <1>8 DEF Main

(* The poller works on, or its thread ends. *)
LEMMA PollerMoves ==
    ASSUME IInv, Poller
    PROVE  Moves
<1>1. /\ PollerAlive /\ pollPc' # "none"
      /\ UNCHANGED <<mainPc, workerPc>>
  BY DEF Poller, PollerGoes, PollerAlive, StartLoop, OuterLoop, TryToConnectGivesUp,
         TryToConnect, Connected, TryToConnectReturns, InnerLoop, FetchData, FetchConfig,
         CheckedTransfer, TransferFails, DataArrives, ConfigArrives,
         HandleFetchedDataReturns, Nap, Retry, StartLoopReturns, LoopThrows
<1>2. SessionState' = SessionState
  BY <1>1 DEF SessionState
<1>3. CASE PollerAlive'
  <2>1. BusyActivities' = BusyActivities
    BY <1>1, <1>3 DEF BusyActivities
  <2>2. QED
    BY <1>2, <2>1 DEF Moves, Session!vars
<1>4. CASE ~PollerAlive'
  <2>1. Picea \in BusyActivities /\ BusyActivities' = BusyActivities \ {Picea}
    BY <1>1, <1>4, PiceaAssumption DEF BusyActivities
  <2>2. Session!End(Picea)
    BY <1>2, <2>1 DEF Session!End
  <2>3. QED
    BY <2>2 DEF Moves, Session!Next
<1>5. QED
  BY <1>3, <1>4

(* A worker begins a request, works on it, or ends it. *)
LEMMA WorkerMoves ==
    ASSUME IInv, NEW w \in Workers, Worker(w)
    PROVE  Moves
<1>1. /\ UNCHANGED <<mainPc, pollPc>>
      /\ SessionState' = SessionState
      /\ PollerAlive' = PollerAlive
  BY DEF Worker, WorkerGoes, SessionState, PollerAlive, Accept, RequestDropped,
         RequestRejected, request_handler, UpdateConfigSettings, CheckEnds, Reply,
         HandlerThrows
<1>2. CASE Accept(w)
  <2>1. SessionState \in {"open", "closing"}
    BY <1>2 DEF Accept, IInv, HttpInv, HttpScope, SessionState
  <2>2. /\ workerPc[w] = "idle"
        /\ workerPc' = [workerPc EXCEPT ![w] = "request"]
        /\ workerPc \in [Workers -> WorkerPcs]
    BY <1>2 DEF Accept, WorkerGoes, IInv, TypeOK
  <2>3. w \notin BusyActivities /\ BusyActivities' = BusyActivities \cup {w}
    BY <1>1, <2>2, PiceaAssumption DEF BusyActivities
  <2>4. Session!Begin(w)
    BY <1>1, <2>1, <2>3 DEF Session!Begin
  <2>5. QED
    BY <2>4 DEF Moves, Session!Next
<1>3. CASE RequestDropped(w) \/ Reply(w)
  <2>1. /\ workerPc[w] # "idle"
        /\ workerPc' = [workerPc EXCEPT ![w] = "idle"]
        /\ workerPc \in [Workers -> WorkerPcs]
    BY <1>3 DEF RequestDropped, Reply, WorkerGoes, IInv, TypeOK
  <2>2. w \in BusyActivities /\ BusyActivities' = BusyActivities \ {w}
    BY <1>1, <2>1, PiceaAssumption DEF BusyActivities
  <2>3. Session!End(w)
    BY <1>1, <2>2 DEF Session!End
  <2>4. QED
    BY <2>3 DEF Moves, Session!Next
<1>4. CASE \/ RequestRejected(w) \/ request_handler(w) \/ UpdateConfigSettings(w)
           \/ CheckEnds(w) \/ HandlerThrows(w)
  <2>1. \A v \in Workers : workerPc'[v] # "idle" <=> workerPc[v] # "idle"
    BY <1>4
    DEF RequestRejected, request_handler, UpdateConfigSettings, CheckEnds, HandlerThrows,
        WorkerGoes, IInv, TypeOK
  <2>2. BusyActivities' = BusyActivities
    BY <1>1, <2>1 DEF BusyActivities
  <2>3. QED
    BY <1>1, <2>2 DEF Moves, Session!vars
<1>5. QED
  BY <1>2, <1>3, <1>4 DEF Worker

LEMMA StepMoves == IInv /\ [Next]_vars => Moves
<1> SUFFICES ASSUME IInv, [Next]_vars PROVE Moves
  OBVIOUS
<1>1. CASE Main
  BY <1>1, MainMoves
<1>2. CASE Poller
  BY <1>2, PollerMoves
<1>3. CASE \E w \in Workers : Worker(w)
  BY <1>3, WorkerMoves
<1>4. CASE MainThrows
  <2>1. BusyActivities' = BusyActivities
    BY <1>4, SameBusy DEF MainThrows
  <2>2. CASE SessionState = "open"
    <3>1. Session!Close
      BY <1>4, <2>1, <2>2 DEF MainThrows, SessionState, Session!Close
    <3>2. QED
      BY <3>1 DEF Moves, Session!Next
  <2>3. CASE SessionState # "open"
    BY <1>4, <2>1, <2>3 DEF MainThrows, FutureAlive, ApiAlive, SessionState, Moves, Session!vars
  <2>4. QED
    BY <2>2, <2>3
<1>5. CASE MainThrowsAndEnds \/ TerminateHandler \/ ProcessKilled
  BY <1>5, GoneMoves DEF MainThrowsAndEnds, TerminateHandler, ProcessKilled
<1>6. CASE MidnightStrikes
  BY <1>6, SameBusy DEF MidnightStrikes, threads, SessionState, Moves, Session!vars
<1>7. CASE ContainerRestart
  <2>1. Session!Restart
    BY <1>7, SameBusy DEF ContainerRestart, SessionState, Session!Restart
  <2>2. QED
    BY <2>1 DEF Moves, Session!Next
<1>8. CASE UNCHANGED vars
  BY <1>8, SameBusy DEF vars, SessionState, Moves, Session!vars
<1>9. QED
  BY <1>1, <1>2, <1>3, <1>4, <1>5, <1>6, <1>7, <1>8 DEF Next, Process

LEMMA InitSession == Init => Session!Init
BY DEF Init, Session!Init, SessionState, BusyActivities, PollerAlive

(* Work is only in progress inside a session, and a session only ends when   *)
(* main() has seen the poller and every request end, or the process is gone. *)
THEOREM Implements == Spec => SessionRefinement
<1>1. IInv /\ [Next]_vars => [Session!Next]_(Session!vars)
  BY StepMoves DEF Moves
<1>2. QED
  BY <1>1, InitSession, Inductive, PTL DEF Spec, SessionRefinement, Session!Spec

-----------------------------------------------------------------------------
(* The server as main() uses it. *)

Serves == [Server!Next]_(Server!vars)

Serving == {w \in Workers : workerPc[w] # "idle"}

LEMMA GoneServes ==
    ASSUME ProcessGone
    PROVE  Serves
<1>1. Server!Gone
  BY DEF ProcessGone, Server!Gone
<1>2. QED
  BY <1>1 DEF Serves, Server!Next

(* From its start to mg_stop nothing else takes the server down. *)
RunInv ==
    mainPc \in {"launch", "schedule", "await", "announce", "stop", "disconnect", "stopHttp"}
        => http = "running"

LEMMA RunStep == RunInv /\ [Next]_vars => RunInv'
<1> SUFFICES ASSUME RunInv, [Next]_vars PROVE RunInv'
  OBVIOUS
<1>1. CASE Main
  BY <1>1
  DEF Main, LoadConfig, LoadConfigFails, Reset, StartHttpServer, StartHttpServerFails,
      Backoff, Launch, Schedule, WaitUntilRestartWindow, Announce, RequestStop,
      RequestStopDisconnects, StopHttpServer, Drained, JoinPoller, Rest, UnwindFuture,
      UnwindStopsHttp, UnwindApi, ProcessGone, MainGoes, RunInv
<1>2. CASE Poller
  BY <1>2
  DEF Poller, PollerGoes, StartLoop, OuterLoop, TryToConnectGivesUp, TryToConnect,
      Connected, TryToConnectReturns, InnerLoop, FetchData, FetchConfig, CheckedTransfer,
      TransferFails, DataArrives, ConfigArrives, HandleFetchedDataReturns, Nap, Retry,
      StartLoopReturns, LoopThrows, RunInv
<1>3. CASE \E w \in Workers : Worker(w)
  BY <1>3
  DEF Worker, WorkerGoes, Accept, RequestDropped, RequestRejected, request_handler,
      UpdateConfigSettings, CheckEnds, Reply, HandlerThrows, RunInv
<1>4. CASE Process
  BY <1>4 DEF Process, TerminateHandler, ProcessKilled, ContainerRestart, ProcessGone, RunInv
<1>5. CASE MainThrows \/ MainThrowsAndEnds \/ MidnightStrikes \/ UNCHANGED vars
  BY <1>5
  DEF MainThrows, MainThrowsAndEnds, MidnightStrikes, ProcessGone, threads, vars, RunInv
<1>6. QED
  BY <1>1, <1>2, <1>3, <1>4, <1>5 DEF Next

LEMMA RunInvariant == Spec => []RunInv
<1>1. Init => RunInv
  BY DEF Init, RunInv
<1>2. QED
  BY <1>1, RunStep, PTL DEF Spec

LEMMA MainServes ==
    ASSUME IInv, RunInv, Main
    PROVE  Serves
<1>1. ASSUME \/ LoadConfig \/ Reset \/ StartHttpServerFails \/ Backoff \/ Launch
             \/ Schedule \/ WaitUntilRestartWindow \/ Announce \/ RequestStop
             \/ RequestStopDisconnects \/ JoinPoller \/ Rest \/ UnwindFuture
      PROVE  Serves
  BY <1>1
  DEF LoadConfig, Reset, StartHttpServerFails, Backoff, Launch, Schedule,
      WaitUntilRestartWindow, Announce, RequestStop, RequestStopDisconnects, JoinPoller,
      Rest, UnwindFuture, MainGoes, Serves, Server!vars
<1>2. ASSUME LoadConfigFails \/ UnwindApi PROVE Serves
  BY <1>2, GoneServes DEF LoadConfigFails, UnwindApi
<1>3. ASSUME StartHttpServer PROVE Serves
  <2>1. http = "none"
    BY <1>3 DEF StartHttpServer, MainGoes, IInv, HttpInv, HttpScope, TypeOK
  <2>2. Server!Start
    BY <1>3, <2>1 DEF StartHttpServer, MainGoes, Server!Start
  <2>3. QED
    BY <2>2 DEF Serves, Server!Next
<1>4. ASSUME StopHttpServer \/ UnwindStopsHttp PROVE Serves
  <2>1. Server!Stop
    BY <1>4 DEF StopHttpServer, UnwindStopsHttp, MainGoes, RunInv, Server!Stop
  <2>2. QED
    BY <2>1 DEF Serves, Server!Next
<1>5. ASSUME Drained PROVE Serves
  <2>1. Serving = {} /\ http' = "none" /\ UNCHANGED workerPc
    BY <1>5 DEF Drained, WorkersJoined, MainGoes, Serving
  <2>2. Server!Gone
    BY <2>1 DEF Serving, Server!Gone
  <2>3. QED
    BY <2>2 DEF Serves, Server!Next
<1>6. QED
  BY <1>1, <1>2, <1>3, <1>4, <1>5 DEF Main

LEMMA WorkerServes ==
    ASSUME IInv, NEW w \in Workers, Worker(w)
    PROVE  Serves
<1>1. workerPc \in [Workers -> WorkerPcs] /\ http' = http
  BY DEF IInv, TypeOK, Worker, WorkerGoes, Accept, RequestDropped, RequestRejected,
         request_handler, UpdateConfigSettings, CheckEnds, Reply, HandlerThrows
<1>2. CASE Accept(w)
  <2>1. w \notin Serving /\ Serving' = Serving \cup {w}
    BY <1>1, <1>2 DEF Accept, WorkerGoes, Serving
  <2>2. Server!Begin(w)
    BY <1>1, <1>2, <2>1 DEF Accept, Serving, Server!Begin
  <2>3. QED
    BY <2>2 DEF Serves, Server!Next
<1>3. CASE RequestDropped(w) \/ Reply(w)
  <2>1. w \in Serving /\ Serving' = Serving \ {w}
    BY <1>1, <1>3 DEF RequestDropped, Reply, WorkerGoes, Serving
  <2>2. Server!End(w)
    BY <1>1, <2>1 DEF Serving, Server!End
  <2>3. QED
    BY <2>2 DEF Serves, Server!Next
<1>4. CASE \/ RequestRejected(w) \/ request_handler(w) \/ UpdateConfigSettings(w)
           \/ CheckEnds(w) \/ HandlerThrows(w)
  <2>1. Serving' = Serving
    BY <1>1, <1>4
    DEF RequestRejected, request_handler, UpdateConfigSettings, CheckEnds, HandlerThrows,
        WorkerGoes, Serving
  <2>2. QED
    BY <1>1, <2>1 DEF Serving, Serves, Server!vars
<1>5. QED
  BY <1>2, <1>3, <1>4 DEF Worker

LEMMA StepServes == IInv /\ RunInv /\ [Next]_vars => Serves
<1> SUFFICES ASSUME IInv, RunInv, [Next]_vars PROVE Serves
  OBVIOUS
<1>1. CASE Main
  BY <1>1, MainServes
<1>2. CASE \E w \in Workers : Worker(w)
  BY <1>2, WorkerServes
<1>3. CASE MainThrowsAndEnds \/ TerminateHandler \/ ProcessKilled
  BY <1>3, GoneServes DEF MainThrowsAndEnds, TerminateHandler, ProcessKilled
<1>4. CASE Poller
  BY <1>4
  DEF Poller, PollerGoes, StartLoop, OuterLoop, TryToConnectGivesUp, TryToConnect,
      Connected, TryToConnectReturns, InnerLoop, FetchData, FetchConfig, CheckedTransfer,
      TransferFails, DataArrives, ConfigArrives, HandleFetchedDataReturns, Nap, Retry,
      StartLoopReturns, LoopThrows, Serves, Server!vars
<1>5. CASE MainThrows \/ MidnightStrikes \/ ContainerRestart \/ UNCHANGED vars
  BY <1>5
  DEF MainThrows, MidnightStrikes, ContainerRestart, threads, vars, Serves, Server!vars
<1>6. QED
  BY <1>1, <1>2, <1>3, <1>4, <1>5 DEF Next, Process

(* main() and its requests keep to the server's promise, whichever way a     *)
(* cycle ends: the same promise WorkerPool is shown to keep.                 *)
THEOREM UsesServerAsPromised == Spec => HttpServerRefinement
<1>1. Init => Server!Init
  BY DEF Init, Server!Init
<1>2. IInv /\ RunInv /\ [Next]_vars => [Server!Next]_(Server!vars)
  BY StepServes DEF Serves
<1>3. QED
  BY <1>1, <1>2, Inductive, RunInvariant, PTL DEF Spec, HttpServerRefinement, Server!Spec

-----------------------------------------------------------------------------
(* A restart is a bounded amount of work.  Joining is main() waiting, in     *)
(* mg_stop for its workers and in piceaFuture.wait() for the poller.  The    *)
(* measure counts, for every thread, the steps it may still take before      *)
(* main() goes on; once the stop request is up the loops of the poller are   *)
(* no loops any more, and once the server stops no request is begun.         *)

Joining == mainPc \in {"drain", "join"}

MainLeft == CASE mainPc = "drain" -> 2 [] mainPc = "join" -> 1 [] OTHER -> 0

PollerLeft ==
    CASE pollPc = "getData" -> 9
      [] pollPc = "configCheck" -> 8
      [] pollPc = "getConfig" -> 7
      [] pollPc \in {"connect", "fetchCheck", "push"} -> 6
      [] pollPc \in {"tryReturn", "nap"} -> 5
      [] pollPc \in {"tryCheck", "inner"} -> 4
      [] pollPc = "retry" -> 3
      [] pollPc = "outer" -> 2
      [] pollPc = "exit" -> 1
      [] OTHER -> 0

Handling(pcs) == {w \in Workers \ terminating : workerPc[w] \in pcs}

(* A request has a last step to take, one that is not being answered yet     *)
(* another, and so on up to the one that has just been accepted.             *)
WorkersLeft ==
    Cardinality(Handling({"request", "check", "post", "reply"}))
        + Cardinality(Handling({"request", "check", "post"}))
        + Cardinality(Handling({"request", "check"}))
        + Cardinality(Handling({"request"}))

JoinRank == MainLeft + PollerLeft + WorkersLeft

MostJoinSteps == 11 + 4 * Cardinality(Workers)

PollerWindsUp == StopPhase => /\ Poller => PollerLeft' < PollerLeft
                              /\ PollerLeft' <= PollerLeft

JoinCounts ==
    Joining => /\ Main \/ MainThrows \/ Poller \/ (\E w \in Workers : Worker(w))
                     => JoinRank' < JoinRank
               /\ JoinRank' <= JoinRank

DrainInv == mainPc = "drain" => http = "stopping"

LEMMA Fewer ==
    ASSUME NEW S \in SUBSET Workers, NEW T \in SUBSET S
    PROVE  /\ Cardinality(S) \in Nat /\ Cardinality(T) \in Nat
           /\ Cardinality(T) <= Cardinality(S)
           /\ T # S => Cardinality(T) < Cardinality(S)
<1>1. IsFiniteSet(S) /\ Cardinality(S) \in Nat
  BY WorkerSubsets
<1>2. /\ IsFiniteSet(T) /\ Cardinality(T) \in Nat
      /\ Cardinality(T) <= Cardinality(S)
      /\ Cardinality(T) = Cardinality(S) => T = S
  BY <1>1, FS_Subset, FS_CardinalityType
<1>3. QED
  BY <1>1, <1>2

LEMMA HandlingType ==
    ASSUME NEW pcs
    PROVE  Handling(pcs) \in SUBSET Workers /\ Handling(pcs)' \in SUBSET Workers
BY DEF Handling

LEMMA HandlingCount ==
    ASSUME NEW pcs
    PROVE  /\ Cardinality(Handling(pcs)) \in Nat
           /\ Cardinality(Handling(pcs)') \in Nat
           /\ Cardinality(Handling(pcs)) <= Cardinality(Workers)
BY HandlingType, WorkerSubsets, Fewer

LEMMA MostLeft == JoinRank \in 0..MostJoinSteps
<1>1. MainLeft \in 0..2
  BY DEF MainLeft
<1>2. PollerLeft \in 0..9
  BY DEF PollerLeft
<1>3. Cardinality(Workers) \in Nat
  BY WorkersAssumption, FS_CardinalityType
<1> DEFINE C(pcs) == Cardinality(Handling(pcs))
<1>4. ASSUME NEW pcs PROVE C(pcs) \in Nat /\ C(pcs) <= Cardinality(Workers)
  BY HandlingCount
<1> HIDE DEF C
<1>5. WorkersLeft = C({"request", "check", "post", "reply"}) + C({"request", "check", "post"})
                        + C({"request", "check"}) + C({"request"})
  BY DEF C, WorkersLeft
<1>6. WorkersLeft \in Nat /\ WorkersLeft <= 4 * Cardinality(Workers)
  BY <1>3, <1>4, <1>5
<1>7. QED
  BY <1>1, <1>2, <1>3, <1>6 DEF JoinRank, MostJoinSteps

LEMMA LeftType == TypeOK => MainLeft \in Nat /\ PollerLeft \in Nat /\ WorkersLeft \in Nat
<1>1. MainLeft \in Nat /\ PollerLeft \in Nat
  BY DEF MainLeft, PollerLeft
<1>2. WorkersLeft \in Nat
  BY HandlingCount DEF WorkersLeft
<1>3. QED
  BY <1>1, <1>2

LEMMA LeftTypeNext ==
    TypeOK' => MainLeft' \in Nat /\ PollerLeft' \in Nat /\ WorkersLeft' \in Nat
<1>1. MainLeft' \in Nat /\ PollerLeft' \in Nat
  BY DEF MainLeft, PollerLeft
<1>2. WorkersLeft' \in Nat
  BY HandlingCount DEF WorkersLeft
<1>3. QED
  BY <1>1, <1>2

(* Every pass through the poller's code under a stop request leads out.      *)
LEMMA PollerCounts ==
    ASSUME Poller, g_stopRequested, pollPc # "start"
    PROVE  PollerLeft' < PollerLeft
<1> DEFINE Moved(from, to) == pollPc = from /\ pollPc' \in to
<1>1. \/ Moved("outer", {"exit"}) \/ Moved("tryCheck", {"retry"})
      \/ Moved("connect", {"tryReturn"}) \/ Moved("tryReturn", {"inner", "retry"})
      \/ Moved("inner", {"retry"}) \/ Moved("fetchCheck", {"nap"})
      \/ Moved("getData", {"configCheck", "nap"}) \/ Moved("configCheck", {"nap"})
      \/ Moved("getConfig", {"push", "nap"}) \/ Moved("push", {"nap"})
      \/ Moved("nap", {"inner"}) \/ Moved("retry", {"outer"}) \/ Moved("exit", {"done"})
      \/ /\ pollPc' = "done"
         /\ pollPc \in {"tryCheck", "connect", "getData", "getConfig", "push", "nap",
                        "retry", "exit"}
  BY DEF Poller, PollerGoes, StartLoop, OuterLoop, KeepRunning, TryToConnectGivesUp,
         TryToConnect, Connected, TryToConnectReturns, InnerLoop, FetchData, FetchConfig,
         CheckedTransfer, TransferFails, DataArrives, ConfigArrives,
         HandleFetchedDataReturns, Nap, Retry, StartLoopReturns, LoopThrows
<1>2. QED
  BY <1>1 DEF PollerLeft

LEMMA PollerLeavesWorkers ==
    ASSUME Poller
    PROVE  UNCHANGED <<mainPc, workerPc, terminating>>
BY DEF Poller, PollerGoes, StartLoop, OuterLoop, TryToConnectGivesUp, TryToConnect,
       Connected, TryToConnectReturns, InnerLoop, FetchData, FetchConfig,
       CheckedTransfer, TransferFails, DataArrives, ConfigArrives,
       HandleFetchedDataReturns, Nap, Retry, StartLoopReturns, LoopThrows

LEMMA SameWorkersLeft ==
    ASSUME UNCHANGED <<workerPc, terminating>>
    PROVE  WorkersLeft' = WorkersLeft
BY DEF WorkersLeft, Handling

(* A worker that may not accept any more only leaves the sets it is counted  *)
(* in, and leaves at least one of them.                                      *)
LEMMA WorkerCounts ==
    ASSUME IInv, NEW w \in Workers, Worker(w), http # "running"
    PROVE  WorkersLeft' < WorkersLeft
<1> DEFINE
      S1 == {"request", "check", "post", "reply"}
      S2 == {"request", "check", "post"}
      S3 == {"request", "check"}
      S4 == {"request"}
<1>1. workerPc \in [Workers -> WorkerPcs]
  BY DEF IInv, TypeOK
<1>2. /\ w \notin terminating /\ terminating \subseteq terminating'
      /\ \A v \in Workers \ {w} : workerPc'[v] = workerPc[v]
      /\ \/ w \in terminating' /\ workerPc[w] \in S2
         \/ workerPc[w] \in S4 /\ workerPc'[w] \notin S4
         \/ workerPc[w] \in S3 /\ workerPc'[w] \notin S3
         \/ workerPc[w] \in S2 /\ workerPc'[w] \notin S2
         \/ workerPc[w] \in S1 /\ workerPc'[w] \notin S1
      /\ \/ w \in terminating'
         \/ /\ workerPc[w] \notin S1 => workerPc'[w] \notin S1
            /\ workerPc[w] \notin S2 => workerPc'[w] \notin S2
            /\ workerPc[w] \notin S3 => workerPc'[w] \notin S3
            /\ workerPc[w] \notin S4 => workerPc'[w] \notin S4
  BY <1>1
  DEF Worker, WorkerGoes, Accept, RequestDropped, RequestRejected, request_handler,
      UpdateConfigSettings, CheckEnds, Reply, HandlerThrows
<1>3. /\ Handling(S1)' \in SUBSET Handling(S1)
      /\ Handling(S2)' \in SUBSET Handling(S2)
      /\ Handling(S3)' \in SUBSET Handling(S3)
      /\ Handling(S4)' \in SUBSET Handling(S4)
  BY <1>2 DEF Handling
<1>4. \/ Handling(S1)' # Handling(S1) \/ Handling(S2)' # Handling(S2)
      \/ Handling(S3)' # Handling(S3) \/ Handling(S4)' # Handling(S4)
  BY <1>2 DEF Handling
<1> DEFINE C(S) == Cardinality(Handling(S))
           D(S) == Cardinality(Handling(S)')
<1>5. ASSUME NEW S, Handling(S)' \in SUBSET Handling(S)
      PROVE  /\ C(S) \in Nat /\ D(S) \in Nat /\ D(S) <= C(S)
             /\ Handling(S)' # Handling(S) => D(S) < C(S)
  BY <1>5, HandlingType, Fewer
<1> HIDE DEF C, D, S1, S2, S3, S4
<1>6. /\ C(S1) \in Nat /\ C(S2) \in Nat /\ C(S3) \in Nat /\ C(S4) \in Nat
      /\ D(S1) \in Nat /\ D(S2) \in Nat /\ D(S3) \in Nat /\ D(S4) \in Nat
      /\ D(S1) <= C(S1) /\ D(S2) <= C(S2) /\ D(S3) <= C(S3) /\ D(S4) <= C(S4)
      /\ D(S1) < C(S1) \/ D(S2) < C(S2) \/ D(S3) < C(S3) \/ D(S4) < C(S4)
  BY <1>3, <1>4, <1>5
<1>7. /\ WorkersLeft = C(S1) + C(S2) + C(S3) + C(S4)
      /\ WorkersLeft' = D(S1) + D(S2) + D(S3) + D(S4)
  BY DEF WorkersLeft, C, D, S1, S2, S3, S4
<1>8. QED
  BY <1>6, <1>7

LEMMA GoneCounts ==
    ASSUME ProcessGone
    PROVE  MainLeft' = 0 /\ PollerLeft' = 0 /\ WorkersLeft' = 0
<1>1. MainLeft' = 0 /\ PollerLeft' = 0
  BY DEF ProcessGone, MainLeft, PollerLeft
<1>2. /\ Handling({"request", "check", "post", "reply"})' = {}
      /\ Handling({"request", "check", "post"})' = {}
      /\ Handling({"request", "check"})' = {}
      /\ Handling({"request"})' = {}
  BY DEF ProcessGone, Handling
<1>3. WorkersLeft' = 0
  BY <1>2, FS_EmptySet DEF WorkersLeft
<1>4. QED
  BY <1>1, <1>3

LEMMA DrainStep ==
    ASSUME IInv, DrainInv, [Next]_vars
    PROVE  DrainInv'
<1>1. CASE Main
  BY <1>1
  DEF Main, LoadConfig, LoadConfigFails, Reset, StartHttpServer, StartHttpServerFails,
      Backoff, Launch, Schedule, WaitUntilRestartWindow, Announce, RequestStop,
      RequestStopDisconnects, StopHttpServer, Drained, JoinPoller, Rest, UnwindFuture,
      UnwindStopsHttp, UnwindApi, ProcessGone, MainGoes, DrainInv
<1>2. CASE Poller
  BY <1>2
  DEF Poller, PollerGoes, StartLoop, OuterLoop, TryToConnectGivesUp, TryToConnect,
      Connected, TryToConnectReturns, InnerLoop, FetchData, FetchConfig, CheckedTransfer,
      TransferFails, DataArrives, ConfigArrives, HandleFetchedDataReturns, Nap, Retry,
      StartLoopReturns, LoopThrows, DrainInv
<1>3. CASE \E w \in Workers : Worker(w)
  BY <1>3
  DEF Worker, WorkerGoes, Accept, RequestDropped, RequestRejected, request_handler,
      UpdateConfigSettings, CheckEnds, Reply, HandlerThrows, DrainInv
<1>4. CASE MainThrows \/ MainThrowsAndEnds \/ MidnightStrikes \/ Process \/ UNCHANGED vars
  BY <1>4
  DEF MainThrows, MainThrowsAndEnds, MidnightStrikes, Process, TerminateHandler,
      ProcessKilled, ContainerRestart, ProcessGone, threads, vars, DrainInv
<1>5. QED
  BY <1>1, <1>2, <1>3, <1>4 DEF Next

LEMMA WindsUpStep ==
    ASSUME IInv, StopInv, [Next]_vars
    PROVE  PollerWindsUp
<1> SUFFICES ASSUME StopPhase
             PROVE  (Poller => PollerLeft' < PollerLeft) /\ PollerLeft' <= PollerLeft
  BY DEF PollerWindsUp
<1>0. TypeOK /\ TypeOK'
  BY StepPreserves DEF IInv
<1>1. g_stopRequested /\ pollPc # "start"
  BY DEF StopInv
<1>2. Poller => PollerLeft' < PollerLeft
  BY <1>1, PollerCounts
<1>3. UNCHANGED pollPc => PollerLeft' <= PollerLeft
  <2>1. UNCHANGED pollPc => PollerLeft' = PollerLeft
    BY DEF PollerLeft
  <2>2. QED
    BY <2>1, LeftType, LeftTypeNext, <1>0
<1>4. \/ UNCHANGED pollPc \/ ProcessGone \/ Poller
  BY WorkerLeavesFlags
  DEF Next, Main, LoadConfig, LoadConfigFails, Reset, StartHttpServer,
      StartHttpServerFails, Backoff, Launch, Schedule, WaitUntilRestartWindow, Announce,
      RequestStop, RequestStopDisconnects, StopHttpServer, Drained, JoinPoller, Rest,
      UnwindFuture, UnwindStopsHttp, UnwindApi, MainGoes, MainThrows, MainThrowsAndEnds,
      MidnightStrikes, Process, TerminateHandler, ProcessKilled, ContainerRestart,
      StopPhase, threads, vars
<1>5. QED
  BY <1>2, <1>3, <1>4, GoneCounts, LeftType, LeftTypeNext, <1>0

LEMMA JoinStep ==
    ASSUME IInv, StopInv, DrainInv, [Next]_vars
    PROVE  JoinCounts
<1> SUFFICES ASSUME Joining
             PROVE  /\ Main \/ MainThrows \/ Poller \/ (\E w \in Workers : Worker(w))
                          => JoinRank' < JoinRank
                    /\ JoinRank' <= JoinRank
  BY DEF JoinCounts
<1>0. TypeOK /\ TypeOK'
  BY StepPreserves DEF IInv
<1>1. StopPhase /\ http # "running"
  BY DEF Joining, StopPhase, DrainInv, IInv, HttpInv, HttpScope
<1>2. JoinRank \in Nat /\ JoinRank' \in Nat
  BY LeftType, LeftTypeNext, <1>0 DEF JoinRank
<1>3. ASSUME MainLeft' < MainLeft, UNCHANGED <<pollPc, workerPc, terminating>>
      PROVE  JoinRank' < JoinRank
  <2>1. PollerLeft' = PollerLeft
    BY <1>3 DEF PollerLeft
  <2>2. WorkersLeft' = WorkersLeft
    BY <1>3, SameWorkersLeft
  <2>3. QED
    BY <1>3, <2>1, <2>2, LeftType, LeftTypeNext, <1>0 DEF JoinRank
<1>4. ASSUME Main PROVE JoinRank' < JoinRank
  <2>1. Drained \/ JoinPoller
    BY <1>4
    DEF Joining, Main, LoadConfig, LoadConfigFails, Reset, StartHttpServer,
        StartHttpServerFails, Backoff, Launch, Schedule, WaitUntilRestartWindow, Announce,
        RequestStop, RequestStopDisconnects, StopHttpServer, Rest, UnwindFuture,
        UnwindStopsHttp, UnwindApi, MainGoes
  <2>2. MainLeft' < MainLeft /\ UNCHANGED <<pollPc, workerPc, terminating>>
    BY <2>1 DEF Drained, JoinPoller, MainGoes, MainLeft
  <2>3. QED
    BY <1>3, <2>2
<1>5. ASSUME MainThrows PROVE JoinRank' < JoinRank
  <2>1. MainLeft' < MainLeft /\ UNCHANGED <<pollPc, workerPc, terminating>>
    BY <1>5 DEF Joining, MainThrows, FutureAlive, ApiAlive, MainLeft
  <2>2. QED
    BY <1>3, <2>1
<1>6. ASSUME Poller PROVE JoinRank' < JoinRank
  <2>1. PollerLeft' < PollerLeft
    BY <1>1, <1>6, PollerCounts DEF StopInv
  <2>2. UNCHANGED <<mainPc, workerPc, terminating>>
    BY <1>6, PollerLeavesWorkers
  <2>3. MainLeft' = MainLeft
    BY <2>2 DEF MainLeft
  <2>4. WorkersLeft' = WorkersLeft
    BY <2>2, SameWorkersLeft
  <2>5. QED
    BY <2>1, <2>3, <2>4, LeftType, LeftTypeNext, <1>0 DEF JoinRank
<1>7. ASSUME NEW w \in Workers, Worker(w) PROVE JoinRank' < JoinRank
  <2>1. WorkersLeft' < WorkersLeft
    BY <1>1, <1>7, WorkerCounts
  <2>2. UNCHANGED <<mainPc, pollPc>>
    BY <1>7, WorkerLeavesFlags
  <2>3. MainLeft' = MainLeft /\ PollerLeft' = PollerLeft
    BY <2>2 DEF MainLeft, PollerLeft
  <2>4. QED
    BY <2>1, <2>3, LeftType, LeftTypeNext, <1>0 DEF JoinRank
<1>8. ASSUME ProcessGone PROVE JoinRank' <= JoinRank
  BY <1>2, <1>8, GoneCounts DEF JoinRank
<1>9. ASSUME UNCHANGED vars PROVE JoinRank' <= JoinRank
  <2>1. JoinRank' = JoinRank
    BY <1>9, SameWorkersLeft DEF vars, JoinRank, MainLeft, PollerLeft
  <2>2. QED
    BY <1>2, <2>1
<1>10. ~MidnightStrikes /\ ~ContainerRestart
  BY DEF Joining, MidnightStrikes, ContainerRestart
<1>11. QED
  BY <1>2, <1>4, <1>5, <1>6, <1>7, <1>8, <1>9, <1>10
  DEF Next, MainThrowsAndEnds, Process, TerminateHandler, ProcessKilled

(* Provided the poller had begun when midnight struck, a poller that has     *)
(* been asked to stop takes at most nine more steps, and a main() that waits *)
(* for its workers and its poller waits for at most MostJoinSteps steps of   *)
(* all the threads together: what RestartCompletes needs besides fairness.   *)
THEOREM RestartIsBounded ==
    ASSUME EarlyMidnight = FALSE
    PROVE  Spec => /\ [](JoinRank \in 0..MostJoinSteps)
                   /\ [][PollerWindsUp]_vars
                   /\ [][JoinCounts]_vars
<1>1. JoinRank \in 0..MostJoinSteps
  BY MostLeft
<1>2. Init => DrainInv
  BY DEF Init, DrainInv
<1>3. IInv /\ DrainInv /\ [Next]_vars => DrainInv'
  BY DrainStep
<1>4. IInv /\ StopInv /\ [Next]_vars => [PollerWindsUp]_vars
  BY WindsUpStep
<1>5. IInv /\ StopInv /\ DrainInv /\ [Next]_vars => [JoinCounts]_vars
  BY JoinStep
<1>6. QED
  BY <1>1, <1>2, <1>3, <1>4, <1>5, StopInvariant, Inductive, PTL DEF Spec

=============================================================================
