----------------------------- MODULE WorkerPool -----------------------------
(***************************************************************************)
(* The threads of the embedded HTTP server (civetweb.c, built without SSL  *)
(* and with the connection queue): the thread that calls mg_start and      *)
(* mg_stop, the master thread that accepts connections and puts them into  *)
(* a ring of sq_size slots, and worker threads, started one at a time when *)
(* the master finds too few idle, that take them out and serve them.       *)
(*                                                                         *)
(* A step is one critical section of ctx->thread_mutex, or the code        *)
(* between two accesses to what the mutex does not guard (stop_flag).      *)
(* pthread_cond_wait releases the mutex; a signal moves one sleeper to     *)
(* where it wants the mutex back.  A worker serves one request of a        *)
(* connection and closes it: enable_keep_alive is "no" by default.         *)
(***************************************************************************)
EXTENDS Integers, Sequences, FiniteSets

CONSTANTS
    MaxConns,       \* bound: connections that clients make
    MaxWorkers,     \* cfg_max_worker_threads (num_threads)
    QueueSize,      \* sq_size (connection_queue)
    Faults          \* what may go wrong: see FaultKinds

(* "thread": a worker thread cannot be created; "memory": a worker cannot   *)
(* allocate its request buffer; "master": the master thread cannot be       *)
(* created; "spurious": pthread_cond_wait returns without a signal.         *)
FaultKinds == {"thread", "memory", "master", "spurious"}

ASSUME ConnsAssumption == MaxConns \in Nat
ASSUME MaxWorkersAssumption == MaxWorkers \in Nat
ASSUME QueueSizeAssumption == QueueSize \in Nat \ {0}
ASSUME FaultsAssumption == Faults \subseteq FaultKinds

Workers == 1..MaxWorkers

(* Connections are numbered in the order in which they are made. *)
Conns == 1..MaxConns
NoConn == 0

VARIABLES
    app,            \* the thread of mg_start and mg_stop
    masterPc, workerPc,
    bound,          \* the port is bound: a listening socket exists
    stop_flag,      \* 0 run, 1 stop, 2 the master is done
    squeue, sq_head, sq_tail,
    idle,           \* idle_worker_thread_count
    spawned,        \* spawned_worker_threads
    held,           \* the socket the master has accepted and not yet queued
    client,         \* the socket of each worker's connection
    conn,           \* each connection as the server's process has it
    shortfall       \* history: a thread was refused, or gave up, in this server

context == <<squeue, sq_head, sq_tail, idle, spawned>>
vars == <<app, masterPc, workerPc, bound, stop_flag, squeue, sq_head, sq_tail, idle,
          spawned, held, client, conn, shortfall>>

-----------------------------------------------------------------------------

AppPcs == {"down", "up", "wait", "free"}

MasterPcs == {"none", "poll", "accept", "produce", "full", "fullWoken", "spawn",
              "create", "closing", "broadcast", "join", "done"}

WorkerPcs == {"none", "first", "again", "asleep", "woken", "took", "busy", "gone"}

(* "new": not made; "backlog": made, not accepted; "open": accepted, its     *)
(* descriptor is open; "closed"; "refused": reset with the listening socket. *)
ConnStates == {"new", "backlog", "open", "closed", "refused"}

Fill == sq_head - sq_tail

(* The queue as a sequence, oldest connection first. *)
Queue == [i \in 1..Fill |-> squeue[(sq_tail + i - 1) % QueueSize]]

Asleep == {w \in Workers : workerPc[w] = "asleep"}

Running == {w \in Workers : workerPc[w] \notin {"none", "gone"}}

TypeOK ==
    /\ app \in AppPcs
    /\ masterPc \in MasterPcs
    /\ workerPc \in [Workers -> WorkerPcs]
    /\ bound \in BOOLEAN
    /\ stop_flag \in 0..2
    /\ squeue \in [0..(QueueSize - 1) -> Conns \cup {NoConn}]
    /\ sq_tail \in 0..QueueSize
    /\ sq_head \in sq_tail..(sq_tail + QueueSize)
    /\ idle \in 0..MaxWorkers
    /\ spawned \in 0..MaxWorkers
    /\ held \in Conns \cup {NoConn}
    /\ client \in [Workers -> Conns \cup {NoConn}]
    /\ conn \in [Conns -> ConnStates]
    /\ shortfall \in BOOLEAN

Init ==
    /\ app = "down"
    /\ masterPc = "none"
    /\ workerPc = [w \in Workers |-> "none"]
    /\ bound = FALSE
    /\ stop_flag = 0
    /\ squeue = [i \in 0..(QueueSize - 1) |-> NoConn]
    /\ sq_head = 0 /\ sq_tail = 0
    /\ idle = 0
    /\ spawned = 0
    /\ held = NoConn
    /\ client = [w \in Workers |-> NoConn]
    /\ conn = [c \in Conns |-> "new"]
    /\ shortfall = FALSE

-----------------------------------------------------------------------------
(* The clients *)

Connect(c) ==
    /\ bound
    /\ conn[c] = "new"
    /\ \A d \in 1..(c - 1) : conn[d] # "new"
    /\ conn' = [conn EXCEPT ![c] = "backlog"]
    /\ UNCHANGED <<app, masterPc, workerPc, bound, stop_flag, context, held, client, shortfall>>

-----------------------------------------------------------------------------
(* mg_start and mg_stop *)

(* A fresh context, the port bound, no worker (prespawn_threads is 0); the   *)
(* result of creating the master thread is not looked at.                   *)
mg_start ==
    /\ app = "down"
    /\ ~bound
    /\ app' = "up"
    /\ bound' = TRUE
    /\ \/ masterPc' = "poll"
       \/ "master" \in Faults /\ masterPc' = "none"
    /\ workerPc' = [w \in Workers |-> "none"]
    /\ stop_flag' = 0
    /\ squeue' = [i \in 0..(QueueSize - 1) |-> NoConn]
    /\ sq_head' = 0 /\ sq_tail' = 0
    /\ idle' = 0
    /\ spawned' = 0
    /\ client' = [w \in Workers |-> NoConn]
    /\ shortfall' = FALSE
    /\ UNCHANGED <<held, conn>>

(* "We don't use a lock here": the flag is raised and nobody is signalled;   *)
(* only the master's poll notices, through the socket closed with it.       *)
mg_stop ==
    /\ app = "up"
    /\ masterPc # "none"
    /\ stop_flag' = 1
    /\ app' = "wait"
    /\ UNCHANGED <<masterPc, workerPc, bound, context, held, client, conn, shortfall>>

(* "Failed to setup server ports": the context is freed again. *)
mg_start_fails ==
    /\ app = "down"
    /\ bound
    /\ UNCHANGED vars

(* masterthreadid is 0: nothing is stopped and nothing is freed. *)
mg_stop_returns ==
    /\ app = "up"
    /\ masterPc = "none"
    /\ app' = "down"
    /\ UNCHANGED <<masterPc, workerPc, bound, stop_flag, context, held, client, conn, shortfall>>

StopSeen ==
    /\ app = "wait"
    /\ stop_flag = 2
    /\ app' = "free"
    /\ UNCHANGED <<masterPc, workerPc, bound, stop_flag, context, held, client, conn, shortfall>>

(* mg_join_thread(mt); free_context(ctx) *)
free_context ==
    /\ app = "free"
    /\ masterPc = "done"
    /\ app' = "down"
    /\ masterPc' = "none"
    /\ sq_tail' = 0 /\ sq_head' = 0
    /\ UNCHANGED <<workerPc, bound, stop_flag, squeue, idle, spawned, held, client, conn,
                   shortfall>>

App == mg_start \/ mg_start_fails \/ mg_stop \/ mg_stop_returns \/ StopSeen \/ free_context

-----------------------------------------------------------------------------
(* The master thread *)

MasterGoes(from, to) ==
    /\ masterPc = from
    /\ masterPc' = to
    /\ UNCHANGED <<app, client>>

(* The accept loop looks at the stop flag before it polls and again before   *)
(* it accepts; a poll that mg_stop cuts short leads to "closing".            *)
Poll ==
    /\ \/ /\ stop_flag = 0
          /\ \E c \in Conns : conn[c] = "backlog"
          /\ MasterGoes("poll", "accept")
       \/ stop_flag # 0 /\ MasterGoes("poll", "closing")
    /\ UNCHANGED <<workerPc, bound, stop_flag, context, held, conn, shortfall>>

accept_new_connection ==
    /\ MasterGoes("accept", "produce")
    /\ \E c \in Conns :
        /\ conn[c] = "backlog"
        /\ \A d \in 1..(c - 1) : conn[d] # "backlog"
        /\ held' = c
        /\ conn' = [conn EXCEPT ![c] = "open"]
    /\ UNCHANGED <<workerPc, bound, stop_flag, context, shortfall>>

(* Mutant: one connection more than the ring has slots is let in. *)
RingFullLate == Fill > QueueSize

RingFull == Fill >= QueueSize

(* The ring is full: wait for sq_empty. *)
WaitNotFull ==
    /\ masterPc \in {"produce", "fullWoken"}
    /\ stop_flag = 0
    /\ RingFull
    /\ masterPc' = "full"
    /\ UNCHANGED <<app, client, workerPc, bound, stop_flag, context, held, conn, shortfall>>

(* Mutant: a worker is signalled only when the queue had been empty. *)
SignalWorkerIfEmpty ==
    \/ Asleep = {} /\ UNCHANGED workerPc
    \/ sq_head # sq_tail /\ UNCHANGED workerPc
    \/ /\ sq_head = sq_tail
       /\ \E w \in Asleep : workerPc' = [workerPc EXCEPT ![w] = "woken"]

(* pthread_cond_signal(&ctx->sq_full) *)
SignalWorker ==
    \/ Asleep = {} /\ UNCHANGED workerPc
    \/ \E w \in Asleep : workerPc' = [workerPc EXCEPT ![w] = "woken"]

(* Mutant: the slot after the last one is written. *)
EnqueueNext ==
    /\ squeue' = [squeue EXCEPT ![(sq_head + 1) % QueueSize] = held]
    /\ sq_head' = sq_head + 1

Enqueue ==
    /\ squeue' = [squeue EXCEPT ![sq_head % QueueSize] = held]
    /\ sq_head' = sq_head + 1

(* If the server is stopping and the ring is full the socket is forgotten. *)
produce_socket ==
    /\ masterPc \in {"produce", "fullWoken"}
    /\ stop_flag # 0 \/ ~RingFull
    /\ masterPc' = "spawn"
    /\ \/ ~RingFull /\ Enqueue
       \/ RingFull /\ UNCHANGED <<squeue, sq_head>>
    /\ SignalWorker
    /\ held' = NoConn
    /\ UNCHANGED <<app, client, bound, stop_flag, sq_tail, idle, spawned, conn, shortfall>>

(* Mutant: any idle worker will do, as in the other queue. *)
EnoughIdleAny == idle > 0

(* Idle workers that somebody in the queue is not already counting on. *)
EnoughIdle == idle > Fill

(* mg_start_worker_thread(ctx, 1), first half: no slot left, or idle enough, *)
(* or one more worker is counted as idle before it exists.                  *)
mg_start_worker_thread ==
    /\ \/ /\ spawned >= MaxWorkers \/ EnoughIdle
          /\ MasterGoes("spawn", "poll")
          /\ UNCHANGED idle
       \/ /\ ~(spawned >= MaxWorkers \/ EnoughIdle)
          /\ MasterGoes("spawn", "create")
          /\ idle' = idle + 1
    /\ UNCHANGED <<workerPc, bound, stop_flag, squeue, sq_head, sq_tail, spawned, held,
                   conn, shortfall>>

WorkerCreated ==
    /\ MasterGoes("create", "poll")
    /\ spawned' = spawned + 1
    /\ workerPc' = [workerPc EXCEPT ![spawned + 1] = "first"]
    /\ UNCHANGED <<bound, stop_flag, squeue, sq_head, sq_tail, idle, held, conn, shortfall>>

(* pthread_create fails: "whoops, roll-back on error". *)
WorkerNotCreated ==
    /\ "thread" \in Faults
    /\ MasterGoes("create", "poll")
    /\ idle' = idle - 1
    /\ shortfall' = TRUE
    /\ UNCHANGED <<workerPc, bound, stop_flag, squeue, sq_head, sq_tail, spawned, held, conn>>

(* Whoever had connected and was not accepted is reset. *)
close_all_listening_sockets ==
    /\ MasterGoes("closing", "broadcast")
    /\ bound' = FALSE
    /\ conn' = [c \in Conns |-> IF conn[c] = "backlog" THEN "refused" ELSE conn[c]]
    /\ UNCHANGED <<workerPc, stop_flag, context, held, shortfall>>

(* Mutant: one worker is woken instead of all. *)
WakeOne == SignalWorker

WakeAll == workerPc' = [w \in Workers |-> IF w \in Asleep THEN "woken" ELSE workerPc[w]]

Broadcast ==
    /\ MasterGoes("broadcast", "join")
    /\ WakeAll
    /\ UNCHANGED <<bound, stop_flag, context, held, conn, shortfall>>

(* Mutant: a worker that is not yet past its first look is not waited for. *)
AllJoinedButNew == \A w \in 1..spawned : workerPc[w] \in {"gone", "first"}

AllJoined == \A w \in 1..spawned : workerPc[w] = "gone"

(* Every spawned worker is joined, then the flag is set to 2. *)
MasterReturns ==
    /\ MasterGoes("join", "done")
    /\ AllJoined
    /\ stop_flag' = 2
    /\ UNCHANGED <<workerPc, bound, context, held, conn, shortfall>>

SpuriousMaster ==
    /\ "spurious" \in Faults
    /\ MasterGoes("full", "fullWoken")
    /\ UNCHANGED <<workerPc, bound, stop_flag, context, held, conn, shortfall>>

Master ==
    \/ Poll \/ accept_new_connection \/ WaitNotFull \/ produce_socket
    \/ mg_start_worker_thread \/ WorkerCreated \/ WorkerNotCreated
    \/ close_all_listening_sockets \/ Broadcast \/ MasterReturns

-----------------------------------------------------------------------------
(* The workers *)

WorkerGoes(w, from, to) ==
    /\ workerPc[w] = from
    /\ workerPc' = [workerPc EXCEPT ![w] = to]
    /\ UNCHANGED <<app, bound, stop_flag, spawned, held>>

(* The request buffer or the connection's mutex cannot be had: the thread    *)
(* returns and remains counted as idle.                                     *)
WorkerGivesUp(w) ==
    /\ "memory" \in Faults
    /\ WorkerGoes(w, "first", "gone")
    /\ shortfall' = TRUE
    /\ UNCHANGED <<masterPc, squeue, sq_head, sq_tail, idle, client, conn>>

(* The first look at the queue was counted by the master in advance. *)
CountedIdle(w) == idle + (IF workerPc[w] = "again" THEN 1 ELSE 0)

WantsMutex == {"first", "again", "woken"}

(* consume_socket on an empty queue: wait for sq_full. *)
WaitNotEmpty(w) ==
    /\ sq_head = sq_tail
    /\ stop_flag = 0
    /\ \E pc \in WantsMutex : WorkerGoes(w, pc, "asleep")
    /\ idle' = CountedIdle(w)
    /\ UNCHANGED <<masterPc, squeue, sq_head, sq_tail, client, conn, shortfall>>

(* "Wrap pointers if needed" *)
Wound == IF sq_tail + 1 > QueueSize THEN QueueSize ELSE 0

(* Mutant: the tail is wound back and the head is not. *)
DequeueTailOnly(w) ==
    /\ client' = [client EXCEPT ![w] = squeue[sq_tail % QueueSize]]
    /\ sq_tail' = sq_tail + 1 - Wound
    /\ sq_head' = sq_head

Dequeue(w) ==
    /\ client' = [client EXCEPT ![w] = squeue[sq_tail % QueueSize]]
    /\ sq_tail' = sq_tail + 1 - Wound
    /\ sq_head' = sq_head - Wound

(* Mutant: the room that was made is not announced. *)
SignalMasterNever == masterPc' = masterPc

(* pthread_cond_signal(&ctx->sq_empty): the master is the only one to wait. *)
SignalMaster == masterPc' = IF masterPc = "full" THEN "fullWoken" ELSE masterPc

(* A socket is there, or the server stops. *)
consume_socket(w) ==
    /\ ~(sq_head = sq_tail /\ stop_flag = 0)
    /\ \E pc \in WantsMutex : WorkerGoes(w, pc, "took")
    /\ \/ sq_head > sq_tail /\ Dequeue(w)
       \/ sq_head = sq_tail /\ UNCHANGED <<client, sq_head, sq_tail>>
    /\ SignalMaster
    /\ idle' = CountedIdle(w) - 1
    /\ UNCHANGED <<squeue, conn, shortfall>>

(* Mutant: the worker serves what it has taken, stop or no stop. *)
ServeOrLeaveAnyway(w) ==
    /\ \/ client[w] # NoConn /\ WorkerGoes(w, "took", "busy")
       \/ client[w] = NoConn /\ WorkerGoes(w, "took", "gone")
    /\ UNCHANGED <<masterPc, squeue, sq_head, sq_tail, idle, client, conn, shortfall>>

(* "return STOP_FLAG_IS_ZERO(&ctx->stop_flag)", after the unlock. *)
ServeOrLeave(w) ==
    /\ \/ stop_flag = 0 /\ WorkerGoes(w, "took", "busy")
       \/ stop_flag # 0 /\ WorkerGoes(w, "took", "gone")
    /\ UNCHANGED <<masterPc, squeue, sq_head, sq_tail, idle, client, conn, shortfall>>

(* The request is read and handled, or times out; close_connection. *)
process_new_connection(w) ==
    /\ WorkerGoes(w, "busy", "again")
    /\ conn' = [conn EXCEPT ![client[w]] = "closed"]
    /\ client' = [client EXCEPT ![w] = NoConn]
    /\ UNCHANGED <<masterPc, squeue, sq_head, sq_tail, idle, shortfall>>

SpuriousWorker(w) ==
    /\ "spurious" \in Faults
    /\ WorkerGoes(w, "asleep", "woken")
    /\ UNCHANGED <<masterPc, squeue, sq_head, sq_tail, idle, client, conn, shortfall>>

Worker(w) ==
    \/ WorkerGivesUp(w) \/ WaitNotEmpty(w) \/ consume_socket(w) \/ ServeOrLeave(w)
    \/ process_new_connection(w)

-----------------------------------------------------------------------------

Next ==
    \/ App
    \/ Master \/ SpuriousMaster
    \/ \E w \in Workers : Worker(w) \/ SpuriousWorker(w)
    \/ \E c \in Conns : Connect(c)

Spec == Init /\ [][Next]_vars

(* Threads that can move do; a request ends because reading it and every     *)
(* transfer made for it have timeouts.  Nobody has to start or stop a        *)
(* server, to connect, or to wake without a signal.                         *)
Fairness ==
    /\ WF_vars(Master)
    /\ WF_vars(StopSeen \/ free_context)
    /\ \A w \in Workers : WF_vars(Worker(w))

FairSpec == Spec /\ Fairness

-----------------------------------------------------------------------------
(* Safety *)

(* A connection has one keeper: the master's hand, one slot of the queue or  *)
(* one worker, however the ring's indices are wound back; and what is kept   *)
(* for service has an open descriptor.                                      *)
Keepers(c) == {<<"queue", i>> : i \in {j \in 1..Fill : Queue[j] = c}}
                 \cup {<<"worker", w>> : w \in {v \in Workers : client[v] = c}}
                 \cup (IF held = c THEN {<<"master", 0>>} ELSE {})

OneKeeper ==
    \A c \in Conns : /\ Cardinality(Keepers(c)) <= 1
                     /\ Keepers(c) # {} => conn[c] = "open"

(* No wakeup is lost: while a worker sleeps, every connection in the queue   *)
(* has a worker that has been woken and not yet looked, although a signal    *)
(* wakes one sleeper only and others may take what it was woken for.        *)
Woken == {w \in Workers : workerPc[w] = "woken"}

NoLostWakeup == Asleep # {} => Fill <= Cardinality(Woken)

(* The pool grows in time: as long as it may grow and no thread was refused, *)
(* every connection in the queue has a worker that is not serving another,   *)
(* so that no request waits behind a long one.                              *)
Free == {w \in Workers : workerPc[w] \in {"first", "asleep", "woken"}}

PoolGrows ==
    (spawned < MaxWorkers /\ ~shortfall /\ masterPc \notin {"spawn", "create"})
        => Fill <= Cardinality(Free)

(* free_context releases what the threads use: when mg_stop has returned no  *)
(* thread of the server is left, however late a worker was started.         *)
NoThreadOutlivesContext == app = "down" => masterPc = "none" /\ Running = {}

(* Refinement: the threads keep the promise of HttpServer. *)
Server == INSTANCE HttpServer
             WITH Handlers <- Workers,
                  server <- IF app = "down" THEN "none"
                            ELSE IF app = "up" THEN "running" ELSE "stopping",
                  active <- {w \in Workers : workerPc[w] = "busy"}

(* A request is begun only before the stop, and mg_stop returns only when    *)
(* none is in progress: what ServiceCycle relies on.                        *)
HttpServerRefinement == Server!Spec

Connections == INSTANCE ConnectionQueue WITH Capacity <- QueueSize, waiting <- Queue

(* Refinement: the ring with its wound-back indices is a bounded queue, and  *)
(* connections are taken in the order in which they were accepted.          *)
QueueRefinement == Connections!Spec

-----------------------------------------------------------------------------
(* Liveness *)

(* Every connection made to a running server is served and closed, unless    *)
(* the server is stopped first, has no master thread, or is short of the     *)
(* memory or the threads to serve it.                                       *)
Served == \A c \in Conns :
    conn[c] = "backlog" ~>
        \/ conn[c] \in {"closed", "refused"}
        \/ stop_flag # 0 \/ shortfall \/ masterPc = "none"

(* mg_stop returns, whatever the threads were doing, except when the master  *)
(* is left waiting for room in the queue that no worker is there to make:    *)
(* nobody signals sq_empty for the stop.                                    *)
StopCompletes == app = "wait" ~> (app = "down" \/ [](masterPc = "full"))

=============================================================================
