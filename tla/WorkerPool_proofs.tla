-------------------------- MODULE WorkerPool_proofs --------------------------
(***************************************************************************)
(* Proofs about WorkerPool, for any number of connections, any limit of    *)
(* workers, any size of the queue and any of the faults.                   *)
(*                                                                         *)
(* The counter of idle workers is not the number of idle workers: a thread *)
(* about to be created is counted already and one that gave up still is.   *)
(* Counting says how far the two may be apart, and Phases which threads     *)
(* there can be at each moment of mg_start and mg_stop.                    *)
(***************************************************************************)
EXTENDS WorkerPool, FiniteSetTheorems, SequenceTheorems, TLAPS

CountIn(f, P) == Cardinality({v \in Workers : f[v] \in P})

FreePcs == {"first", "asleep", "woken"}

Creating == IF masterPc = "create" THEN 1 ELSE 0
Spawning == IF masterPc = "spawn" THEN 1 ELSE 0

Phases ==
    /\ app = "down" => masterPc = "none"
    /\ app = "up" => stop_flag = 0 /\ masterPc \notin {"closing", "broadcast", "join", "done"}
    /\ app = "wait" => masterPc # "none" /\ stop_flag # 0 /\ (stop_flag = 2 <=> masterPc = "done")
    /\ app = "free" => masterPc = "done" /\ stop_flag = 2
    /\ masterPc \in {"none", "done"} => Running = {}

(* Workers are started in the order of their numbers. *)
SpawnedInv ==
    /\ \A w \in Workers : workerPc[w] = "none" <=> w > spawned
    /\ masterPc = "create" => spawned < MaxWorkers

Counting ==
    /\ CountIn(workerPc, FreePcs) + Creating <= idle
    /\ idle <= CountIn(workerPc, FreePcs \cup {"gone"}) + Creating
    /\ ~shortfall => idle = CountIn(workerPc, FreePcs) + Creating
    /\ ~shortfall /\ spawned < MaxWorkers => Fill <= idle + Spawning
    /\ Asleep # {} => Fill <= CountIn(workerPc, {"woken"})

IInv == TypeOK /\ Phases /\ SpawnedInv /\ Counting

-----------------------------------------------------------------------------
(* Counting the workers at some places *)

LEMMA WorkersFinite == /\ IsFiniteSet(Workers)
                       /\ \A S \in SUBSET Workers : IsFiniteSet(S)
<1>1. IsFiniteSet(Workers)
  BY MaxWorkersAssumption, FS_Interval DEF Workers
<1>2. QED
  BY <1>1, FS_Subset

LEMMA CountType == \A f, P : CountIn(f, P) \in Nat
<1>1. TAKE f, P
<1>2. IsFiniteSet({v \in Workers : f[v] \in P})
  BY WorkersFinite
<1>3. QED
  BY <1>2, FS_CardinalityType DEF CountIn

(* A worker goes from one place to another. *)
LEMMA Moves ==
    ASSUME workerPc \in [Workers -> WorkerPcs], NEW w \in Workers, NEW to,
           workerPc' = [workerPc EXCEPT ![w] = to], NEW P
    PROVE  CountIn(workerPc', P) =
               CountIn(workerPc, P) + (IF to \in P THEN 1 ELSE 0)
                                    - (IF workerPc[w] \in P THEN 1 ELSE 0)
<1> DEFINE S == {v \in Workers : workerPc[v] \in P}
           T == {v \in Workers : workerPc'[v] \in P}
<1>1. IsFiniteSet(S) /\ IsFiniteSet(T)
  BY WorkersFinite
<1>2. Cardinality(S) \in Nat /\ Cardinality(T) \in Nat
  BY <1>1, FS_CardinalityType
<1>3. CASE (to \in P) <=> (workerPc[w] \in P)
  <2>1. S = T
    BY <1>3
  <2>2. QED
    BY <1>2, <1>3, <2>1 DEF CountIn
<1>4. CASE to \in P /\ workerPc[w] \notin P
  <2>1. T = S \cup {w} /\ w \notin S
    BY <1>4
  <2>2. Cardinality(T) = Cardinality(S) + 1
    BY <1>1, <2>1, FS_AddElement
  <2>3. QED
    BY <1>2, <1>4, <2>2 DEF CountIn
<1>5. CASE to \notin P /\ workerPc[w] \in P
  <2>1. T = S \ {w} /\ w \in S
    BY <1>5
  <2>2. Cardinality(T) = Cardinality(S) - 1
    BY <1>1, <2>1, FS_RemoveElement
  <2>3. QED
    BY <1>2, <1>5, <2>2 DEF CountIn
<1>6. QED
  BY <1>3, <1>4, <1>5

(* Only workers that were started are anywhere. *)
LEMMA CountSpawned ==
    ASSUME TypeOK, SpawnedInv, NEW P, "none" \notin P
    PROVE  CountIn(workerPc, P) <= spawned
<1> DEFINE S == {v \in Workers : workerPc[v] \in P}
<1>1. S \subseteq 1..spawned
  BY DEF TypeOK, SpawnedInv, Workers
<1>2. IsFiniteSet(1..spawned) /\ Cardinality(1..spawned) = spawned
  BY FS_Interval DEF TypeOK
<1>3. Cardinality(S) <= Cardinality(1..spawned)
  BY <1>1, <1>2, FS_Subset
<1>4. QED
  BY <1>2, <1>3 DEF CountIn

LEMMA CountsTyped ==
    /\ CountIn(workerPc, FreePcs) \in Nat
    /\ CountIn(workerPc, FreePcs \cup {"gone"}) \in Nat
    /\ CountIn(workerPc, {"woken"}) \in Nat
BY CountType

LEMMA NumbersTyped ==
    ASSUME TypeOK
    PROVE  /\ idle \in Nat /\ spawned \in Nat /\ Fill \in Nat
           /\ Creating \in 0..1 /\ Spawning \in 0..1
BY DEF TypeOK, Fill, Creating, Spawning

LEMMA CountNobody ==
    ASSUME NEW f, NEW P, \A w \in Workers : f[w] \notin P
    PROVE  CountIn(f, P) = 0
<1>1. {v \in Workers : f[v] \in P} = {}
  OBVIOUS
<1>2. QED
  BY <1>1, FS_EmptySet DEF CountIn

LEMMA CountSomebody ==
    ASSUME NEW f, NEW P, NEW w \in Workers, f[w] \in P
    PROVE  CountIn(f, P) >= 1
<1> DEFINE S == {v \in Workers : f[v] \in P}
<1>1. IsFiniteSet(S) /\ w \in S
  BY WorkersFinite
<1>2. Cardinality(S) \in Nat /\ Cardinality(S) # 0
  BY <1>1, FS_CardinalityType, FS_EmptySet
<1>3. QED
  BY <1>2 DEF CountIn

-----------------------------------------------------------------------------
(* The inductive invariant *)

LEMMA IInvInit == Init => IInv
<1> SUFFICES ASSUME Init PROVE IInv
  OBVIOUS
<1>1. TypeOK
  <2>1. /\ workerPc \in [Workers -> WorkerPcs]
        /\ squeue \in [0..(QueueSize - 1) -> Conns \cup {NoConn}]
        /\ client \in [Workers -> Conns \cup {NoConn}]
        /\ conn \in [Conns -> ConnStates]
    BY DEF Init, WorkerPcs, ConnStates
  <2>2. /\ app \in AppPcs /\ masterPc \in MasterPcs
        /\ bound \in BOOLEAN /\ shortfall \in BOOLEAN /\ held \in Conns \cup {NoConn}
    BY DEF Init, AppPcs, MasterPcs
  <2>3. /\ sq_tail \in 0..QueueSize /\ sq_head \in sq_tail..(sq_tail + QueueSize)
        /\ idle \in 0..MaxWorkers /\ spawned \in 0..MaxWorkers /\ stop_flag \in 0..2
    BY MaxWorkersAssumption, QueueSizeAssumption DEF Init
  <2>4. QED
    BY <2>1, <2>2, <2>3 DEF TypeOK
<1>2. Phases /\ SpawnedInv
  BY MaxWorkersAssumption
  DEF Init, Phases, SpawnedInv, Running, Workers
<1>3. Counting
  <2>1. \A P : "none" \notin P => CountIn(workerPc, P) = 0
    BY CountNobody DEF Init
  <2>2. Asleep = {}
    BY DEF Init, Asleep
  <2>3. QED
    BY <2>1, <2>2 DEF Init, Counting, Creating, Spawning, Fill, FreePcs
<1>4. QED
  BY <1>1, <1>2, <1>3 DEF IInv

LEMMA ConnectKeeps ==
    ASSUME IInv, NEW c \in Conns, Connect(c)
    PROVE  IInv'
<1>1. conn' \in [Conns -> ConnStates]
  BY DEF IInv, TypeOK, Connect, ConnStates
<1>2. QED
  BY <1>1
  DEF IInv, TypeOK, Connect, context, Phases, SpawnedInv, Counting, Running,
      Asleep, Fill, Creating, Spawning

LEMMA AppKeeps ==
    ASSUME IInv, App
    PROVE  IInv'
<1>1. ASSUME mg_start PROVE IInv'
  <2>1. TypeOK'
    <3>1. /\ workerPc' \in [Workers -> WorkerPcs]
          /\ squeue' \in [0..(QueueSize - 1) -> Conns \cup {NoConn}]
          /\ client' \in [Workers -> Conns \cup {NoConn}]
      BY <1>1 DEF mg_start, WorkerPcs
    <3>2. /\ app' \in AppPcs /\ masterPc' \in MasterPcs
          /\ bound' \in BOOLEAN /\ shortfall' \in BOOLEAN
          /\ UNCHANGED <<held, conn>>
      BY <1>1 DEF mg_start, AppPcs, MasterPcs
    <3>3. /\ sq_tail' \in 0..QueueSize /\ sq_head' \in sq_tail'..(sq_tail' + QueueSize)
          /\ idle' \in 0..MaxWorkers /\ spawned' \in 0..MaxWorkers /\ stop_flag' \in 0..2
      BY <1>1, MaxWorkersAssumption, QueueSizeAssumption DEF mg_start
    <3>4. QED
      BY <3>1, <3>2, <3>3 DEF IInv, TypeOK
  <2>3. Phases' /\ SpawnedInv'
    BY <1>1, MaxWorkersAssumption
    DEF mg_start, Phases, SpawnedInv, Running, Workers
  <2>4. \A P : "none" \notin P => CountIn(workerPc', P) = 0
    BY <1>1, CountNobody DEF mg_start
  <2>5. Asleep' = {}
    BY <1>1 DEF mg_start, Asleep
  <2>6. Counting'
    BY <1>1, <2>4, <2>5
    DEF mg_start, Counting, Creating, Spawning, Fill, FreePcs
  <2>7. QED
    BY <2>1, <2>3, <2>6 DEF IInv
<1>2. ASSUME mg_start_fails PROVE IInv'
  BY <1>2
  DEF IInv, TypeOK, mg_start_fails, vars, Phases, SpawnedInv, Counting, Running,
      Asleep, Fill, Creating, Spawning
<1>3. ASSUME mg_stop \/ mg_stop_returns \/ StopSeen PROVE IInv'
  <2>1. TypeOK'
    BY <1>3 DEF IInv, mg_stop, mg_stop_returns, StopSeen, context, TypeOK, AppPcs
  <2>2. Phases' /\ SpawnedInv'
    BY <1>3
    DEF IInv, mg_stop, mg_stop_returns, StopSeen, context, Phases, SpawnedInv, Running
  <2>3. Counting'
    BY <1>3
    DEF IInv, mg_stop, mg_stop_returns, StopSeen, context, Counting, Creating, Spawning, Fill,
        Asleep
  <2>4. QED
    BY <2>1, <2>2, <2>3 DEF IInv
<1>4. ASSUME free_context PROVE IInv'
  <2>1. TypeOK'
    BY <1>4, QueueSizeAssumption DEF IInv, free_context, TypeOK, AppPcs, MasterPcs
  <2>2. Phases' /\ SpawnedInv'
    BY <1>4 DEF IInv, free_context, Phases, SpawnedInv, Running
  <2>3. Counting'
    BY <1>4, CountType
    DEF IInv, TypeOK, free_context, Counting, Creating, Spawning, Fill, Asleep
  <2>4. QED
    BY <2>1, <2>2, <2>3 DEF IInv
<1>5. QED
  BY <1>1, <1>2, <1>3, <1>4 DEF App

(* The master's steps that touch neither the workers nor the counters. *)
LEMMA MasterWalks ==
    ASSUME IInv,
           Poll \/ accept_new_connection \/ WaitNotFull \/ close_all_listening_sockets
               \/ MasterReturns \/ SpuriousMaster
    PROVE  IInv'
<1> DEFINE Step == Poll \/ accept_new_connection \/ WaitNotFull
                       \/ close_all_listening_sockets \/ MasterReturns \/ SpuriousMaster
<1>1. /\ UNCHANGED <<app, workerPc, squeue, sq_head, sq_tail, idle, spawned, client, shortfall>>
      /\ masterPc \notin {"create", "spawn", "none", "done"}
      /\ masterPc' \notin {"create", "spawn", "none"}
      /\ masterPc' \in MasterPcs
  BY DEF IInv, TypeOK, Poll, accept_new_connection, WaitNotFull, MasterGoes, MasterPcs,
         close_all_listening_sockets, MasterReturns, SpuriousMaster, context
<1>2. /\ stop_flag' \in 0..2
      /\ bound' \in BOOLEAN
      /\ held' \in Conns \cup {NoConn}
      /\ conn' \in [Conns -> ConnStates]
      /\ stop_flag' = 0 => stop_flag = 0
  <2>1. conn' \in [Conns -> ConnStates]
    BY DEF IInv, TypeOK, Poll, accept_new_connection, WaitNotFull, ConnStates,
           close_all_listening_sockets, MasterReturns, SpuriousMaster
  <2>2. held' \in Conns \cup {NoConn}
    BY DEF IInv, TypeOK, Poll, accept_new_connection, WaitNotFull,
           close_all_listening_sockets, MasterReturns, SpuriousMaster
  <2>3. bound' \in BOOLEAN
    BY DEF IInv, TypeOK, Poll, accept_new_connection, WaitNotFull,
           close_all_listening_sockets, MasterReturns, SpuriousMaster
  <2>4. stop_flag' = stop_flag \/ stop_flag' = 2
    BY DEF Poll, accept_new_connection, WaitNotFull,
           close_all_listening_sockets, MasterReturns, SpuriousMaster
  <2>5. QED
    BY <2>1, <2>2, <2>3, <2>4 DEF IInv, TypeOK
<1>3. TypeOK'
  BY <1>1, <1>2 DEF IInv, TypeOK
<1>4. Phases'
  <2>1. MasterReturns => Running = {}
    BY DEF IInv, TypeOK, SpawnedInv, MasterReturns, AllJoined, Running, Workers
  <2>2. QED
    BY <1>1, <2>1
    DEF IInv, Phases, Poll, accept_new_connection, WaitNotFull, MasterGoes, context,
        close_all_listening_sockets, MasterReturns, SpuriousMaster, Running, TypeOK
<1>5. SpawnedInv'
  BY <1>1 DEF IInv, SpawnedInv
<1>6. Counting'
  BY <1>1 DEF IInv, Counting, Creating, Spawning, Fill, Asleep
<1>7. QED
  BY <1>3, <1>4, <1>5, <1>6 DEF IInv

(* A connection is queued, or forgotten, and a sleeper is woken. *)
LEMMA ProduceKeeps ==
    ASSUME IInv, produce_socket
    PROVE  IInv'
<1>1. /\ masterPc \in {"produce", "fullWoken"} /\ masterPc' = "spawn"
      /\ held' = NoConn
      /\ UNCHANGED <<app, client, bound, stop_flag, sq_tail, idle, spawned, conn, shortfall>>
  BY DEF produce_socket
<1>2. /\ squeue' \in [0..(QueueSize - 1) -> Conns \cup {NoConn}]
      /\ sq_head' \in sq_tail..(sq_tail + QueueSize)
      /\ Fill' \in {Fill, Fill + 1}
  <2>1. CASE ~RingFull /\ Enqueue
    BY <1>1, <2>1, QueueSizeAssumption DEF IInv, TypeOK, RingFull, Fill, Enqueue
  <2>2. CASE RingFull /\ UNCHANGED <<squeue, sq_head>>
    BY <1>1, <2>2 DEF IInv, TypeOK, Fill
  <2>3. QED
    BY <2>1, <2>2 DEF produce_socket
<1>3. CASE Asleep = {} /\ UNCHANGED workerPc
  <2>1. TypeOK' /\ Phases' /\ SpawnedInv'
    BY <1>1, <1>2, <1>3
    DEF IInv, TypeOK, Phases, SpawnedInv, Running, MasterPcs
  <2>2. Asleep' = {}
    BY <1>3 DEF Asleep
  <2>3. Counting'
    BY <1>1, <1>2, <1>3, <2>2, NumbersTyped, CountsTyped
    DEF IInv, Counting, Creating, Spawning
  <2>4. QED
    BY <2>1, <2>3 DEF IInv
<1>4. CASE \E w \in Asleep : workerPc' = [workerPc EXCEPT ![w] = "woken"]
  <2>1. PICK w \in Asleep : workerPc' = [workerPc EXCEPT ![w] = "woken"]
    BY <1>4
  <2>2. w \in Workers /\ workerPc[w] = "asleep"
    BY DEF Asleep
  <2>3. workerPc' \in [Workers -> WorkerPcs]
    BY <2>1 DEF IInv, TypeOK, WorkerPcs
  <2>4. TypeOK'
    BY <1>1, <1>2, <2>3 DEF IInv, TypeOK, MasterPcs
  <2>5. Phases' /\ SpawnedInv'
    BY <1>1, <2>1, <2>2
    DEF IInv, TypeOK, Phases, SpawnedInv, Running
  <2>6. /\ CountIn(workerPc', FreePcs) = CountIn(workerPc, FreePcs)
        /\ CountIn(workerPc', FreePcs \cup {"gone"}) = CountIn(workerPc, FreePcs \cup {"gone"})
        /\ CountIn(workerPc', {"woken"}) = CountIn(workerPc, {"woken"}) + 1
    <3>1. workerPc \in [Workers -> WorkerPcs]
      BY DEF IInv, TypeOK
    <3>2. \A P : CountIn(workerPc', P) =
                   CountIn(workerPc, P) + (IF "woken" \in P THEN 1 ELSE 0)
                                        - (IF workerPc[w] \in P THEN 1 ELSE 0)
      BY <2>1, <2>2, <3>1, Moves
    <3>3. QED
      BY <2>2, <3>2, CountsTyped DEF FreePcs
  <2>7. Asleep # {}
    BY <2>1
  <2>8. Counting'
    BY <1>1, <1>2, <2>6, <2>7, NumbersTyped, CountsTyped
    DEF IInv, Counting, Creating, Spawning
  <2>9. QED
    BY <2>4, <2>5, <2>8 DEF IInv
<1>5. QED
  BY <1>3, <1>4 DEF produce_socket, SignalWorker

(* The master decides whether to start a worker, and starts it or fails to.  *)
LEMMA SpawnKeeps ==
    ASSUME IInv, mg_start_worker_thread \/ WorkerCreated \/ WorkerNotCreated
    PROVE  IInv'
<1>1. ASSUME mg_start_worker_thread PROVE IInv'
  <2>1. /\ masterPc = "spawn"
        /\ UNCHANGED <<app, client, workerPc, bound, stop_flag, squeue, sq_head, sq_tail,
                       spawned, held, conn, shortfall>>
        /\ \/ /\ spawned >= MaxWorkers \/ idle > Fill
              /\ masterPc' = "poll" /\ idle' = idle
           \/ /\ spawned < MaxWorkers /\ idle <= Fill
              /\ masterPc' = "create" /\ idle' = idle + 1
    BY <1>1, NumbersTyped, MaxWorkersAssumption
    DEF IInv, mg_start_worker_thread, MasterGoes, EnoughIdle
  <2>2. CountIn(workerPc, FreePcs \cup {"gone"}) <= spawned
    BY CountSpawned DEF IInv, FreePcs
  <2>3. idle' \in 0..MaxWorkers
    BY <2>1, <2>2, NumbersTyped, CountsTyped, MaxWorkersAssumption
    DEF IInv, TypeOK, Counting, Creating
  <2>4. TypeOK'
    BY <2>1, <2>3 DEF IInv, TypeOK, MasterPcs
  <2>5. Phases' /\ SpawnedInv'
    BY <2>1 DEF IInv, Phases, SpawnedInv, Running
  <2>6. UNCHANGED <<Fill, Asleep>>
    BY <2>1 DEF Fill, Asleep
  <2>7. Counting'
    BY <2>1, <2>6, NumbersTyped, CountsTyped, MaxWorkersAssumption
    DEF IInv, Counting, Creating, Spawning
  <2>8. QED
    BY <2>4, <2>5, <2>7 DEF IInv
<1>2. ASSUME WorkerCreated PROVE IInv'
  <2> DEFINE w == spawned + 1
  <2>1. /\ masterPc = "create" /\ masterPc' = "poll"
        /\ workerPc' = [workerPc EXCEPT ![w] = "first"]
        /\ spawned' = spawned + 1
        /\ UNCHANGED <<app, client, bound, stop_flag, squeue, sq_head, sq_tail, idle, held,
                       conn, shortfall>>
    BY <1>2 DEF WorkerCreated, MasterGoes
  <2>2. w \in Workers /\ workerPc[w] = "none" /\ spawned < MaxWorkers
    BY <2>1, MaxWorkersAssumption DEF IInv, TypeOK, SpawnedInv, Workers
  <2> HIDE DEF w
  <2>3. workerPc' \in [Workers -> WorkerPcs] /\ spawned' \in 0..MaxWorkers
    BY <2>1, <2>2, MaxWorkersAssumption DEF IInv, TypeOK, WorkerPcs
  <2>4. TypeOK'
    BY <2>1, <2>3 DEF IInv, TypeOK, MasterPcs
  <2>5. SpawnedInv'
    BY <2>1, <2>2 DEF IInv, TypeOK, SpawnedInv, Workers, w
  <2>6. Phases'
    BY <2>1, <2>2 DEF IInv, TypeOK, Phases, Running
  <2>7. /\ CountIn(workerPc', FreePcs) = CountIn(workerPc, FreePcs) + 1
        /\ CountIn(workerPc', FreePcs \cup {"gone"}) =
               CountIn(workerPc, FreePcs \cup {"gone"}) + 1
        /\ CountIn(workerPc', {"woken"}) = CountIn(workerPc, {"woken"})
    <3>1. workerPc \in [Workers -> WorkerPcs]
      BY DEF IInv, TypeOK
    <3>2. \A P : CountIn(workerPc', P) =
                   CountIn(workerPc, P) + (IF "first" \in P THEN 1 ELSE 0)
                                        - (IF workerPc[w] \in P THEN 1 ELSE 0)
      BY <2>1, <2>2, <3>1, Moves
    <3>3. QED
      BY <2>2, <3>2, CountsTyped DEF FreePcs
  <2>8. UNCHANGED <<Fill, Asleep>>
    BY <2>1, <2>2 DEF IInv, TypeOK, Fill, Asleep
  <2>9. Counting'
    BY <2>1, <2>2, <2>7, <2>8, NumbersTyped, CountsTyped, MaxWorkersAssumption
    DEF IInv, Counting, Creating, Spawning
  <2>10. QED
    BY <2>4, <2>5, <2>6, <2>9 DEF IInv
<1>3. ASSUME WorkerNotCreated PROVE IInv'
  <2>1. /\ masterPc = "create" /\ masterPc' = "poll"
        /\ idle' = idle - 1 /\ shortfall' = TRUE
        /\ UNCHANGED <<app, client, workerPc, bound, stop_flag, squeue, sq_head, sq_tail,
                       spawned, held, conn>>
    BY <1>3 DEF WorkerNotCreated, MasterGoes
  <2>2. idle' \in 0..MaxWorkers
    BY <2>1, NumbersTyped, CountsTyped, MaxWorkersAssumption
    DEF IInv, TypeOK, Counting, Creating
  <2>3. TypeOK'
    BY <2>1, <2>2 DEF IInv, TypeOK, MasterPcs
  <2>4. Phases' /\ SpawnedInv'
    BY <2>1 DEF IInv, Phases, SpawnedInv, Running
  <2>5. UNCHANGED <<Fill, Asleep>>
    BY <2>1 DEF Fill, Asleep
  <2>6. Counting'
    BY <2>1, <2>5, NumbersTyped, CountsTyped
    DEF IInv, Counting, Creating, Spawning
  <2>7. QED
    BY <2>3, <2>4, <2>6 DEF IInv
<1>4. QED
  BY <1>1, <1>2, <1>3

LEMMA BroadcastKeeps ==
    ASSUME IInv, Broadcast
    PROVE  IInv'
<1>1. /\ masterPc = "broadcast" /\ masterPc' = "join"
      /\ workerPc' = [w \in Workers |-> IF w \in Asleep THEN "woken" ELSE workerPc[w]]
      /\ UNCHANGED <<app, client, bound, stop_flag, squeue, sq_head, sq_tail, idle, spawned,
                     held, conn, shortfall>>
  BY DEF Broadcast, MasterGoes, WakeAll, context
<1>2. /\ workerPc' \in [Workers -> WorkerPcs]
      /\ \A w \in Workers : \/ workerPc'[w] = workerPc[w]
                            \/ (workerPc[w] = "asleep" /\ workerPc'[w] = "woken")
  <2>1. \A w \in Workers : workerPc[w] \in WorkerPcs
    BY DEF IInv, TypeOK
  <2>2. \A w \in Workers : /\ w \in Asleep => workerPc'[w] = "woken"
                           /\ w \notin Asleep => workerPc'[w] = workerPc[w]
    BY <1>1
  <2>3. \A w \in Workers : w \in Asleep <=> workerPc[w] = "asleep"
    BY DEF Asleep
  <2>4. workerPc' \in [Workers -> WorkerPcs]
    BY <1>1, <2>1 DEF WorkerPcs
  <2>5. QED
    BY <2>2, <2>3, <2>4
<1>3. TypeOK'
  BY <1>1, <1>2 DEF IInv, TypeOK, MasterPcs
<1>4. Phases' /\ SpawnedInv'
  BY <1>1, <1>2 DEF IInv, Phases, SpawnedInv, Running
<1>5. /\ CountIn(workerPc', FreePcs) = CountIn(workerPc, FreePcs)
      /\ CountIn(workerPc', FreePcs \cup {"gone"}) = CountIn(workerPc, FreePcs \cup {"gone"})
  <2>1. /\ {v \in Workers : workerPc'[v] \in FreePcs} = {v \in Workers : workerPc[v] \in FreePcs}
        /\ {v \in Workers : workerPc'[v] \in FreePcs \cup {"gone"}}
               = {v \in Workers : workerPc[v] \in FreePcs \cup {"gone"}}
    BY <1>2 DEF FreePcs
  <2>2. QED
    BY <2>1 DEF CountIn
<1>6. Asleep' = {} /\ UNCHANGED Fill
  BY <1>1 DEF Asleep, Fill
<1>7. Counting'
  BY <1>1, <1>5, <1>6, NumbersTyped, CountsTyped
  DEF IInv, Counting, Creating, Spawning
<1>8. QED
  BY <1>3, <1>4, <1>7 DEF IInv

(* What a worker's way from one place to another means to the invariant.     *)
LEMMA WorkerWalks ==
    ASSUME IInv, NEW w \in Workers,
           NEW from \in WorkerPcs \ {"none", "gone"}, NEW to \in WorkerPcs \ {"none"},
           WorkerGoes(w, from, to), SignalMaster \/ UNCHANGED masterPc
    PROVE  /\ workerPc' \in [Workers -> WorkerPcs]
           /\ masterPc' \in MasterPcs
           /\ Phases' /\ SpawnedInv'
           /\ Creating' = Creating /\ Spawning' = Spawning
           /\ \A P : CountIn(workerPc', P) =
                        CountIn(workerPc, P) + (IF to \in P THEN 1 ELSE 0)
                                             - (IF from \in P THEN 1 ELSE 0)
<1>1. /\ workerPc[w] = from
      /\ workerPc' = [workerPc EXCEPT ![w] = to]
      /\ UNCHANGED <<app, bound, stop_flag, spawned, held>>
  BY DEF WorkerGoes
<1>2. /\ workerPc \in [Workers -> WorkerPcs]
      /\ workerPc' \in [Workers -> WorkerPcs]
  BY <1>1 DEF IInv, TypeOK
<1>3. \/ masterPc' = masterPc
      \/ (masterPc = "full" /\ masterPc' = "fullWoken")
  BY DEF SignalMaster
<1>4. w \in Running
  BY <1>1 DEF Running
<1>5. Phases'
  BY <1>1, <1>3, <1>4 DEF IInv, Phases
<1>6. SpawnedInv'
  BY <1>1, <1>2, <1>3 DEF IInv, SpawnedInv
<1>7. \A P : CountIn(workerPc', P) =
               CountIn(workerPc, P) + (IF to \in P THEN 1 ELSE 0)
                                    - (IF workerPc[w] \in P THEN 1 ELSE 0)
  BY <1>1, <1>2, Moves
<1>8. /\ masterPc' \in MasterPcs
      /\ Creating' = Creating /\ Spawning' = Spawning
  BY <1>1, <1>3 DEF IInv, TypeOK, MasterPcs, Creating, Spawning
<1>9. QED
  BY <1>1, <1>2, <1>5, <1>6, <1>7, <1>8

(* A worker takes a connection out of the ring. *)
LEMMA DequeueType ==
    ASSUME TypeOK, NEW w \in Workers, sq_head > sq_tail, Dequeue(w)
    PROVE  /\ client' \in [Workers -> Conns \cup {NoConn}]
           /\ sq_tail' \in 0..QueueSize
           /\ sq_head' \in sq_tail'..(sq_tail' + QueueSize)
           /\ Fill' = Fill - 1
<1>1. sq_tail % QueueSize \in 0..(QueueSize - 1)
  BY QueueSizeAssumption DEF TypeOK
<1>2. client' \in [Workers -> Conns \cup {NoConn}]
  BY <1>1 DEF TypeOK, Dequeue
<1>3. QED
  BY <1>2, QueueSizeAssumption DEF TypeOK, Dequeue, Wound, Fill

LEMMA ConsumeKeeps ==
    ASSUME IInv, NEW w \in Workers, consume_socket(w)
    PROVE  IInv'
<1>1. PICK pc \in WantsMutex : WorkerGoes(w, pc, "took")
  BY DEF consume_socket
<1>2. /\ workerPc[w] = pc
      /\ workerPc' = [workerPc EXCEPT ![w] = "took"]
      /\ pc \in {"first", "again", "woken"}
      /\ UNCHANGED <<app, bound, stop_flag, spawned, held, squeue, conn, shortfall>>
  BY <1>1 DEF WorkerGoes, WantsMutex, consume_socket
<1>3. /\ workerPc' \in [Workers -> WorkerPcs]
      /\ masterPc' \in MasterPcs
      /\ Phases' /\ SpawnedInv'
      /\ Creating' = Creating /\ Spawning' = Spawning
      /\ \A P : CountIn(workerPc', P) =
                   CountIn(workerPc, P) + (IF "took" \in P THEN 1 ELSE 0)
                                        - (IF pc \in P THEN 1 ELSE 0)
  <2>1. pc \in WorkerPcs \ {"none", "gone"} /\ "took" \in WorkerPcs \ {"none"}
    BY <1>2 DEF WorkerPcs
  <2>2. SignalMaster
    BY DEF consume_socket
  <2>3. QED
    BY <1>1, <2>1, <2>2, WorkerWalks
<1>4. /\ client' \in [Workers -> Conns \cup {NoConn}]
      /\ sq_tail' \in 0..QueueSize
      /\ sq_head' \in sq_tail'..(sq_tail' + QueueSize)
      /\ Fill' = IF Fill > 0 THEN Fill - 1 ELSE Fill
  BY <1>2, DequeueType DEF consume_socket, IInv, TypeOK, Fill
<1>5. /\ idle' = IF pc = "again" THEN idle ELSE idle - 1
      /\ pc # "again" => CountIn(workerPc, FreePcs) >= 1
  BY <1>2, CountSomebody, NumbersTyped DEF consume_socket, CountedIdle, FreePcs, IInv
<1>6. /\ CountIn(workerPc', FreePcs) =
             CountIn(workerPc, FreePcs) - (IF pc = "again" THEN 0 ELSE 1)
      /\ CountIn(workerPc', FreePcs \cup {"gone"}) =
             CountIn(workerPc, FreePcs \cup {"gone"}) - (IF pc = "again" THEN 0 ELSE 1)
      /\ CountIn(workerPc', {"woken"}) >= CountIn(workerPc, {"woken"}) - 1
      /\ pc # "woken" => CountIn(workerPc', {"woken"}) = CountIn(workerPc, {"woken"})
  <2>1. /\ "took" \notin FreePcs \cup {"gone"} /\ "took" \notin {"woken"}
        /\ pc \in FreePcs <=> pc # "again"
        /\ pc \in FreePcs \cup {"gone"} <=> pc # "again"
    BY <1>2 DEF FreePcs
  <2>2. QED
    BY <1>3, <2>1, CountsTyped
<1>7. idle' \in 0..MaxWorkers
  BY <1>5, NumbersTyped, CountsTyped, MaxWorkersAssumption
  DEF IInv, TypeOK, Counting, Creating
<1>8. TypeOK'
  BY <1>2, <1>3, <1>4, <1>7 DEF IInv, TypeOK
<1>9. Asleep' = Asleep
  BY <1>2 DEF Asleep, IInv, TypeOK
<1>10. Counting'
  <2>1. CountIn(workerPc', {"woken"}) \in Nat
    BY CountType
  <2>2. CASE pc = "again"
    BY <1>2, <1>3, <1>4, <1>5, <1>6, <1>9, <2>1, <2>2, NumbersTyped, CountsTyped
    DEF IInv, Counting
  <2>3. CASE pc # "again"
    BY <1>2, <1>3, <1>4, <1>5, <1>6, <1>9, <2>1, <2>3, NumbersTyped, CountsTyped
    DEF IInv, Counting
  <2>4. QED
    BY <2>2, <2>3
<1>11. QED
  BY <1>3, <1>8, <1>10 DEF IInv

LEMMA WaitKeeps ==
    ASSUME IInv, NEW w \in Workers, WaitNotEmpty(w)
    PROVE  IInv'
<1>1. PICK pc \in WantsMutex : WorkerGoes(w, pc, "asleep")
  BY DEF WaitNotEmpty
<1>2. /\ workerPc[w] = pc
      /\ pc \in {"first", "again", "woken"}
      /\ Fill = 0
      /\ UNCHANGED <<app, bound, stop_flag, spawned, held, masterPc, squeue, sq_head, sq_tail,
                     client, conn, shortfall>>
      /\ idle' = IF pc = "again" THEN idle + 1 ELSE idle
  BY <1>1, NumbersTyped
  DEF IInv, TypeOK, WorkerGoes, WantsMutex, WaitNotEmpty, CountedIdle, Fill
<1>3. /\ workerPc' \in [Workers -> WorkerPcs]
      /\ masterPc' \in MasterPcs
      /\ Phases' /\ SpawnedInv'
      /\ Creating' = Creating /\ Spawning' = Spawning
      /\ \A P : CountIn(workerPc', P) =
                   CountIn(workerPc, P) + (IF "asleep" \in P THEN 1 ELSE 0)
                                        - (IF pc \in P THEN 1 ELSE 0)
  <2>1. pc \in WorkerPcs \ {"none", "gone"} /\ "asleep" \in WorkerPcs \ {"none"}
    BY <1>2 DEF WorkerPcs
  <2>2. QED
    BY <1>1, <1>2, <2>1, WorkerWalks
<1>4. /\ CountIn(workerPc', FreePcs) =
             CountIn(workerPc, FreePcs) + (IF pc = "again" THEN 1 ELSE 0)
      /\ CountIn(workerPc', FreePcs \cup {"gone"}) =
             CountIn(workerPc, FreePcs \cup {"gone"}) + (IF pc = "again" THEN 1 ELSE 0)
      /\ CountIn(workerPc', {"woken"}) \in Nat
  <2>1. /\ "asleep" \in FreePcs
        /\ pc \in FreePcs <=> pc # "again"
        /\ pc \in FreePcs \cup {"gone"} <=> pc # "again"
    BY <1>2 DEF FreePcs
  <2>2. QED
    BY <1>3, <2>1, CountsTyped, CountType
<1>5. idle' \in 0..MaxWorkers
  <2>1. CountIn(workerPc, FreePcs \cup {"gone"}) + Creating <= MaxWorkers
    BY CountSpawned, NumbersTyped, CountsTyped, MaxWorkersAssumption
    DEF IInv, TypeOK, FreePcs, SpawnedInv, Creating
  <2>2. /\ CountIn(workerPc', FreePcs \cup {"gone"}) + Creating <= MaxWorkers
    <3>1. CountIn(workerPc', FreePcs \cup {"gone"}) \in Nat
      BY CountType
    <3>2. CountIn(workerPc', FreePcs \cup {"gone"}) <= spawned
      <4>1. \A v \in Workers : workerPc'[v] \in FreePcs \cup {"gone"} => v \in 1..spawned
        BY <1>2, <1>3 DEF SpawnedInv, FreePcs, IInv, TypeOK, Workers
      <4>2. IsFiniteSet(1..spawned) /\ Cardinality(1..spawned) = spawned
        BY NumbersTyped, FS_Interval DEF IInv
      <4>3. QED
        BY <4>1, <4>2, FS_Subset DEF CountIn
    <3>3. QED
      BY <1>2, <3>1, <3>2, NumbersTyped, MaxWorkersAssumption
      DEF IInv, TypeOK, SpawnedInv, Creating
  <2>3. QED
    BY <1>2, <1>4, <2>1, <2>2, NumbersTyped, CountsTyped, MaxWorkersAssumption
    DEF IInv, TypeOK, Counting
<1>6. TypeOK'
  BY <1>2, <1>3, <1>5 DEF IInv, TypeOK
<1>7. Fill' = 0
  BY <1>2 DEF Fill
<1>8. Counting'
  <2>1. CASE pc = "again"
    BY <1>2, <1>3, <1>4, <1>7, <2>1, NumbersTyped, CountsTyped DEF IInv, Counting
  <2>2. CASE pc # "again"
    BY <1>2, <1>3, <1>4, <1>7, <2>2, NumbersTyped, CountsTyped DEF IInv, Counting
  <2>3. QED
    BY <2>1, <2>2
<1>9. QED
  BY <1>3, <1>6, <1>8 DEF IInv

(* Giving up, serving or leaving, having served, waking for nothing. *)
LEMMA OtherWorkersKeep ==
    ASSUME IInv, NEW w \in Workers,
           WorkerGivesUp(w) \/ ServeOrLeave(w) \/ process_new_connection(w) \/ SpuriousWorker(w)
    PROVE  IInv'
<1>1. PICK from \in {"first", "took", "busy", "asleep"}, to \in {"gone", "busy", "again", "woken"} :
          /\ WorkerGoes(w, from, to)
          /\ <<from, to>> \in {<<"first", "gone">>, <<"took", "busy">>, <<"took", "gone">>,
                               <<"busy", "again">>, <<"asleep", "woken">>}
          /\ from = "first" => shortfall'
          /\ from # "first" => shortfall' = shortfall
  BY DEF WorkerGivesUp, ServeOrLeave, process_new_connection, SpuriousWorker
<1>2. /\ workerPc[w] = from /\ workerPc' = [workerPc EXCEPT ![w] = to]
      /\ UNCHANGED <<app, bound, stop_flag, spawned, held, masterPc, squeue, sq_head, sq_tail,
                     idle>>
      /\ UNCHANGED Fill
  BY <1>1 DEF WorkerGivesUp, ServeOrLeave, process_new_connection, SpuriousWorker, WorkerGoes,
              Fill
<1>3. /\ client' \in [Workers -> Conns \cup {NoConn}]
      /\ conn' \in [Conns -> ConnStates]
      /\ shortfall' \in BOOLEAN
  BY DEF WorkerGivesUp, ServeOrLeave, process_new_connection, SpuriousWorker, IInv, TypeOK,
         ConnStates
<1>4. /\ workerPc' \in [Workers -> WorkerPcs]
      /\ masterPc' \in MasterPcs
      /\ Phases' /\ SpawnedInv'
      /\ Creating' = Creating /\ Spawning' = Spawning
      /\ \A P : CountIn(workerPc', P) =
                   CountIn(workerPc, P) + (IF to \in P THEN 1 ELSE 0)
                                        - (IF from \in P THEN 1 ELSE 0)
  <2>1. from \in WorkerPcs \ {"none", "gone"} /\ to \in WorkerPcs \ {"none"}
    BY DEF WorkerPcs
  <2>2. WorkerGoes(w, from, to) /\ UNCHANGED masterPc
    BY <1>1, <1>2
  <2>3. QED
    BY <2>1, <2>2, WorkerWalks
<1>5. TypeOK'
  BY <1>2, <1>3, <1>4 DEF IInv, TypeOK
<1>6. /\ CountIn(workerPc', FreePcs) = CountIn(workerPc, FreePcs) - (IF from = "first" THEN 1 ELSE 0)
      /\ CountIn(workerPc', FreePcs \cup {"gone"}) >= CountIn(workerPc, FreePcs \cup {"gone"})
      /\ CountIn(workerPc', {"woken"}) >= CountIn(workerPc, {"woken"})
  <2>1. /\ to \in FreePcs <=> to = "woken"
        /\ from \in FreePcs <=> from \in {"first", "asleep"}
        /\ from \in FreePcs \cup {"gone"} => to \in FreePcs \cup {"gone"}
        /\ from # "woken"
        /\ to = "woken" <=> from = "asleep"
    BY <1>1 DEF FreePcs
  <2>2. QED
    BY <1>4, <2>1, CountsTyped
<1>7. Asleep' \subseteq Asleep
  BY <1>1, <1>2 DEF Asleep, IInv, TypeOK
<1>8. Counting'
  <2>1. /\ CountIn(workerPc', FreePcs) \in Nat
        /\ CountIn(workerPc', FreePcs \cup {"gone"}) \in Nat
        /\ CountIn(workerPc', {"woken"}) \in Nat
    BY CountType
  <2>2. CASE from = "first"
    BY <1>1, <1>2, <1>4, <1>6, <1>7, <2>1, <2>2, NumbersTyped, CountsTyped DEF IInv, Counting
  <2>3. CASE from # "first"
    BY <1>1, <1>2, <1>4, <1>6, <1>7, <2>1, <2>3, NumbersTyped, CountsTyped DEF IInv, Counting
  <2>4. QED
    BY <2>2, <2>3
<1>9. QED
  BY <1>4, <1>5, <1>8 DEF IInv

LEMMA IInvNext == IInv /\ [Next]_vars => IInv'
<1> SUFFICES ASSUME IInv, [Next]_vars PROVE IInv'
  OBVIOUS
<1>1. CASE UNCHANGED vars
  BY <1>1
  DEF IInv, TypeOK, vars, Phases, SpawnedInv, Counting, Running, Asleep, Fill, Creating,
      Spawning
<1>2. CASE Next
  BY <1>2, ConnectKeeps, AppKeeps, MasterWalks, ProduceKeeps, SpawnKeeps, BroadcastKeeps,
     ConsumeKeeps, WaitKeeps, OtherWorkersKeep
  DEF Next, Master, Worker
<1>3. QED
  BY <1>1, <1>2

LEMMA IInvInvariant == Spec => []IInv
BY IInvInit, IInvNext, PTL DEF Spec

-----------------------------------------------------------------------------
(* The ring, and who has which connection *)

Slot(i) == squeue[(sq_tail + i - 1) % QueueSize]

HoldingInv ==
    /\ held # NoConn <=> masterPc \in {"produce", "full", "fullWoken"}
    /\ \A w \in Workers :
          /\ workerPc[w] \in {"none", "first", "again", "asleep", "woken"} => client[w] = NoConn
          /\ workerPc[w] = "busy" => client[w] # NoConn
          /\ workerPc[w] = "took" /\ stop_flag = 0 => client[w] # NoConn

(* No two keep the same connection, and what they keep is open. *)
KeepingInv ==
    /\ \A i \in 1..Fill : Slot(i) \in Conns /\ conn[Slot(i)] = "open"
    /\ \A i, j \in 1..Fill : Slot(i) = Slot(j) => i = j
    /\ \A w \in Workers : client[w] # NoConn =>
          conn[client[w]] = "open" /\ \A i \in 1..Fill : Slot(i) # client[w]
    /\ \A w, v \in Workers : client[w] # NoConn /\ client[w] = client[v] => w = v
    /\ held # NoConn => /\ conn[held] = "open"
                        /\ \A i \in 1..Fill : Slot(i) # held
                        /\ \A w \in Workers : client[w] # held

KInv == HoldingInv /\ KeepingInv

(* The indices that are ever used, up to twice the size, modulo the size. *)
LEMMA RingIndex ==
    ASSUME NEW x \in 0..(2 * QueueSize - 1)
    PROVE  x % QueueSize = IF x < QueueSize THEN x ELSE x - QueueSize
<1>1. CASE x < QueueSize
  BY <1>1, QueueSizeAssumption
<1>2. CASE x >= QueueSize
  BY <1>2, QueueSizeAssumption
<1>3. QED
  BY <1>1, <1>2, QueueSizeAssumption

LEMMA SlotKept ==
    ASSUME UNCHANGED <<squeue, sq_head, sq_tail>>
    PROVE  Fill' = Fill /\ \A i : Slot(i)' = Slot(i)
BY DEF Fill, Slot

LEMMA EnqueueAppends ==
    ASSUME TypeOK, Fill < QueueSize, Enqueue, UNCHANGED sq_tail
    PROVE  /\ Fill' = Fill + 1
           /\ \A i \in 1..Fill : Slot(i)' = Slot(i)
           /\ Slot(Fill)' = held
<1>1. Fill \in Nat /\ Fill' = Fill + 1 /\ sq_head = sq_tail + Fill
  BY DEF TypeOK, Fill, Enqueue
<1>2. /\ sq_head \in 0..(2 * QueueSize - 1)
      /\ sq_head % QueueSize \in 0..(QueueSize - 1)
  BY <1>1, QueueSizeAssumption DEF TypeOK
<1>3. Slot(Fill)' = held
  <2>1. sq_tail' + Fill' - 1 = sq_head
    BY <1>1 DEF TypeOK
  <2>2. squeue'[sq_head % QueueSize] = held
    BY <1>2 DEF TypeOK, Enqueue
  <2>3. QED
    BY <2>1, <2>2 DEF Slot
<1>4. ASSUME NEW i \in 1..Fill PROVE Slot(i)' = Slot(i)
  <2> DEFINE x == sq_tail + i - 1
  <2>1. x \in 0..(2 * QueueSize - 1) /\ x < sq_head /\ sq_head < x + QueueSize
    BY <1>1, QueueSizeAssumption DEF TypeOK
  <2>2. x % QueueSize # sq_head % QueueSize
    <3>1. /\ x % QueueSize = IF x < QueueSize THEN x ELSE x - QueueSize
          /\ sq_head % QueueSize = IF sq_head < QueueSize THEN sq_head ELSE sq_head - QueueSize
      BY <1>2, <2>1, RingIndex
    <3>2. QED
      BY <1>2, <2>1, <3>1, QueueSizeAssumption
  <2>3. x % QueueSize \in 0..(QueueSize - 1)
    BY <2>1, QueueSizeAssumption
  <2>4. squeue'[x % QueueSize] = squeue[x % QueueSize]
    BY <1>2, <2>2, <2>3 DEF TypeOK, Enqueue
  <2>5. QED
    BY <2>4 DEF Slot
<1>5. QED
  BY <1>1, <1>3, <1>4

LEMMA DequeueShifts ==
    ASSUME TypeOK, NEW w \in Workers, sq_head > sq_tail, Dequeue(w), UNCHANGED squeue
    PROVE  /\ Fill' = Fill - 1
           /\ \A i \in 1..(Fill - 1) : Slot(i)' = Slot(i + 1)
           /\ client' = [client EXCEPT ![w] = Slot(1)]
<1>1. Fill \in Nat /\ Fill' = Fill - 1 /\ Fill <= QueueSize
  <2>1. Fill' = Fill - 1
    BY DequeueType
  <2>2. QED
    BY <2>1, QueueSizeAssumption DEF TypeOK, Fill
<1>2. client' = [client EXCEPT ![w] = Slot(1)]
  BY DEF TypeOK, Dequeue, Slot
<1>3. ASSUME NEW i \in 1..(Fill - 1) PROVE Slot(i)' = Slot(i + 1)
  <2>1. sq_tail + i \in 0..(2 * QueueSize - 1)
    BY <1>1, QueueSizeAssumption DEF TypeOK
  <2>2. sq_tail' + i - 1 = sq_tail + i - Wound
    BY QueueSizeAssumption DEF TypeOK, Dequeue, Wound
  <2>3. Wound # 0 => sq_tail = QueueSize /\ Wound = QueueSize
    BY QueueSizeAssumption DEF TypeOK, Wound
  <2>4. (sq_tail + i - Wound) % QueueSize = (sq_tail + i) % QueueSize
    <3>1. CASE Wound = 0
      BY <2>1, <3>1
    <3>2. CASE Wound # 0
      <4>1. /\ sq_tail + i \in QueueSize..(2 * QueueSize - 1)
            /\ sq_tail + i - Wound \in 0..(QueueSize - 1)
        BY <1>1, <2>1, <2>3, <3>2, QueueSizeAssumption DEF TypeOK
      <4>2. (sq_tail + i) % QueueSize = sq_tail + i - QueueSize
        <5> DEFINE x == sq_tail + i
        <5>1. x \in 0..(2 * QueueSize - 1) /\ ~(x < QueueSize)
          BY <2>1, <4>1, QueueSizeAssumption
        <5> HIDE DEF x
        <5>2. x % QueueSize = x - QueueSize
          BY <5>1, RingIndex
        <5>3. QED
          BY <2>1, <5>2, QueueSizeAssumption DEF x, TypeOK
      <4>3. (sq_tail + i - Wound) % QueueSize = sq_tail + i - Wound
        BY <4>1, QueueSizeAssumption
      <4>4. QED
        BY <2>3, <3>2, <4>2, <4>3
    <3>3. QED
      BY <3>1, <3>2
  <2>5. (sq_tail + (i + 1)) - 1 = sq_tail + i
    BY DEF TypeOK
  <2>6. QED
    BY <2>2, <2>4, <2>5 DEF Slot
<1>4. QED
  BY <1>1, <1>2, <1>3

LEMMA KInvInit == Init => KInv
<1> SUFFICES ASSUME Init PROVE KInv
  OBVIOUS
<1>1. Fill = 0 /\ 1..Fill = {}
  BY DEF Init, Fill
<1>2. QED
  BY <1>1 DEF Init, KInv, HoldingInv, KeepingInv

(* Steps that leave the ring and its contents alone. *)
LEMMA KInvQuiet ==
    ASSUME IInv, KInv,
           UNCHANGED <<squeue, sq_head, sq_tail, held, client>>,
           held # NoConn <=> masterPc' \in {"produce", "full", "fullWoken"},
           \A w \in Workers :
               \/ workerPc'[w] = workerPc[w]
               \/ (client[w] = NoConn /\ workerPc'[w] \notin {"busy", "took"})
               \/ workerPc'[w] = "gone"
               \/ (workerPc'[w] = "busy" /\ client[w] # NoConn),
           stop_flag' = 0 => stop_flag = 0,
           \A c \in Conns : conn[c] = "open" => conn'[c] = "open"
    PROVE  KInv'
<1>1. HoldingInv'
  BY DEF KInv, HoldingInv
<1>2. Fill' = Fill /\ \A i : Slot(i)' = Slot(i)
  BY SlotKept
<1>3. /\ \A w \in Workers : client[w] # NoConn => client[w] \in Conns
      /\ held # NoConn => held \in Conns
  BY DEF IInv, TypeOK
<1>4. KeepingInv'
  BY <1>2, <1>3 DEF KInv, KeepingInv
<1>5. QED
  BY <1>1, <1>4 DEF KInv

LEMMA KInvApp ==
    ASSUME IInv, KInv, App
    PROVE  KInv'
<1>1. ASSUME mg_start PROVE KInv'
  <2>1. /\ held' = NoConn /\ masterPc' \in {"poll", "none"}
        /\ workerPc' = [w \in Workers |-> "none"]
        /\ client' = [w \in Workers |-> NoConn]
    BY <1>1 DEF mg_start, IInv, Phases, KInv, HoldingInv
  <2>2. Fill' = 0 /\ 1..Fill' = {}
    BY <1>1 DEF mg_start, Fill
  <2>3. QED
    BY <2>1, <2>2 DEF KInv, HoldingInv, KeepingInv
<1>2. ASSUME free_context PROVE KInv'
  <2>1. /\ masterPc = "done" /\ masterPc' = "none"
        /\ UNCHANGED <<workerPc, held, client, conn, stop_flag>>
    BY <1>2 DEF free_context
  <2>2. Fill' = 0 /\ 1..Fill' = {}
    BY <1>2 DEF free_context, Fill
  <2>3. QED
    BY <2>1, <2>2 DEF KInv, HoldingInv, KeepingInv
<1>3. ASSUME mg_start_fails \/ mg_stop \/ mg_stop_returns \/ StopSeen PROVE KInv'
  <2>1. /\ UNCHANGED <<squeue, sq_head, sq_tail, held, client, masterPc, workerPc, conn>>
        /\ stop_flag' = 0 => stop_flag = 0
    BY <1>3 DEF mg_start_fails, mg_stop, mg_stop_returns, StopSeen, context, vars
  <2>2. QED
    BY <2>1, KInvQuiet DEF KInv, HoldingInv
<1>4. QED
  BY <1>1, <1>2, <1>3 DEF App

LEMMA KInvMaster ==
    ASSUME IInv, KInv, Master \/ SpuriousMaster
    PROVE  KInv'
<1>1. ASSUME Poll \/ WaitNotFull \/ mg_start_worker_thread \/ WorkerNotCreated
             \/ MasterReturns \/ SpuriousMaster
      PROVE  KInv'
  <2>1. /\ UNCHANGED <<squeue, sq_head, sq_tail, held, client, workerPc, conn>>
        /\ masterPc \in {"produce", "full", "fullWoken"}
               <=> masterPc' \in {"produce", "full", "fullWoken"}
        /\ stop_flag' = 0 => stop_flag = 0
    BY <1>1
    DEF Poll, WaitNotFull, mg_start_worker_thread, WorkerNotCreated, MasterReturns,
        SpuriousMaster, MasterGoes, context
  <2>2. QED
    BY <2>1, KInvQuiet DEF KInv, HoldingInv
<1>2. ASSUME WorkerCreated \/ Broadcast PROVE KInv'
  <2>1. /\ UNCHANGED <<squeue, sq_head, sq_tail, held, client, conn, stop_flag>>
        /\ masterPc \notin {"produce", "full", "fullWoken"}
        /\ masterPc' \notin {"produce", "full", "fullWoken"}
    BY <1>2 DEF WorkerCreated, Broadcast, MasterGoes, context
  <2>2. \A w \in Workers :
            \/ workerPc'[w] = workerPc[w]
            \/ (workerPc[w] \in {"none", "asleep"} /\ workerPc'[w] \in {"first", "woken"})
    <3>1. CASE WorkerCreated
      <4>1. workerPc[spawned + 1] = "none" \/ spawned + 1 \notin Workers
        BY DEF IInv, TypeOK, SpawnedInv, Workers
      <4>2. QED
        BY <3>1, <4>1 DEF WorkerCreated, IInv, TypeOK
    <3>2. CASE Broadcast
      BY <3>2 DEF Broadcast, WakeAll, Asleep
    <3>3. QED
      BY <1>2, <3>1, <3>2
  <2>3. QED
    BY <2>1, <2>2, KInvQuiet DEF KInv, HoldingInv
<1>3. ASSUME close_all_listening_sockets PROVE KInv'
  <2>1. /\ UNCHANGED <<squeue, sq_head, sq_tail, held, client, workerPc, stop_flag>>
        /\ masterPc \notin {"produce", "full", "fullWoken"}
        /\ masterPc' \notin {"produce", "full", "fullWoken"}
    BY <1>3 DEF close_all_listening_sockets, MasterGoes, context
  <2>2. \A c \in Conns : conn[c] = "open" => conn'[c] = "open"
    BY <1>3 DEF close_all_listening_sockets
  <2>3. QED
    BY <2>1, <2>2, KInvQuiet DEF KInv, HoldingInv
<1>4. ASSUME accept_new_connection PROVE KInv'
  <2>1. PICK c \in Conns : /\ conn[c] = "backlog" /\ held' = c
                           /\ conn' = [conn EXCEPT ![c] = "open"]
    BY <1>4 DEF accept_new_connection
  <2>2. /\ UNCHANGED <<squeue, sq_head, sq_tail, client, workerPc, stop_flag>>
        /\ masterPc' = "produce"
    BY <1>4 DEF accept_new_connection, MasterGoes, context
  <2>3. Fill' = Fill /\ \A i : Slot(i)' = Slot(i)
    BY <2>2, SlotKept
  <2>4. /\ \A i \in 1..Fill : Slot(i) # c
        /\ \A w \in Workers : client[w] # c
        /\ \A d \in Conns : conn[d] = "open" => conn'[d] = "open"
        /\ conn'[c] = "open" /\ c # NoConn
    BY <2>1 DEF KInv, KeepingInv, IInv, TypeOK, Conns, NoConn
  <2>5. \A w \in Workers : client[w] # NoConn => client[w] \in Conns
    BY DEF IInv, TypeOK
  <2>6. HoldingInv'
    BY <2>1, <2>2, <2>4 DEF KInv, HoldingInv
  <2>7. KeepingInv'
    BY <2>1, <2>2, <2>3, <2>4, <2>5 DEF KInv, KeepingInv
  <2>8. QED
    BY <2>6, <2>7 DEF KInv
<1>5. ASSUME produce_socket PROVE KInv'
  <2>1. /\ held' = NoConn /\ masterPc' = "spawn" /\ held # NoConn /\ held \in Conns
        /\ UNCHANGED <<client, stop_flag, sq_tail, conn>>
    BY <1>5 DEF produce_socket, KInv, HoldingInv, IInv, TypeOK
  <2>2. \A w \in Workers : \/ workerPc'[w] = workerPc[w]
                           \/ (workerPc[w] = "asleep" /\ workerPc'[w] = "woken")
    BY <1>5 DEF produce_socket, SignalWorker, Asleep, IInv, TypeOK
  <2>3. HoldingInv'
    BY <2>1, <2>2 DEF KInv, HoldingInv
  <2>4. CASE ~RingFull /\ Enqueue
    <3>1. Fill < QueueSize /\ Fill \in Nat
      BY <2>4, QueueSizeAssumption DEF RingFull, IInv, TypeOK, Fill
    <3>2. /\ Fill' = Fill + 1
          /\ \A i \in 1..Fill : Slot(i)' = Slot(i)
          /\ Slot(Fill)' = held
      BY <2>1, <2>4, <3>1, EnqueueAppends DEF IInv
    <3>3. \A i \in 1..Fill' : Slot(i)' = IF i \in 1..Fill THEN Slot(i) ELSE held
      <4>1. TAKE i \in 1..Fill'
      <4>2. CASE i \in 1..Fill
        BY <3>2, <4>2
      <4>3. CASE i = Fill'
        BY <3>1, <3>2, <4>3
      <4>4. QED
        BY <3>1, <3>2, <4>2, <4>3
    <3>4. KeepingInv'
      BY <2>1, <3>1, <3>2, <3>3 DEF KInv, KeepingInv
    <3>5. QED
      BY <2>3, <3>4 DEF KInv
  <2>5. CASE UNCHANGED <<squeue, sq_head>>
    <3>1. Fill' = Fill /\ \A i : Slot(i)' = Slot(i)
      BY <2>1, <2>5, SlotKept
    <3>2. KeepingInv'
      BY <2>1, <3>1 DEF KInv, KeepingInv
    <3>3. QED
      BY <2>3, <3>2 DEF KInv
  <2>6. QED
    BY <1>5, <2>4, <2>5 DEF produce_socket
<1>6. QED
  BY <1>1, <1>2, <1>3, <1>4, <1>5 DEF Master

LEMMA KInvWorker ==
    ASSUME IInv, KInv, NEW w \in Workers, Worker(w) \/ SpuriousWorker(w)
    PROVE  KInv'
<1> USE DEF WorkerGoes
<1>0. /\ workerPc \in [Workers -> WorkerPcs]
      /\ client \in [Workers -> Conns \cup {NoConn}]
      /\ conn \in [Conns -> ConnStates]
  BY DEF IInv, TypeOK
<1>1. ASSUME WorkerGivesUp(w) \/ WaitNotEmpty(w) \/ ServeOrLeave(w) \/ SpuriousWorker(w)
      PROVE  KInv'
  <2>1. UNCHANGED <<squeue, sq_head, sq_tail, held, client, masterPc, stop_flag, conn>>
    BY <1>1 DEF WorkerGivesUp, WaitNotEmpty, ServeOrLeave, SpuriousWorker
  <2>2. ASSUME NEW v \in Workers
        PROVE  \/ workerPc'[v] = workerPc[v]
               \/ (client[v] = NoConn /\ workerPc'[v] \notin {"busy", "took"})
               \/ workerPc'[v] = "gone"
               \/ (workerPc'[v] = "busy" /\ client[v] # NoConn)
    <3>1. CASE v # w
      BY <1>0, <1>1, <3>1 DEF WorkerGivesUp, WaitNotEmpty, ServeOrLeave, SpuriousWorker
    <3>2. CASE v = w
      BY <1>0, <1>1, <3>2
      DEF WorkerGivesUp, WaitNotEmpty, ServeOrLeave, SpuriousWorker, WantsMutex, KInv,
          HoldingInv
    <3>3. QED
      BY <3>1, <3>2
  <2>3. held # NoConn <=> masterPc' \in {"produce", "full", "fullWoken"}
    BY <2>1 DEF KInv, HoldingInv
  <2>4. QED
    BY <2>1, <2>2, <2>3, KInvQuiet
<1>2. ASSUME consume_socket(w) PROVE KInv'
  <2>1. /\ workerPc[w] \in {"first", "again", "woken"}
        /\ workerPc' = [workerPc EXCEPT ![w] = "took"]
        /\ UNCHANGED <<squeue, held, stop_flag, conn>>
        /\ masterPc' = masterPc \/ (masterPc = "full" /\ masterPc' = "fullWoken")
    BY <1>2 DEF consume_socket, WantsMutex, SignalMaster
  <2>2. client[w] = NoConn
    BY <2>1 DEF KInv, HoldingInv
  <2>3. CASE sq_head > sq_tail /\ Dequeue(w)
    <3>1. /\ Fill' = Fill - 1 /\ Fill \in Nat /\ Fill >= 1
          /\ \A i \in 1..(Fill - 1) : Slot(i)' = Slot(i + 1)
          /\ client' = [client EXCEPT ![w] = Slot(1)]
      BY <2>1, <2>3, DequeueShifts DEF IInv, TypeOK, Fill
    <3>2. 1 \in 1..Fill /\ \A i \in 1..(Fill - 1) : i \in 1..Fill /\ i + 1 \in 1..Fill /\ i + 1 # 1
      BY <3>1
    <3>3. /\ Slot(1) \in Conns /\ conn[Slot(1)] = "open" /\ Slot(1) # NoConn
          /\ \A v \in Workers : client[v] # Slot(1)
          /\ held # Slot(1)
          /\ \A i \in 1..(Fill - 1) : Slot(i)' # Slot(1)
      BY <3>1, <3>2 DEF KInv, KeepingInv, Conns, NoConn
    <3>4. /\ client'[w] = Slot(1)
          /\ \A v \in Workers : v # w => client'[v] = client[v]
      BY <1>0, <3>1
    <3>5. HoldingInv'
      BY <1>0, <2>1, <3>3, <3>4 DEF KInv, HoldingInv
    <3>6. KeepingInv'
      <4>1. \A i \in 1..Fill' : Slot(i)' \in Conns /\ conn'[Slot(i)'] = "open"
        BY <2>1, <3>1, <3>2 DEF KInv, KeepingInv
      <4>2. \A i, j \in 1..Fill' : Slot(i)' = Slot(j)' => i = j
        BY <3>1, <3>2 DEF KInv, KeepingInv
      <4>3. \A v \in Workers : client'[v] # NoConn =>
               conn'[client'[v]] = "open" /\ \A i \in 1..Fill' : Slot(i)' # client'[v]
        BY <2>1, <3>1, <3>2, <3>3, <3>4 DEF KInv, KeepingInv
      <4>4. \A v, u \in Workers : client'[v] # NoConn /\ client'[v] = client'[u] => v = u
        BY <3>3, <3>4 DEF KInv, KeepingInv
      <4>5. held' # NoConn => /\ conn'[held'] = "open"
                              /\ \A i \in 1..Fill' : Slot(i)' # held'
                              /\ \A v \in Workers : client'[v] # held'
        BY <2>1, <3>1, <3>2, <3>3, <3>4 DEF KInv, KeepingInv
      <4>6. QED
        BY <4>1, <4>2, <4>3, <4>4, <4>5 DEF KeepingInv
    <3>7. QED
      BY <3>5, <3>6 DEF KInv
  <2>4. CASE sq_head = sq_tail /\ UNCHANGED <<client, sq_head, sq_tail>>
    <3>1. Fill' = Fill /\ \A i : Slot(i)' = Slot(i)
      BY <2>1, <2>4, SlotKept
    <3>2. stop_flag # 0
      BY <1>2, <2>4 DEF consume_socket
    <3>3. HoldingInv'
      BY <1>0, <2>1, <2>4, <3>2 DEF KInv, HoldingInv
    <3>4. KeepingInv'
      BY <2>1, <2>4, <3>1 DEF KInv, KeepingInv
    <3>5. QED
      BY <3>3, <3>4 DEF KInv
  <2>5. QED
    BY <1>2, <2>3, <2>4 DEF consume_socket
<1>3. ASSUME process_new_connection(w) PROVE KInv'
  <2>1. /\ workerPc[w] = "busy" /\ workerPc' = [workerPc EXCEPT ![w] = "again"]
        /\ UNCHANGED <<masterPc, squeue, sq_head, sq_tail, held, stop_flag>>
        /\ conn' = [conn EXCEPT ![client[w]] = "closed"]
        /\ client' = [client EXCEPT ![w] = NoConn]
    BY <1>3 DEF process_new_connection
  <2>2. client[w] # NoConn
    BY <2>1 DEF KInv, HoldingInv
  <2>3. Fill' = Fill /\ \A i : Slot(i)' = Slot(i)
    BY <2>1, SlotKept
  <2>4. \A c \in Conns : c # client[w] => conn'[c] = conn[c]
    BY <1>0, <2>1
  <2>5. /\ client'[w] = NoConn
        /\ \A v \in Workers : v # w => client'[v] = client[v]
        /\ \A v \in Workers : client[v] # NoConn => client[v] \in Conns
        /\ held # NoConn => held \in Conns
    BY <1>0, <2>1 DEF IInv, TypeOK
  <2>6. HoldingInv'
    BY <1>0, <2>1, <2>5 DEF KInv, HoldingInv
  <2>7. KeepingInv'
    BY <2>1, <2>2, <2>3, <2>4, <2>5 DEF KInv, KeepingInv
  <2>8. QED
    BY <2>6, <2>7 DEF KInv
<1>4. QED
  BY <1>1, <1>2, <1>3 DEF Worker

LEMMA KInvNext == IInv /\ KInv /\ [Next]_vars => KInv'
<1> SUFFICES ASSUME IInv, KInv, [Next]_vars PROVE KInv'
  OBVIOUS
<1>1. ASSUME NEW c \in Conns, Connect(c) PROVE KInv'
  <2>1. /\ UNCHANGED <<squeue, sq_head, sq_tail, held, client, masterPc, workerPc, stop_flag>>
        /\ \A d \in Conns : conn[d] = "open" => conn'[d] = "open"
    BY <1>1 DEF Connect, context, IInv, TypeOK
  <2>2. QED
    BY <2>1, KInvQuiet DEF KInv, HoldingInv
<1>2. ASSUME UNCHANGED vars PROVE KInv'
  <2>1. UNCHANGED <<squeue, sq_head, sq_tail, held, client, masterPc, workerPc, stop_flag, conn>>
    BY <1>2 DEF vars
  <2>2. QED
    BY <2>1, KInvQuiet DEF KInv, HoldingInv
<1>3. QED
  BY <1>1, <1>2, KInvApp, KInvMaster, KInvWorker DEF Next

LEMMA KInvInvariant == Spec => []KInv
BY IInvInvariant, KInvInit, KInvNext, PTL DEF Spec

-----------------------------------------------------------------------------

(* Every variable keeps its type: the ring never holds more than its slots,  *)
(* its indices never grow past twice its size, and the counter of idle       *)
(* workers stays between 0 and the number of workers.                       *)
THEOREM TypeCorrect == Spec => []TypeOK
<1>1. IInv => TypeOK
  BY DEF IInv
<1>2. QED
  BY <1>1, IInvInvariant, PTL

(* consume_socket and produce_socket lose no wakeup.                        *)
THEOREM NoWakeupIsLost == Spec => []NoLostWakeup
<1>1. IInv => NoLostWakeup
  <2>1. CountIn(workerPc, {"woken"}) = Cardinality(Woken)
    <3>1. {v \in Workers : workerPc[v] \in {"woken"}} = Woken
      BY DEF Woken
    <3>2. QED
      BY <3>1 DEF CountIn
  <2>2. QED
    BY <2>1 DEF IInv, Counting, NoLostWakeup
<1>2. QED
  BY <1>1, IInvInvariant, PTL

(* mg_start_worker_thread starts workers in time.                           *)
THEOREM PoolGrowsInTime == Spec => []PoolGrows
<1>1. IInv => PoolGrows
  <2>1. CountIn(workerPc, FreePcs) = Cardinality(Free)
    BY DEF CountIn, FreePcs, Free
  <2>2. SUFFICES ASSUME IInv, spawned < MaxWorkers, ~shortfall,
                        masterPc \notin {"spawn", "create"}
                 PROVE  Fill <= CountIn(workerPc, FreePcs)
    BY <2>1 DEF PoolGrows
  <2>3. Creating = 0 /\ Spawning = 0
    BY <2>2 DEF Creating, Spawning
  <2>4. QED
    BY <2>2, <2>3, NumbersTyped, CountsTyped DEF IInv, Counting
<1>2. QED
  BY <1>1, IInvInvariant, PTL

(* When mg_stop has returned, no thread of the server is left.              *)
THEOREM ThreadsAreJoined == Spec => []NoThreadOutlivesContext
<1>1. IInv => NoThreadOutlivesContext
  BY DEF IInv, Phases, NoThreadOutlivesContext
<1>2. QED
  BY <1>1, IInvInvariant, PTL

(* A connection is in one hand only, and open while it is.                  *)
THEOREM OneHand == Spec => []OneKeeper
<1>1. ASSUME IInv, KInv PROVE OneKeeper
  <2>1. SUFFICES ASSUME NEW c \in Conns
                 PROVE  /\ Cardinality(Keepers(c)) <= 1
                        /\ Keepers(c) # {} => conn[c] = "open"
    BY DEF OneKeeper
  <2>2. \A i \in 1..Fill : Queue[i] = Slot(i)
    BY DEF Queue, Slot
  <2>3. c # NoConn
    BY DEF Conns, NoConn
  <2>4. \A k \in Keepers(c) :
            \/ \E i \in 1..Fill : k = <<"queue", i>> /\ Slot(i) = c
            \/ \E w \in Workers : k = <<"worker", w>> /\ client[w] = c
            \/ k = <<"master", 0>> /\ held = c
    BY <2>2 DEF Keepers
  <2>5. ASSUME NEW k \in Keepers(c), NEW l \in Keepers(c) PROVE k = l /\ conn[c] = "open"
    BY <1>1, <2>3, <2>4 DEF KInv, KeepingInv
  <2>6. CASE Keepers(c) = {}
    BY <2>6, FS_EmptySet
  <2>7. CASE Keepers(c) # {}
    <3>1. PICK k : k \in Keepers(c)
      BY <2>7
    <3>2. Keepers(c) = {k}
      BY <2>5, <3>1
    <3>3. Cardinality({k}) = 1
      BY FS_Singleton
    <3>4. QED
      BY <2>5, <3>1, <3>2, <3>3
  <2>8. QED
    BY <2>6, <2>7
<1>2. QED
  BY <1>1, IInvInvariant, KInvInvariant, PTL

(* The threads keep the promise of HttpServer.                              *)
THEOREM ServesAsPromised == Spec => HttpServerRefinement
<1> DEFINE server == IF app = "down" THEN "none"
                     ELSE IF app = "up" THEN "running" ELSE "stopping"
           active == {w \in Workers : workerPc[w] = "busy"}
<1>1. Init => Server!Init
  BY DEF Init, Server!Init
<1>2. IInv /\ [Next]_vars => [Server!Next]_(Server!vars)
  <2> SUFFICES ASSUME IInv, [Next]_vars PROVE [Server!Next]_(Server!vars)
    OBVIOUS
  <2>0. workerPc \in [Workers -> WorkerPcs]
    BY DEF IInv, TypeOK
  <2>1. ASSUME mg_start PROVE Server!Start
    <3>1. active = {} /\ active' = {}
      BY <2>1 DEF mg_start, IInv, Phases, Running
    <3>2. app = "down" /\ app' = "up"
      BY <2>1 DEF mg_start
    <3>3. QED
      BY <3>1, <3>2 DEF Server!Start
  <2>2. ASSUME mg_stop PROVE Server!Stop
    BY <2>2 DEF mg_stop, Server!Stop
  <2>3. ASSUME mg_stop_returns PROVE Server!Gone
    <3>1. active' = {} /\ app' = "down"
      BY <2>3 DEF mg_stop_returns, IInv, Phases, Running
    <3>2. QED
      BY <3>1 DEF Server!Gone
  <2>4. ASSUME free_context PROVE Server!Stopped
    <3>1. active = {} /\ UNCHANGED active /\ app = "free" /\ app' = "down"
      BY <2>4 DEF free_context, IInv, Phases, Running
    <3>2. QED
      BY <3>1 DEF Server!Stopped
  <2>5. ASSUME NEW w \in Workers, workerPc[w] # "busy", workerPc'[w] = "busy", ServeOrLeave(w)
        PROVE  Server!Begin(w)
    <3>1. stop_flag = 0 /\ UNCHANGED app /\ w \in Running
      BY <2>5 DEF ServeOrLeave, WorkerGoes, IInv, TypeOK, Running
    <3>2. app = "up"
      BY <3>1 DEF IInv, Phases, TypeOK, AppPcs
    <3>3. active' = active \cup {w} /\ w \notin active
      BY <2>0, <2>5 DEF ServeOrLeave, WorkerGoes
    <3>4. QED
      BY <3>1, <3>2, <3>3 DEF Server!Begin
  <2>6. ASSUME NEW w \in Workers, process_new_connection(w) PROVE Server!End(w)
    <3>1. UNCHANGED app /\ active' = active \ {w} /\ w \in active
      BY <2>0, <2>6 DEF process_new_connection, WorkerGoes
    <3>2. QED
      BY <3>1 DEF Server!End
  <2>7. ASSUME NEW w \in Workers,
               \/ WorkerGivesUp(w) \/ WaitNotEmpty(w) \/ consume_socket(w) \/ SpuriousWorker(w)
               \/ (ServeOrLeave(w) /\ workerPc'[w] # "busy")
        PROVE  UNCHANGED Server!vars
    <3>1. UNCHANGED app /\ workerPc[w] # "busy" /\ workerPc'[w] # "busy"
          /\ \A v \in Workers : v # w => workerPc'[v] = workerPc[v]
      BY <2>0, <2>7
      DEF WorkerGivesUp, WaitNotEmpty, consume_socket, SpuriousWorker, ServeOrLeave,
          WorkerGoes, WantsMutex
    <3>2. UNCHANGED active
      BY <3>1
    <3>3. QED
      BY <3>1, <3>2 DEF Server!vars
  <2>8. ASSUME \/ StopSeen \/ mg_start_fails \/ UNCHANGED vars
               \/ (\E c \in Conns : Connect(c))
        PROVE  UNCHANGED Server!vars
    BY <2>8 DEF StopSeen, mg_start_fails, vars, Connect, Server!vars
  <2>9. ASSUME Master \/ SpuriousMaster PROVE UNCHANGED Server!vars
    <3>1. UNCHANGED app
      BY <2>9
      DEF Master, SpuriousMaster, Poll, accept_new_connection, WaitNotFull, produce_socket,
          mg_start_worker_thread, WorkerCreated, WorkerNotCreated,
          close_all_listening_sockets, Broadcast, MasterReturns, MasterGoes
    <3>2. CASE produce_socket \/ Broadcast \/ WorkerCreated
      <4>1. ASSUME NEW w \in Workers PROVE workerPc[w] = "busy" <=> workerPc'[w] = "busy"
        <5>1. CASE produce_socket
          BY <2>0, <5>1 DEF produce_socket, SignalWorker, Asleep
        <5>2. CASE Broadcast
          BY <5>2 DEF Broadcast, WakeAll, Asleep
        <5>3. CASE WorkerCreated
          <6>1. spawned + 1 \in Workers => workerPc[spawned + 1] = "none"
            BY DEF IInv, TypeOK, SpawnedInv, Workers
          <6>2. QED
            BY <2>0, <5>3, <6>1 DEF WorkerCreated
        <5>4. QED
          BY <3>2, <5>1, <5>2, <5>3
      <4>2. QED
        BY <3>1, <4>1 DEF Server!vars
    <3>3. CASE ~(produce_socket \/ Broadcast \/ WorkerCreated)
      <4>1. UNCHANGED workerPc
        BY <2>9, <3>3
        DEF Master, SpuriousMaster, Poll, accept_new_connection, WaitNotFull,
            mg_start_worker_thread, WorkerNotCreated, close_all_listening_sockets,
            MasterReturns
      <4>2. QED
        BY <3>1, <4>1 DEF Server!vars
    <3>4. QED
      BY <3>2, <3>3
  <2>10. QED
    BY <2>1, <2>2, <2>3, <2>4, <2>5, <2>6, <2>7, <2>8, <2>9
    DEF Next, App, Worker, Server!Next, ServeOrLeave, WorkerGoes
<1>3. QED
  BY <1>1, <1>2, IInvInvariant, PTL DEF Spec, HttpServerRefinement, Server!Spec

(* The queue is the sequence of the slots in use. *)
QueueFacts == /\ Queue \in Seq(Conns) /\ Len(Queue) = Fill
              /\ \A i \in 1..Fill : Queue[i] = Slot(i)

LEMMA QueueIsSeq == TypeOK /\ KInv => QueueFacts
<1> SUFFICES ASSUME TypeOK, KInv PROVE QueueFacts
  OBVIOUS
<1>1. Fill \in Nat
  BY NumbersTyped
<1>2. Queue = [i \in 1..Fill |-> Slot(i)]
  BY DEF Queue, Slot
<1>3. \A i \in 1..Fill : Slot(i) \in Conns
  BY DEF KInv, KeepingInv
<1>4. Queue \in [1..Fill -> Conns]
  BY <1>2, <1>3
<1>5. Queue \in Seq(Conns)
  BY <1>1, <1>4, SeqDef
<1>6. Len(Queue) = Fill
  BY <1>1, <1>4, <1>5, LenProperties
<1>7. QED
  BY <1>2, <1>5, <1>6 DEF QueueFacts

LEMMA QueueIsSeqNext == TypeOK' /\ KInv' => QueueFacts'
BY QueueIsSeq, PTL

(* The ring is a bounded first-come-first-served queue.                     *)
THEOREM RingIsQueue == Spec => QueueRefinement
<1>1. Init => Connections!Init
  <2> SUFFICES ASSUME Init PROVE Queue = <<>>
    BY DEF Connections!Init
  <2>1. TypeOK /\ KInv
    BY IInvInit, KInvInit DEF IInv
  <2>2. Len(Queue) = 0 /\ Queue \in Seq(Conns)
    BY <2>1, QueueIsSeq DEF Init, Fill, QueueFacts
  <2>3. QED
    BY <2>2, EmptySeq
<1>2. ASSUME IInv, KInv, IInv', KInv', [Next]_vars
      PROVE  [Connections!Next]_Queue
  <2>1. /\ Queue \in Seq(Conns) /\ Len(Queue) = Fill
        /\ \A i \in 1..Fill : Queue[i] = Slot(i)
    BY <1>2, QueueIsSeq DEF IInv, QueueFacts
  <2>2. /\ Queue' \in Seq(Conns) /\ Len(Queue') = Fill'
        /\ \A i \in 1..Fill' : Queue'[i] = Slot(i)'
    BY <1>2, QueueIsSeqNext DEF IInv, QueueFacts
  <2>3. ASSUME UNCHANGED <<squeue, sq_head, sq_tail>> PROVE UNCHANGED Queue
    BY <2>3 DEF Queue, Fill
  <2>4. ASSUME produce_socket PROVE [Connections!Next]_Queue
    <3>1. CASE ~RingFull /\ Enqueue
      <4>1. Fill < QueueSize /\ Fill \in Nat /\ held \in Conns
        BY <1>2, <2>4, <3>1, QueueSizeAssumption
        DEF RingFull, IInv, TypeOK, Fill, produce_socket, KInv, HoldingInv
      <4>2. /\ Fill' = Fill + 1
            /\ \A i \in 1..Fill : Slot(i)' = Slot(i)
            /\ Slot(Fill)' = held
        BY <1>2, <2>4, <3>1, <4>1, EnqueueAppends DEF IInv, produce_socket
      <4>3. /\ Append(Queue, held) \in Seq(Conns)
            /\ Len(Append(Queue, held)) = Fill + 1
            /\ \A i \in 1..Fill : Append(Queue, held)[i] = Queue[i]
            /\ Append(Queue, held)[Fill + 1] = held
        BY <2>1, <4>1, AppendProperties
      <4>4. \A i \in 1..(Fill + 1) : Queue'[i] = Append(Queue, held)[i]
        <5>1. TAKE i \in 1..(Fill + 1)
        <5>2. CASE i \in 1..Fill
          BY <2>1, <2>2, <4>1, <4>2, <4>3, <5>2
        <5>3. CASE i = Fill + 1
          BY <2>2, <4>1, <4>2, <4>3, <5>3
        <5>4. i \in 1..Fill \/ i = Fill + 1
          BY <4>1, <5>1
        <5>5. QED
          BY <5>2, <5>3, <5>4
      <4>5. Queue' = Append(Queue, held)
        BY <2>2, <4>2, <4>3, <4>4, SeqEqual
      <4>6. QED
        BY <2>1, <4>1, <4>5 DEF Connections!Next, Connections!Put
    <3>2. CASE UNCHANGED <<squeue, sq_head>>
      BY <2>3, <2>4, <3>2 DEF produce_socket
    <3>3. QED
      BY <2>4, <3>1, <3>2 DEF produce_socket
  <2>5. ASSUME NEW w \in Workers, consume_socket(w) PROVE [Connections!Next]_Queue
    <3>1. UNCHANGED squeue
      BY <2>5 DEF consume_socket
    <3>2. CASE sq_head > sq_tail /\ Dequeue(w)
      <4>1. /\ Fill' = Fill - 1 /\ Fill \in Nat /\ Fill >= 1
            /\ \A i \in 1..(Fill - 1) : Slot(i)' = Slot(i + 1)
        <5>1. Fill \in Nat /\ Fill >= 1
          BY <1>2, <3>2 DEF IInv, TypeOK, Fill
        <5>2. QED
          BY <1>2, <3>1, <3>2, <5>1, DequeueShifts DEF IInv
      <4>2. Queue # <<>>
        BY <2>1, <4>1, EmptySeq
      <4>3. /\ Tail(Queue) \in Seq(Conns)
            /\ Len(Tail(Queue)) = Fill - 1
            /\ \A i \in 1..(Fill - 1) : Tail(Queue)[i] = Queue[i + 1]
        BY <2>1, <4>2, HeadTailProperties
      <4>4. \A i \in 1..(Fill - 1) : i + 1 \in 1..Fill
        BY <4>1
      <4>5. Queue' = Tail(Queue)
        BY <2>1, <2>2, <4>1, <4>3, <4>4, SeqEqual
      <4>6. QED
        BY <4>2, <4>5 DEF Connections!Next, Connections!Take
    <3>3. CASE UNCHANGED <<sq_head, sq_tail>>
      BY <2>3, <3>1, <3>3
    <3>4. QED
      BY <2>5, <3>2, <3>3 DEF consume_socket
  <2>6. ASSUME mg_start \/ free_context PROVE Connections!Clear
    <3>1. Fill' = 0
      BY <2>6 DEF mg_start, free_context, Fill
    <3>2. QED
      BY <2>2, <3>1, EmptySeq DEF Connections!Clear
  <2>7. ASSUME \/ mg_start_fails \/ mg_stop \/ mg_stop_returns \/ StopSeen \/ UNCHANGED vars
               \/ Poll \/ accept_new_connection \/ WaitNotFull \/ mg_start_worker_thread
               \/ WorkerCreated \/ WorkerNotCreated \/ close_all_listening_sockets
               \/ Broadcast \/ MasterReturns \/ SpuriousMaster
               \/ (\E c \in Conns : Connect(c))
               \/ \E w \in Workers : \/ WorkerGivesUp(w) \/ WaitNotEmpty(w) \/ ServeOrLeave(w)
                                     \/ process_new_connection(w) \/ SpuriousWorker(w)
        PROVE  UNCHANGED Queue
    BY <2>3, <2>7
    DEF mg_start_fails, mg_stop, mg_stop_returns, StopSeen, vars, context, Poll,
        accept_new_connection, WaitNotFull, mg_start_worker_thread, WorkerCreated,
        WorkerNotCreated, close_all_listening_sockets, Broadcast, MasterReturns,
        SpuriousMaster, Connect, WorkerGivesUp, WaitNotEmpty, ServeOrLeave,
        process_new_connection, SpuriousWorker
  <2>8. QED
    BY <1>2, <2>4, <2>5, <2>6, <2>7 DEF Next, App, Master, Worker, Connections!Next
<1>3. QED
  BY <1>1, <1>2, IInvInvariant, KInvInvariant, PTL DEF Spec, QueueRefinement, Connections!Spec

-----------------------------------------------------------------------------
(***************************************************************************)
(* That a stop comes to its end: once mg_stop has raised the flag every     *)
(* step of a thread uses up some of a measure that no step raises, and     *)
(* there is always a thread that can take one, unless the master waits for *)
(* room in the queue.                                                      *)
(***************************************************************************)

Stopping == app \in {"wait", "free"}

AppLeft == CASE app = "wait" -> 2 [] app = "free" -> 1 [] OTHER -> 0

MasterLeft ==
    CASE masterPc = "accept" -> 9
      [] masterPc \in {"produce", "full", "fullWoken"} -> 8
      [] masterPc = "spawn" -> 7
      [] masterPc = "create" -> 6
      [] masterPc = "poll" -> 5
      [] masterPc = "closing" -> 4
      [] masterPc = "broadcast" -> 3
      [] masterPc = "join" -> 2
      [] masterPc = "done" -> 1
      [] masterPc = "none" -> 0

(* A worker that is not gone has a step to take, one that has not taken yet  *)
(* another, and one that does not even look at the queue, or does not exist, *)
(* a third.                                                                  *)
Step1 == WorkerPcs \ {"gone"}
Step2 == Step1 \ {"took"}
Step3 == Step2 \ WantsMutex

WorkersLeft == CountIn(workerPc, Step1) + CountIn(workerPc, Step2) + CountIn(workerPc, Step3)

StopRank == AppLeft + MasterLeft + WorkersLeft

MostStopSteps == 11 + 3 * MaxWorkers

ThreadStep == Master \/ StopSeen \/ free_context \/ \E w \in Workers : Worker(w)

StopCounts == Stopping => /\ ThreadStep => StopRank' < StopRank
                          /\ StopRank' <= StopRank

(* The conditions under which a thread has a step to take. *)
MasterCanMove ==
    /\ masterPc = "accept" => \E c \in Conns : conn[c] = "backlog"
    /\ masterPc \notin {"none", "full", "join", "done"}

WorkerCanMove == \E w \in 1..spawned : workerPc[w] \in {"first", "again", "woken", "took", "busy"}

StopGoesOn ==
    Stopping => \/ masterPc = "full"
                \/ MasterCanMove
                \/ masterPc = "join" /\ (AllJoined \/ WorkerCanMove)
                \/ masterPc = "done" /\ stop_flag = 2

(* Nobody is asleep when the master begins to join. *)
NobodySleepsOn == masterPc \in {"join", "done"} => Asleep = {}

AcceptInv == masterPc = "accept" => \E c \in Conns : conn[c] = "backlog"

LEMMA CountAtMost ==
    ASSUME NEW f, NEW P PROVE CountIn(f, P) \in Nat /\ CountIn(f, P) <= MaxWorkers
<1> DEFINE S == {v \in Workers : f[v] \in P}
<1>1. IsFiniteSet(Workers) /\ Cardinality(Workers) = MaxWorkers
  BY MaxWorkersAssumption, FS_Interval DEF Workers
<1>2. Cardinality(S) <= Cardinality(Workers)
  <2>1. S \in SUBSET Workers
    OBVIOUS
  <2>2. QED
    BY <1>1, <2>1, FS_Subset
<1>3. QED
  BY <1>1, <1>2, CountType DEF CountIn

LEMMA CountShrinks ==
    ASSUME NEW f, NEW g, NEW P, \A v \in Workers : g[v] \in P => f[v] \in P
    PROVE  CountIn(g, P) <= CountIn(f, P)
<1> DEFINE S == {v \in Workers : f[v] \in P}
           T == {v \in Workers : g[v] \in P}
<1>1. T \in SUBSET S /\ IsFiniteSet(S)
  BY WorkersFinite
<1>2. QED
  BY <1>1, FS_Subset DEF CountIn

LEMMA RankTyped ==
    /\ WorkersLeft \in Nat /\ WorkersLeft <= 3 * MaxWorkers
    /\ AppLeft \in 0..2 /\ (TypeOK => MasterLeft \in 0..9)
<1>1. /\ CountIn(workerPc, Step1) \in 0..MaxWorkers /\ CountIn(workerPc, Step2) \in 0..MaxWorkers
      /\ CountIn(workerPc, Step3) \in 0..MaxWorkers
  BY CountAtMost, MaxWorkersAssumption
<1>2. WorkersLeft \in Nat /\ WorkersLeft <= 3 * MaxWorkers
  BY <1>1, MaxWorkersAssumption DEF WorkersLeft
<1>3. QED
  BY <1>2 DEF AppLeft, MasterLeft, TypeOK, MasterPcs

LEMMA RankTypedNext == TypeOK' => WorkersLeft' \in Nat /\ AppLeft' \in 0..2 /\ MasterLeft' \in 0..9
<1>1. /\ CountIn(workerPc', Step1) \in Nat /\ CountIn(workerPc', Step2) \in Nat
      /\ CountIn(workerPc', Step3) \in Nat
  BY CountType
<1>2. WorkersLeft' \in Nat
  BY <1>1 DEF WorkersLeft
<1>3. QED
  BY <1>2 DEF AppLeft, MasterLeft, TypeOK, MasterPcs

(* One worker goes on towards its end. *)
LEMMA WorkerAdvances ==
    ASSUME TypeOK, NEW w \in Workers, NEW to, workerPc' = [workerPc EXCEPT ![w] = to],
           \/ workerPc[w] \in WantsMutex \cup {"took"} /\ to = "gone"
           \/ workerPc[w] \in WantsMutex /\ to = "took"
           \/ workerPc[w] = "busy" /\ to = "again"
           \/ workerPc[w] = "asleep" /\ to = "woken"
           \/ workerPc[w] = "none" /\ to = "first"
    PROVE  WorkersLeft' < WorkersLeft
<1>1. workerPc \in [Workers -> WorkerPcs]
  BY DEF TypeOK
<1> DEFINE In(pc, P) == IF pc \in P THEN 1 ELSE 0
<1>2. /\ CountIn(workerPc', Step1) = CountIn(workerPc, Step1) + In(to, Step1) - In(workerPc[w], Step1)
      /\ CountIn(workerPc', Step2) = CountIn(workerPc, Step2) + In(to, Step2) - In(workerPc[w], Step2)
      /\ CountIn(workerPc', Step3) = CountIn(workerPc, Step3) + In(to, Step3) - In(workerPc[w], Step3)
  BY <1>1, Moves
<1>3. /\ CountIn(workerPc, Step1) \in Nat /\ CountIn(workerPc, Step2) \in Nat
      /\ CountIn(workerPc, Step3) \in Nat
  BY CountType
<1>4. /\ In(to, Step1) \in 0..1 /\ In(to, Step2) \in 0..1 /\ In(to, Step3) \in 0..1
      /\ In(workerPc[w], Step1) \in 0..1 /\ In(workerPc[w], Step2) \in 0..1
      /\ In(workerPc[w], Step3) \in 0..1
      /\ In(to, Step1) + In(to, Step2) + In(to, Step3)
           < In(workerPc[w], Step1) + In(workerPc[w], Step2) + In(workerPc[w], Step3)
  BY DEF Step1, Step2, Step3, WorkerPcs, WantsMutex
<1> HIDE DEF In
<1>5. QED
  BY <1>2, <1>3, <1>4 DEF WorkersLeft

LEMMA WorkersStay == UNCHANGED workerPc => WorkersLeft' = WorkersLeft
BY DEF WorkersLeft

LEMMA WakingCounts ==
    ASSUME TypeOK, SignalWorker
    PROVE  WorkersLeft' <= WorkersLeft
<1>1. CASE UNCHANGED workerPc
  BY <1>1, WorkersStay, RankTyped
<1>2. CASE \E w \in Asleep : workerPc' = [workerPc EXCEPT ![w] = "woken"]
  <2>1. PICK w \in Asleep : workerPc' = [workerPc EXCEPT ![w] = "woken"]
    BY <1>2
  <2>2. w \in Workers /\ workerPc[w] = "asleep"
    BY DEF Asleep
  <2>3. WorkersLeft' < WorkersLeft
    BY <2>1, <2>2, WorkerAdvances
  <2>4. WorkersLeft' \in Nat
    BY CountType DEF WorkersLeft
  <2>5. QED
    BY <2>3, <2>4, RankTyped
<1>3. QED
  BY <1>1, <1>2 DEF SignalWorker

LEMMA WakingAllCounts ==
    ASSUME TypeOK, WakeAll
    PROVE  WorkersLeft' <= WorkersLeft
<1>1. \A v \in Workers : workerPc'[v] = IF workerPc[v] = "asleep" THEN "woken" ELSE workerPc[v]
  BY DEF WakeAll, Asleep
<1>2. ASSUME NEW P \in {Step1, Step2, Step3}
      PROVE  CountIn(workerPc', P) <= CountIn(workerPc, P)
  <2>1. \A v \in Workers : workerPc'[v] \in P => workerPc[v] \in P
    BY <1>1 DEF Step1, Step2, Step3, WantsMutex, WorkerPcs
  <2>2. QED
    BY <2>1, CountShrinks
<1>3. /\ CountIn(workerPc', Step1) <= CountIn(workerPc, Step1)
      /\ CountIn(workerPc', Step2) <= CountIn(workerPc, Step2)
      /\ CountIn(workerPc', Step3) <= CountIn(workerPc, Step3)
  BY <1>2
<1>4. /\ CountIn(workerPc', Step1) \in Nat /\ CountIn(workerPc', Step2) \in Nat
      /\ CountIn(workerPc', Step3) \in Nat /\ CountIn(workerPc, Step1) \in Nat
      /\ CountIn(workerPc, Step2) \in Nat /\ CountIn(workerPc, Step3) \in Nat
  BY CountType
<1>5. QED
  BY <1>3, <1>4 DEF WorkersLeft

(* The flag is up, and the master is there, while mg_stop waits. *)
LEMMA StoppingFacts ==
    ASSUME IInv, Stopping
    PROVE  stop_flag # 0 /\ masterPc # "none" /\ TypeOK
BY DEF IInv, Phases, Stopping

LEMMA MasterCounts ==
    ASSUME IInv, IInv', Stopping, Master
    PROVE  StopRank' < StopRank
<1>1. stop_flag # 0 /\ TypeOK /\ TypeOK'
  BY StoppingFacts DEF IInv
<1>2. app' = app
  BY DEF Master, Poll, accept_new_connection, WaitNotFull, produce_socket, mg_start_worker_thread,
         WorkerCreated, WorkerNotCreated, close_all_listening_sockets, Broadcast, MasterReturns,
         MasterGoes
<1>3. MasterLeft' < MasterLeft
  BY <1>1 DEF Master, Poll, accept_new_connection, WaitNotFull, produce_socket,
         mg_start_worker_thread, WorkerCreated, WorkerNotCreated, close_all_listening_sockets,
         Broadcast, MasterReturns, MasterGoes, MasterLeft
<1>4. WorkersLeft' <= WorkersLeft
  <2>1. CASE produce_socket
    BY <1>1, <2>1, WakingCounts DEF produce_socket
  <2>2. CASE Broadcast
    BY <1>1, <2>2, WakingAllCounts DEF Broadcast
  <2>3. CASE WorkerCreated
    <3>1. /\ spawned + 1 \in Workers /\ workerPc[spawned + 1] = "none"
          /\ workerPc' = [workerPc EXCEPT ![spawned + 1] = "first"]
      BY <1>1, <2>3, MaxWorkersAssumption
      DEF WorkerCreated, MasterGoes, IInv, SpawnedInv, TypeOK, Workers
    <3>2. WorkersLeft' < WorkersLeft
      BY <1>1, <3>1, WorkerAdvances
    <3>3. QED
      BY <1>1, <3>2, RankTyped, RankTypedNext
  <2>4. CASE UNCHANGED workerPc
    BY <2>4, WorkersStay, RankTyped
  <2>5. QED
    BY <2>1, <2>2, <2>3, <2>4 DEF Master, Poll, accept_new_connection, WaitNotFull,
       mg_start_worker_thread, WorkerNotCreated, close_all_listening_sockets, MasterReturns
<1>5. AppLeft' = AppLeft
  BY <1>2 DEF AppLeft
<1>6. QED
  BY <1>1, <1>3, <1>4, <1>5, RankTyped, RankTypedNext DEF StopRank

LEMMA WorkerCounts ==
    ASSUME IInv, IInv', Stopping, NEW w \in Workers, Worker(w) \/ SpuriousWorker(w)
    PROVE  StopRank' < StopRank
<1>1. stop_flag # 0 /\ TypeOK /\ TypeOK'
  BY StoppingFacts DEF IInv
<1>2. app' = app /\ (masterPc' = masterPc \/ (masterPc = "full" /\ masterPc' = "fullWoken"))
  BY DEF Worker, WorkerGivesUp, WaitNotEmpty, consume_socket, ServeOrLeave,
         process_new_connection, SpuriousWorker, WorkerGoes, SignalMaster
<1>3. AppLeft' = AppLeft /\ MasterLeft' = MasterLeft
  BY <1>2 DEF AppLeft, MasterLeft
<1>4. WorkersLeft' < WorkersLeft
  <2>1. CASE WorkerGivesUp(w)
    BY <1>1, <2>1, WorkerAdvances DEF WorkerGivesUp, WorkerGoes, WantsMutex
  <2>2. CASE consume_socket(w)
    BY <1>1, <2>2, WorkerAdvances DEF consume_socket, WorkerGoes
  <2>3. CASE ServeOrLeave(w)
    BY <1>1, <2>3, WorkerAdvances DEF ServeOrLeave, WorkerGoes
  <2>4. CASE process_new_connection(w)
    BY <1>1, <2>4, WorkerAdvances DEF process_new_connection, WorkerGoes
  <2>5. CASE SpuriousWorker(w)
    BY <1>1, <2>5, WorkerAdvances DEF SpuriousWorker, WorkerGoes
  <2>6. CASE WaitNotEmpty(w)
    BY <1>1, <2>6 DEF WaitNotEmpty
  <2>7. QED
    BY <2>1, <2>2, <2>3, <2>4, <2>5, <2>6 DEF Worker
<1>5. QED
  BY <1>1, <1>3, <1>4, RankTyped, RankTypedNext DEF StopRank

LEMMA AppCounts ==
    ASSUME IInv, IInv', Stopping, App
    PROVE  StopRank' < StopRank
<1>1. TypeOK /\ TypeOK'
  BY DEF IInv
<1>2. StopSeen \/ free_context
  BY DEF App, mg_start, mg_start_fails, mg_stop, mg_stop_returns, Stopping
<1>3. AppLeft' < AppLeft /\ MasterLeft' <= MasterLeft /\ WorkersLeft' = WorkersLeft
  <2>1. WorkersLeft' = WorkersLeft
    BY <1>2, WorkersStay DEF StopSeen, free_context
  <2>2. AppLeft' < AppLeft
    BY <1>2 DEF StopSeen, free_context, AppLeft
  <2>3. CASE StopSeen
    <3>1. MasterLeft' = MasterLeft
      BY <2>3 DEF StopSeen, MasterLeft
    <3>2. QED
      BY <1>1, <2>1, <2>2, <3>1, RankTyped
  <2>4. CASE free_context
    BY <2>1, <2>2, <2>4 DEF free_context, MasterLeft
  <2>5. QED
    BY <1>2, <2>3, <2>4
<1>4. QED
  BY <1>1, <1>3, RankTyped, RankTypedNext DEF StopRank

LEMMA IdleCounts ==
    ASSUME IInv, IInv', \/ SpuriousMaster \/ UNCHANGED vars
                        \/ \E c \in Conns : Connect(c)
    PROVE  StopRank' <= StopRank
<1>1. app' = app /\ workerPc' = workerPc
      /\ (masterPc' = masterPc \/ (masterPc = "full" /\ masterPc' = "fullWoken"))
  BY DEF SpuriousMaster, MasterGoes, Connect, vars
<1>2. AppLeft' = AppLeft /\ MasterLeft' = MasterLeft /\ WorkersLeft' = WorkersLeft
  BY <1>1, WorkersStay DEF AppLeft, MasterLeft
<1>3. QED
  BY <1>2, RankTyped DEF StopRank, IInv

LEMMA StepCounts == IInv /\ IInv' /\ [Next]_vars => StopCounts
<1> SUFFICES ASSUME IInv, IInv', [Next]_vars, Stopping
             PROVE  /\ ThreadStep => StopRank' < StopRank
                    /\ StopRank' <= StopRank
  BY DEF StopCounts
<1>1. StopRank \in Nat /\ StopRank' \in Nat
  BY RankTyped, RankTypedNext DEF StopRank, IInv
<1>2. ThreadStep => StopRank' < StopRank
  BY MasterCounts, WorkerCounts, AppCounts DEF ThreadStep, App
<1>3. StopRank' < StopRank \/ StopRank' <= StopRank
  BY MasterCounts, WorkerCounts, AppCounts, IdleCounts DEF Next
<1>4. QED
  BY <1>1, <1>2, <1>3

-----------------------------------------------------------------------------
(* Nobody is left waiting *)

SInv == NobodySleepsOn /\ AcceptInv

LEMMA SInvNext == IInv /\ KInv /\ SInv /\ [Next]_vars => SInv'
<1> SUFFICES ASSUME IInv, KInv, SInv, [Next]_vars PROVE SInv'
  OBVIOUS
<1>0. /\ workerPc \in [Workers -> WorkerPcs] /\ conn \in [Conns -> ConnStates]
      /\ client \in [Workers -> Conns \cup {NoConn}]
  BY DEF IInv, TypeOK
<1>1. CASE App
  BY <1>1 DEF App, mg_start, mg_start_fails, mg_stop, mg_stop_returns, StopSeen, free_context,
     vars, SInv, NobodySleepsOn, AcceptInv, Asleep
<1>2. CASE Master
  <2>1. CASE Broadcast
    BY <1>0, <2>1 DEF Broadcast, WakeAll, MasterGoes, SInv, NobodySleepsOn, AcceptInv, Asleep
  <2>2. CASE MasterReturns
    BY <2>2 DEF MasterReturns, MasterGoes, SInv, NobodySleepsOn, AcceptInv, Asleep
  <2>3. CASE Poll
    BY <2>3 DEF Poll, MasterGoes, SInv, NobodySleepsOn, AcceptInv
  <2>4. CASE ~(Broadcast \/ MasterReturns \/ Poll)
    BY <1>2, <2>4 DEF Master, accept_new_connection, WaitNotFull, produce_socket,
       mg_start_worker_thread, WorkerCreated, WorkerNotCreated, close_all_listening_sockets,
       MasterGoes, SInv, NobodySleepsOn, AcceptInv
  <2>5. QED
    BY <2>1, <2>2, <2>3, <2>4
<1>3. CASE SpuriousMaster
  BY <1>3 DEF SpuriousMaster, MasterGoes, SInv, NobodySleepsOn, AcceptInv
<1>4. ASSUME NEW w \in Workers, Worker(w) \/ SpuriousWorker(w) PROVE SInv'
  <2>1. masterPc' = masterPc \/ (masterPc = "full" /\ masterPc' = "fullWoken")
    BY <1>4 DEF Worker, WorkerGivesUp, WaitNotEmpty, consume_socket, ServeOrLeave,
           process_new_connection, SpuriousWorker, WorkerGoes, SignalMaster
  <2>2. NobodySleepsOn'
    <3>1. SUFFICES ASSUME masterPc \in {"join", "done"} PROVE Asleep' = {}
      BY <2>1 DEF NobodySleepsOn
    <3>2. Asleep = {} /\ stop_flag # 0
      BY <3>1 DEF SInv, NobodySleepsOn, IInv, Phases, TypeOK, AppPcs
    <3>3. ~WaitNotEmpty(w) /\ ~SpuriousWorker(w)
      BY <3>2 DEF WaitNotEmpty, SpuriousWorker, WorkerGoes, Asleep
    <3>4. \E to \in {"took", "busy", "again", "gone"} : workerPc' = [workerPc EXCEPT ![w] = to]
      BY <1>4, <3>3 DEF Worker, WorkerGivesUp, consume_socket, ServeOrLeave,
                       process_new_connection, WorkerGoes
    <3>5. QED
      BY <1>0, <3>2, <3>4 DEF Asleep
  <2>3. AcceptInv'
    <3>1. SUFFICES ASSUME masterPc = "accept" PROVE \E c \in Conns : conn'[c] = "backlog"
      BY <2>1 DEF AcceptInv
    <3>2. PICK c \in Conns : conn[c] = "backlog"
      BY <3>1 DEF SInv, AcceptInv
    <3>3. CASE process_new_connection(w)
      <4>1. conn[client[w]] = "open" /\ conn' = [conn EXCEPT ![client[w]] = "closed"]
        BY <3>3 DEF process_new_connection, WorkerGoes, KInv, HoldingInv, KeepingInv
      <4>2. c # client[w]
        BY <3>2, <4>1
      <4>3. QED
        BY <1>0, <3>2, <4>1, <4>2
    <3>4. CASE UNCHANGED conn
      BY <3>2, <3>4
    <3>5. QED
      BY <1>4, <3>3, <3>4 DEF Worker, WorkerGivesUp, WaitNotEmpty, consume_socket, ServeOrLeave,
                             SpuriousWorker
  <2>4. QED
    BY <2>2, <2>3 DEF SInv
<1>5. ASSUME NEW c \in Conns, Connect(c) PROVE SInv'
  BY <1>0, <1>5 DEF Connect, SInv, NobodySleepsOn, AcceptInv, Asleep
<1>6. CASE UNCHANGED vars
  BY <1>6 DEF vars, SInv, NobodySleepsOn, AcceptInv, Asleep
<1>7. QED
  BY <1>1, <1>2, <1>3, <1>4, <1>5, <1>6 DEF Next

LEMMA SInvInvariant == Spec => []SInv
<1>1. Init => SInv
  BY DEF Init, SInv, NobodySleepsOn, AcceptInv
<1>2. QED
  BY <1>1, SInvNext, IInvInvariant, KInvInvariant, PTL DEF Spec

(* From the moment mg_stop has raised the flag the threads take at most      *)
(* MostStopSteps steps until it returns, whatever they were doing; neither   *)
(* a client nor a spurious wakeup makes them more.                          *)
THEOREM StopIsBounded == Spec => [](StopRank \in 0..MostStopSteps) /\ [][StopCounts]_vars
<1>1. IInv => StopRank \in 0..MostStopSteps
  <2> SUFFICES ASSUME IInv PROVE StopRank \in 0..MostStopSteps
    OBVIOUS
  <2>1. /\ WorkersLeft \in Nat /\ WorkersLeft <= 3 * MaxWorkers
        /\ AppLeft \in 0..2 /\ MasterLeft \in 0..9
    BY RankTyped DEF IInv
  <2>2. QED
    BY <2>1, MaxWorkersAssumption DEF StopRank, MostStopSteps
<1>2. IInv /\ IInv' /\ [Next]_vars => [StopCounts]_vars
  BY StepCounts
<1>3. QED
  BY <1>1, <1>2, IInvInvariant, PTL DEF Spec

(* While mg_stop waits, some thread has a step to take: the threads never    *)
(* wait for one another in a ring, and nobody sleeps through the broadcast   *)
(* on sq_full although stop_flag is set without the mutex.  The one          *)
(* exception is a master that waits for room in the queue: nobody signals    *)
(* sq_empty for a stop.                                                     *)
THEOREM StopIsNeverStuck == Spec => []StopGoesOn
<1>1. IInv /\ SInv => StopGoesOn
  <2> SUFFICES ASSUME IInv, SInv, Stopping, masterPc # "full"
               PROVE  \/ MasterCanMove
                      \/ masterPc = "join" /\ (AllJoined \/ WorkerCanMove)
                      \/ masterPc = "done" /\ stop_flag = 2
    BY DEF StopGoesOn
  <2>1. masterPc # "none" /\ stop_flag # 0
    BY StoppingFacts
  <2>2. CASE masterPc \notin {"join", "done"}
    BY <2>1, <2>2 DEF MasterCanMove, SInv, AcceptInv
  <2>3. CASE masterPc = "done"
    BY <2>3 DEF IInv, Phases, Stopping
  <2>4. CASE masterPc = "join"
    <3>1. SUFFICES ASSUME ~AllJoined PROVE WorkerCanMove
      BY <2>4
    <3>2. PICK w \in 1..spawned : workerPc[w] # "gone"
      BY <3>1 DEF AllJoined
    <3>3. w \in Workers /\ workerPc[w] \in WorkerPcs /\ ~(w > spawned)
      BY MaxWorkersAssumption DEF IInv, TypeOK, Workers
    <3>4. workerPc[w] # "asleep" /\ workerPc[w] # "none"
      BY <2>4, <3>3 DEF SInv, NobodySleepsOn, Asleep, IInv, SpawnedInv
    <3>5. QED
      BY <3>2, <3>3, <3>4 DEF WorkerCanMove, WorkerPcs
  <2>5. QED
    BY <2>2, <2>3, <2>4
<1>2. QED
  BY <1>1, IInvInvariant, SInvInvariant, PTL

=============================================================================
