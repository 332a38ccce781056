-------------------------- MODULE ValuePush_proofs --------------------------
(***************************************************************************)
(* Proofs about ValuePush, for any inputs and any number of readings.      *)
(*                                                                         *)
(* What keeps the parallel sends of successive polls from overtaking one   *)
(* another is that a task carries the reading of the running poll, that    *)
(* this reading is no older than what Loxone shows or may yet be made to   *)
(* show by a request that was given up, and that no task is left when the  *)
(* next poll begins.                                                       *)
(***************************************************************************)
EXTENDS ValuePush, TLAPS

(* A push is in progress. *)
Pushing == pc \in {"spawn", "join", "unwind"}

(* The task of an input carries the reading that was fetched for it. *)
SendInv == \A i \in Inputs, r \in Readings :
               <<i, r>> \in sending => pd[i] = r /\ i \notin pending

JoinInv == /\ sending # {} => Pushing
           /\ pc \in {"join", "nap"} => pending = {}

(* An input the push has come to is shown, has failed, is being sent, or was *)
(* set by a late request after its own.                                      *)
DoneInv == pc \in {"spawn", "join", "nap"} =>
               \A i \in Inputs : pd[i] # None /\ i \notin pending =>
                   \/ i \in failed \/ i \in overtaken
                   \/ shown[i] = pd[i] \/ <<i, pd[i]>> \in sending

(* What an input shows is no newer than what the poll has fetched, and that  *)
(* no newer than the appliance; nor is what a request carries that was given *)
(* up.                                                                       *)
ShownInv == \A i \in Inputs : /\ shown[i] <= reading[i]
                              /\ pd[i] # None => shown[i] <= pd[i] /\ pd[i] <= reading[i]

LateInv == \A i \in Inputs, r \in Readings :
               <<i, r>> \in late => r <= reading[i] /\ (pd[i] # None => r <= pd[i])

OrderInv == ShownInv /\ LateInv

IInv == TypeOK /\ SendInv /\ JoinInv

PInv == DoneInv /\ OrderInv

-----------------------------------------------------------------------------

LEMMA DisturbedType ==
    ASSUME disturbances \in 0..MaxDisturbances, Disturbed \/ UNCHANGED disturbances
    PROVE  disturbances' \in 0..MaxDisturbances
BY BoundsAssumption DEF Disturbed

LEMMA TakenType ==
    ASSUME TypeOK, NEW inputs, NEW absent, Taken(inputs, absent)
    PROVE  pd' \in [Inputs -> Readings \cup {None}]
BY DEF TypeOK, Taken

LEMMA IInvInit == Init => IInv
<1> SUFFICES ASSUME Init PROVE IInv
  OBVIOUS
<1>1. 0 \in Readings /\ 0 \in 0..MaxDisturbances
  BY BoundsAssumption DEF Readings
<1>2. QED
  BY <1>1 DEF Init, IInv, TypeOK, SendInv, JoinInv, Pushing

LEMMA IInvNext == IInv /\ [Next]_vars => IInv'
<1> SUFFICES ASSUME IInv, [Next]_vars PROVE IInv'
  OBVIOUS
<1> USE DEF IInv, TypeOK, SendInv, JoinInv, Pushing
<1>1. ASSUME NEW i \in Inputs, ReadingChanges(i) PROVE IInv'
  <2>1. reading' \in [Inputs -> Readings]
    BY <1>1, BoundsAssumption DEF ReadingChanges, Readings
  <2>2. QED
    BY <1>1, <2>1 DEF ReadingChanges
<1>2. ASSUME NEW i \in Inputs, Task(i) PROVE IInv'
  <2>1. PICK r \in Readings : SendDataToLoxone(i, r) \/ SendFails(i, r) \/ SendTimesOut(i, r)
    BY <1>2 DEF Task
  <2>2. disturbances' \in 0..MaxDisturbances
    BY <2>1, DisturbedType DEF SendDataToLoxone, SendFails, SendTimesOut
  <2>3. /\ shown' \in [Inputs -> Readings]
        /\ failed' \subseteq Inputs
        /\ late' \subseteq Requests
        /\ overtaken' \subseteq Inputs
    BY <2>1 DEF SendDataToLoxone, SendFails, SendTimesOut, Shows, Requests
  <2>4. TaskEnds(i, r)
    BY <2>1 DEF SendDataToLoxone, SendFails, SendTimesOut
  <2>5. QED
    BY <2>2, <2>3, <2>4 DEF TaskEnds
<1>3. ASSUME Poller PROVE IInv'
  <2>0. disturbances' \in 0..MaxDisturbances
    BY <1>3, DisturbedType
    DEF Poller, FetchData, FetchConfig, FetchDataPartly, FetchConfigPartly, FetchFails,
        Nap, Spawn, AllSpawned, SpawnThrows, Joined, JoinThrows, Unwound, CycleRestarts
  <2>1. ASSUME FetchData \/ FetchConfig \/ FetchDataPartly \/ FetchConfigPartly PROVE IInv'
    <3>1. pd' \in [Inputs -> Readings \cup {None}]
      BY <2>1, TakenType DEF FetchData, FetchConfig, FetchDataPartly, FetchConfigPartly
    <3>2. sending = {} /\ sending' = {}
      BY <2>1
      DEF FetchData, FetchConfig, FetchDataPartly, FetchConfigPartly, PollerGoes
    <3>3. QED
      BY <2>0, <2>1, <3>1, <3>2
      DEF FetchData, FetchConfig, FetchDataPartly, FetchConfigPartly, PollerGoes
  <2>2. ASSUME FetchFails \/ Nap \/ CycleRestarts PROVE IInv'
    BY <2>0, <2>2 DEF FetchFails, Nap, CycleRestarts, PollerGoes, Forgotten
  <2>3. ASSUME NEW i \in Inputs, Spawn(i) PROVE IInv'
    <3>1. pd[i] # None => <<i, pd[i]>> \in Requests
      BY DEF Requests
    <3>2. QED
      BY <2>0, <2>3, <3>1 DEF Spawn, PollerGoes
  <2>4. ASSUME AllSpawned \/ SpawnThrows \/ JoinThrows PROVE IInv'
    BY <2>0, <2>4 DEF AllSpawned, SpawnThrows, JoinThrows, PollerGoes
  <2>5. ASSUME Joined \/ Unwound PROVE IInv'
    BY <2>0, <2>5 DEF Joined, Unwound, PollerGoes
  <2> HIDE DEF IInv
  <2>6. QED
    BY <1>3, <2>1, <2>2, <2>3, <2>4, <2>5 DEF Poller
<1>4. ASSUME LateRequestDone PROVE IInv'
  <2>1. /\ shown' \in [Inputs -> Readings]
        /\ late' \subseteq Requests
        /\ overtaken' \subseteq Inputs
    BY <1>4 DEF LateRequestDone
  <2>2. QED
    BY <1>4, <2>1 DEF LateRequestDone
<1>5. ASSUME Killed PROVE IInv'
  <2>1. disturbances' \in 0..MaxDisturbances
    BY <1>5, DisturbedType DEF Killed
  <2>2. late' \subseteq Requests
    BY <1>5 DEF Killed
  <2>3. QED
    BY <1>5, <2>1, <2>2 DEF Killed, Forgotten
<1>6. ASSUME UNCHANGED vars PROVE IInv'
  BY <1>6 DEF vars
<1> HIDE DEF IInv
<1>7. QED
  BY <1>1, <1>2, <1>3, <1>4, <1>5, <1>6 DEF Next

LEMMA IInvInvariant == Spec => []IInv
BY IInvInit, IInvNext, PTL DEF Spec

-----------------------------------------------------------------------------
(* A reading that is taken from the appliance now is the latest one. *)
LEMMA TakenOrder ==
    ASSUME TypeOK, OrderInv, NEW inputs, NEW absent, Taken(inputs, absent),
           UNCHANGED <<reading, shown, late>>
    PROVE  OrderInv'
BY DEF TypeOK, OrderInv, ShownInv, LateInv, Taken, Readings

LEMMA PInvNext == IInv /\ PInv /\ [Next]_vars => PInv'
<1> SUFFICES ASSUME IInv, PInv, [Next]_vars PROVE PInv'
  OBVIOUS
<1> USE DEF PInv, IInv, TypeOK, SendInv, JoinInv, Pushing
<1>1. ASSUME NEW i \in Inputs, ReadingChanges(i) PROVE PInv'
  <2>1. DoneInv'
    BY <1>1 DEF ReadingChanges, DoneInv
  <2>2. ShownInv'
    BY <1>1 DEF ReadingChanges, OrderInv, ShownInv, Readings
  <2>3. ASSUME NEW j \in Inputs, NEW r \in Readings, <<j, r>> \in late'
        PROVE  r <= reading'[j] /\ (pd'[j] # None => r <= pd'[j])
    <3>1. <<j, r>> \in late /\ pd' = pd
      BY <1>1, <2>3 DEF ReadingChanges
    <3>2. r <= reading[j] /\ (pd[j] # None => r <= pd[j])
      BY <3>1 DEF OrderInv, LateInv
    <3>3. reading[j] <= reading'[j] /\ reading[j] \in Nat /\ reading'[j] \in Nat /\ r \in Nat
      BY <1>1 DEF ReadingChanges, Readings
    <3>4. QED
      BY <3>1, <3>2, <3>3
  <2>4. QED
    BY <2>1, <2>2, <2>3 DEF OrderInv, LateInv
<1>2. ASSUME NEW i \in Inputs, Task(i) PROVE PInv'
  <2>1. PICK r \in Readings : SendDataToLoxone(i, r) \/ SendFails(i, r) \/ SendTimesOut(i, r)
    BY <1>2 DEF Task
  <2>2. /\ TaskEnds(i, r)
        /\ \/ shown' = [shown EXCEPT ![i] = r] /\ overtaken' = overtaken \ {i}
           \/ UNCHANGED <<shown, overtaken>> /\ i \in failed'
        /\ failed \subseteq failed'
        /\ late' \subseteq late \cup {<<i, r>>}
    BY <2>1 DEF SendDataToLoxone, SendFails, SendTimesOut, Shows
  <2>3. /\ pd[i] = r /\ pd[i] # None
        /\ sending' = sending \ {<<i, r>>}
        /\ UNCHANGED <<reading, pc, pd, pending>>
    BY <2>2, NoneAssumption DEF TaskEnds, Readings
  <2>4. DoneInv'
    BY <2>2, <2>3 DEF DoneInv
  <2>5. ShownInv'
    BY <2>2, <2>3 DEF OrderInv, ShownInv, Readings
  <2>6. LateInv'
    BY <2>2, <2>3 DEF OrderInv, LateInv, ShownInv, Readings
  <2>7. OrderInv'
    BY <2>5, <2>6 DEF OrderInv
  <2>8. QED
    BY <2>4, <2>7
<1>3. ASSUME Poller PROVE PInv'
  <2>0. UNCHANGED <<reading, shown, late, overtaken>>
    BY <1>3
    DEF Poller, PollerGoes, FetchData, FetchConfig, FetchDataPartly, FetchConfigPartly,
        FetchFails, Nap, Spawn, AllSpawned, SpawnThrows, Joined, JoinThrows, Unwound,
        CycleRestarts
  <2>1. ASSUME FetchData \/ FetchConfig \/ FetchDataPartly \/ FetchConfigPartly PROVE PInv'
    <3>1. OrderInv'
      BY <2>0, <2>1, TakenOrder
      DEF FetchData, FetchConfig, FetchDataPartly, FetchConfigPartly
    <3>2. DoneInv'
      BY <2>1
      DEF FetchData, FetchConfig, FetchDataPartly, FetchConfigPartly, PollerGoes, DoneInv
    <3>3. QED
      BY <3>1, <3>2
  <2>2. ASSUME FetchFails \/ Nap \/ CycleRestarts PROVE PInv'
    BY <2>0, <2>2
    DEF FetchFails, Nap, CycleRestarts, PollerGoes, Forgotten, DoneInv, OrderInv, ShownInv, LateInv
  <2>3. ASSUME NEW i \in Inputs, Spawn(i) PROVE PInv'
    BY <2>0, <2>3 DEF Spawn, PollerGoes, DoneInv, OrderInv, ShownInv, LateInv
  <2>4. ASSUME AllSpawned \/ SpawnThrows \/ Joined \/ JoinThrows \/ Unwound PROVE PInv'
    BY <2>0, <2>4
    DEF AllSpawned, SpawnThrows, Joined, JoinThrows, Unwound, PollerGoes, DoneInv, OrderInv, ShownInv, LateInv
  <2>5. QED
    BY <1>3, <2>1, <2>2, <2>3, <2>4 DEF Poller
<1>4. ASSUME LateRequestDone PROVE PInv'
  <2>1. PICK i \in Inputs, r \in Readings :
            /\ <<i, r>> \in late
            /\ late' = late \ {<<i, r>>}
            /\ shown' = [shown EXCEPT ![i] = r]
            /\ overtaken' = overtaken \cup {i}
    BY <1>4 DEF LateRequestDone
  <2>2. UNCHANGED <<reading, pc, pd, pending, sending, failed>>
    BY <1>4 DEF LateRequestDone
  <2>3. DoneInv'
    BY <2>1, <2>2 DEF DoneInv
  <2>4. ShownInv'
    BY <2>1, <2>2 DEF OrderInv, ShownInv, LateInv, Readings
  <2>5. LateInv'
    <3>1. late' \subseteq late /\ UNCHANGED <<reading, pd>>
      BY <2>1, <2>2
    <3>2. QED
      BY <3>1 DEF OrderInv, LateInv
  <2>6. QED
    BY <2>3, <2>4, <2>5 DEF OrderInv
<1>5. ASSUME Killed PROVE PInv'
  <2>1. /\ pc' = "data" /\ pd' = [i \in Inputs |-> None]
        /\ UNCHANGED <<reading, shown>>
        /\ late' \subseteq late \cup sending
    BY <1>5 DEF Killed, Forgotten
  <2>2. \A i \in Inputs, r \in Readings : <<i, r>> \in sending => r <= reading[i]
    BY NoneAssumption DEF OrderInv, ShownInv, LateInv, Readings
  <2>3. QED
    BY <2>1, <2>2 DEF DoneInv, OrderInv, ShownInv, LateInv
<1>6. ASSUME UNCHANGED vars PROVE PInv'
  BY <1>6 DEF vars, DoneInv, OrderInv, ShownInv, LateInv
<1>7. QED
  BY <1>1, <1>2, <1>3, <1>4, <1>5, <1>6 DEF Next

LEMMA PInvInit == Init => PInv
BY DEF Init, PInv, DoneInv, OrderInv, ShownInv, LateInv

LEMMA PInvInvariant == Spec => []PInv
BY PInvInit, PInvNext, IInvInvariant, PTL DEF Spec

-----------------------------------------------------------------------------

(* Every variable keeps its type; in particular no task is ever started for  *)
(* a value the answer did not hold.                                          *)
THEOREM TypeCorrect == Spec => []TypeOK
<1>1. IInv => TypeOK
  BY DEF IInv
<1>2. QED
  BY <1>1, IInvInvariant, PTL

(* No task of HandleFetchedData is left when it has returned or thrown.      *)
THEOREM TasksAreJoined == Spec => []NoTaskOutlivesPush
<1>1. IInv => NoTaskOutlivesPush
  BY DEF IInv, JoinInv, Pushing, NoTaskOutlivesPush
<1>2. QED
  BY <1>1, IInvInvariant, PTL

(* When HandleFetchedData returns, every value it was given is shown unless  *)
(* its own send failed or an older request was done after it.                *)
THEOREM PushesAreComplete == Spec => []PushComplete
<1>1. IInv /\ PInv => PushComplete
  BY DEF IInv, JoinInv, Pushing, PInv, DoneInv, PushComplete
<1>2. QED
  BY <1>1, IInvInvariant, PInvInvariant, PTL

(* Loxone mirrors the appliance: each virtual input only ever moves on to a  *)
(* later reading, however the sends of a poll interleave, except when a      *)
(* request that was given up is done after all.                              *)
THEOREM Mirrors == Spec => MirrorRefinement
<1>1. Init => Mirror!Init
  BY DEF Init, Mirror!Init
<1>2. IInv /\ PInv /\ [Next]_vars => [Mirror!Next]_(Mirror!vars)
  <2> SUFFICES ASSUME IInv, PInv, [Next]_vars PROVE [Mirror!Next]_(Mirror!vars)
    OBVIOUS
  <2>0. \A i \in Inputs, r \in Readings : <<i, r>> \in sending => r \in shown[i]..reading[i]
    BY NoneAssumption DEF IInv, TypeOK, SendInv, PInv, OrderInv, ShownInv, LateInv, Readings
  <2>1. ASSUME NEW i \in Inputs, ReadingChanges(i) PROVE Mirror!Next
    BY <2>1 DEF ReadingChanges, Mirror!Next, Mirror!Change
  <2>2. ASSUME NEW i \in Inputs, Task(i) PROVE [Mirror!Next]_(Mirror!vars)
    <3>1. PICK r \in Readings : SendDataToLoxone(i, r) \/ SendFails(i, r) \/ SendTimesOut(i, r)
      BY <2>2 DEF Task
    <3>2. UNCHANGED reading /\ r \in shown[i]..reading[i]
      BY <3>1, <2>0 DEF SendDataToLoxone, SendFails, SendTimesOut, TaskEnds
    <3>3. CASE UNCHANGED <<shown, late>>
      BY <3>2, <3>3 DEF Mirror!vars
    <3>4. CASE shown' = [shown EXCEPT ![i] = r] /\ UNCHANGED late
      BY <3>2, <3>4 DEF Mirror!Next, Mirror!Show
    <3>5. CASE UNCHANGED shown /\ late' = late \cup {<<i, r>>}
      BY <3>2, <3>5 DEF Mirror!Next, Mirror!Strand
    <3>6. QED
      BY <3>1, <3>3, <3>4, <3>5 DEF SendDataToLoxone, SendFails, SendTimesOut, Shows
  <2>3. ASSUME Killed PROVE Mirror!Next
    <3>1. /\ UNCHANGED <<reading, shown>>
          /\ late \subseteq late' /\ late' \ late \subseteq sending
      BY <2>3 DEF Killed
    <3>2. \A q \in sending : \E i \in Inputs, r \in Readings : q = <<i, r>>
      BY DEF IInv, TypeOK, Requests
    <3>3. \A q \in late' \ late : \E i \in Inputs : \E r \in shown[i]..reading[i] : q = <<i, r>>
      BY <3>1, <3>2, <2>0
    <3>4. QED
      BY <3>1, <3>3 DEF Mirror!Next, Mirror!Strand
  <2>4. ASSUME LateRequestDone PROVE Mirror!Next
    <3>1. PICK i \in Inputs, r \in Readings :
              /\ <<i, r>> \in late
              /\ late' = late \ {<<i, r>>}
              /\ shown' = [shown EXCEPT ![i] = r]
      BY <2>4 DEF LateRequestDone
    <3>2. shown'[i] = r /\ UNCHANGED reading
      BY <2>4, <3>1 DEF LateRequestDone, IInv, TypeOK
    <3>3. QED
      BY <3>1, <3>2 DEF Mirror!Next, Mirror!Land
  <2>5. ASSUME Poller \/ UNCHANGED vars
        PROVE  UNCHANGED <<reading, shown, late>>
    BY <2>5
    DEF Poller, PollerGoes, FetchData, FetchConfig, FetchDataPartly, FetchConfigPartly,
        FetchFails, Nap, Spawn, AllSpawned, SpawnThrows, Joined, JoinThrows, Unwound,
        CycleRestarts, vars
  <2>6. QED
    BY <2>1, <2>2, <2>3, <2>4, <2>5 DEF Next, Mirror!vars
<1>3. QED
  BY <1>1, <1>2, IInvInvariant, PInvInvariant, PTL DEF Spec, MirrorRefinement, Mirror!Spec

=============================================================================
