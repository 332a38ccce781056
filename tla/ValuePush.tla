----------------------------- MODULE ValuePush ------------------------------
(***************************************************************************)
(* Values from the appliance to Loxone.  The poller fetches the measured    *)
(* values and then, with a second request, the settings; HandleFetchedData  *)
(* starts one std::async task per value, each of which sends one GET        *)
(* request to the Miniserver, and waits for all of them.                    *)
(*                                                                         *)
(* A value is represented by the number of the reading it is.  The service  *)
(* cycle is abstracted to what it does after an exception of the poller.    *)
(***************************************************************************)
EXTENDS Integers, FiniteSets

CONSTANTS
    DataInputs,      \* the virtual inputs fed from the first request
    ConfigInputs,    \* those fed from the second
    None,            \* an empty std::optional
    MaxReadings,     \* bound: readings of one value
    MaxDisturbances, \* bound: failures of transfers, threads and the process
    MaxLate          \* bound: requests Loxone has received and not yet done

Inputs == DataInputs \cup ConfigInputs

ASSUME InputsAssumption == DataInputs \cap ConfigInputs = {} /\ IsFiniteSet(Inputs)
ASSUME NoneAssumption == None \notin Nat
ASSUME BoundsAssumption == MaxReadings \in Nat /\ MaxDisturbances \in Nat /\ MaxLate \in Nat

VARIABLES
    reading,         \* the appliance: its latest reading of each value
    pc,              \* the poller
    pd,              \* the readings it has fetched: the locals pd and psd
    pending,         \* the inputs HandleFetchedData has not come to yet
    sending,         \* the tasks under way: copies of an input and a reading
    failed,          \* the inputs whose task of this push has failed
    shown,           \* the Miniserver: the reading each virtual input shows
    late,            \* requests whose sender is gone but that may yet be done
    overtaken,       \* history: the inputs that a late request was the last to set
    disturbances     \* how often something has failed

vars == <<reading, pc, pd, pending, sending, failed, shown, late, overtaken, disturbances>>

-----------------------------------------------------------------------------

Readings == 0..MaxReadings
Requests == Inputs \X Readings

TypeOK ==
    /\ reading \in [Inputs -> Readings]
    /\ pc \in {"data", "config", "spawn", "join", "nap", "unwind", "ended"}
    /\ pd \in [Inputs -> Readings \cup {None}]
    /\ pending \subseteq Inputs
    /\ sending \subseteq Requests
    /\ failed \subseteq Inputs
    /\ shown \in [Inputs -> Readings]
    /\ late \subseteq Requests
    /\ overtaken \subseteq Inputs
    /\ disturbances \in 0..MaxDisturbances

Init ==
    /\ reading = [i \in Inputs |-> 0]
    /\ pc = "data"
    /\ pd = [i \in Inputs |-> None]
    /\ pending = {}
    /\ sending = {}
    /\ failed = {}
    /\ shown = [i \in Inputs |-> 0]
    /\ late = {}
    /\ overtaken = {}
    /\ disturbances = 0

Disturbed == disturbances < MaxDisturbances /\ disturbances' = disturbances + 1

-----------------------------------------------------------------------------
(* The appliance *)

ReadingChanges(i) ==
    /\ reading[i] < MaxReadings
    /\ reading' = [reading EXCEPT ![i] = reading[i] + 1]
    /\ UNCHANGED <<pc, pd, pending, sending, failed, shown, late, overtaken, disturbances>>

-----------------------------------------------------------------------------
(* The poller: FetchData *)

PollerGoes(from, to) ==
    /\ pc = from
    /\ pc' = to
    /\ UNCHANGED <<reading, shown, late, overtaken>>

(* A member is only taken over if the answer has it. *)
Taken(inputs, absent) ==
    pd' = [i \in Inputs |-> IF i \notin inputs THEN pd[i]
                            ELSE IF i \in absent THEN None ELSE reading[i]]

FetchData ==
    /\ PollerGoes("data", "config")
    /\ Taken(DataInputs, {})
    /\ UNCHANGED <<pending, sending, failed, disturbances>>

FetchConfig ==
    /\ PollerGoes("config", "spawn")
    /\ Taken(ConfigInputs, {})
    /\ pending' = Inputs
    /\ UNCHANGED <<sending, failed, disturbances>>

(* The answer is an error, or the appliance leaves values out. *)
FetchDataPartly ==
    /\ Disturbed
    /\ PollerGoes("data", "config")
    /\ \E absent \in SUBSET DataInputs : Taken(DataInputs, absent)
    /\ UNCHANGED <<pending, sending, failed>>

FetchConfigPartly ==
    /\ Disturbed
    /\ PollerGoes("config", "spawn")
    /\ \E absent \in SUBSET ConfigInputs : Taken(ConfigInputs, absent)
    /\ pending' = Inputs
    /\ UNCHANGED <<sending, failed>>

(* The locals of FetchData and HandleFetchedData are gone. *)
Forgotten ==
    /\ pd' = [i \in Inputs |-> None]
    /\ pending' = {}
    /\ failed' = {}

(* No answer: what the first request brought is dropped with the second. *)
FetchFails ==
    /\ Disturbed
    /\ PollerGoes("data", "data") \/ PollerGoes("config", "data")
    /\ Forgotten
    /\ UNCHANGED sending

Nap ==
    /\ PollerGoes("nap", "data")
    /\ Forgotten
    /\ UNCHANGED <<sending, disturbances>>

-----------------------------------------------------------------------------
(* The poller: HandleFetchedData *)

(* Mutant: nobody asks whether there is a value. *)
SpawnUnasked(i) ==
    /\ i \in pending
    /\ PollerGoes("spawn", "spawn")
    /\ pending' = pending \ {i}
    /\ sending' = sending \cup {<<i, pd[i]>>}
    /\ UNCHANGED <<pd, failed, disturbances>>

(* if (value.has_value() && !input.empty()) std::async(SendDataToLoxone) *)
Spawn(i) ==
    /\ i \in pending
    /\ PollerGoes("spawn", "spawn")
    /\ pending' = pending \ {i}
    /\ sending' = IF pd[i] = None THEN sending ELSE sending \cup {<<i, pd[i]>>}
    /\ UNCHANGED <<pd, failed, disturbances>>

AllSpawned ==
    /\ PollerGoes("spawn", "join")
    /\ pending = {}
    /\ UNCHANGED <<pd, pending, sending, failed, disturbances>>

(* Mutant: the exception is caught around the fan-out and forgotten. *)
SpawnSwallows ==
    /\ Disturbed
    /\ pending # {}
    /\ PollerGoes("spawn", "join")
    /\ UNCHANGED <<pd, pending, sending, failed>>

(* No thread is to be had: std::system_error, in the middle of the fan-out. *)
SpawnThrows ==
    /\ Disturbed
    /\ pending # {}
    /\ PollerGoes("spawn", "unwind")
    /\ UNCHANGED <<pd, pending, sending, failed>>

(* Mutant: the futures are dropped, not asked. *)
JoinedUnasked ==
    /\ PollerGoes("join", "nap")
    /\ UNCHANGED <<pd, pending, sending, failed, disturbances>>

(* t.get() for every task, in whatever order they end; what they return is  *)
(* not looked at.                                                           *)
Joined ==
    /\ PollerGoes("join", "nap")
    /\ sending = {}
    /\ UNCHANGED <<pd, pending, sending, failed, disturbances>>

(* The log line about a task that threw throws itself. *)
JoinThrows ==
    /\ Disturbed
    /\ failed # {}
    /\ PollerGoes("join", "unwind")
    /\ UNCHANGED <<pd, pending, sending, failed>>

(* Mutant: leaving the function does not wait for the tasks. *)
UnwoundDetached ==
    /\ PollerGoes("unwind", "ended")
    /\ UNCHANGED <<pd, pending, sending, failed, disturbances>>

(* The futures of std::async wait in their destructors. *)
Unwound ==
    /\ PollerGoes("unwind", "ended")
    /\ sending = {}
    /\ UNCHANGED <<pd, pending, sending, failed, disturbances>>

(* Mutant: a poller that has ended is not replaced. *)
PollerStaysEnded ==
    /\ PollerGoes("ended", "ended")
    /\ Forgotten
    /\ UNCHANGED <<sending, disturbances>>

(* The exception ends the poller, and main() starts another. *)
CycleRestarts ==
    /\ PollerGoes("ended", "data")
    /\ Forgotten
    /\ UNCHANGED <<sending, disturbances>>

Poller ==
    \/ FetchData \/ FetchConfig \/ FetchDataPartly \/ FetchConfigPartly \/ FetchFails
    \/ Nap \/ (\E i \in Inputs : Spawn(i)) \/ AllSpawned \/ SpawnThrows
    \/ Joined \/ JoinThrows \/ Unwound \/ CycleRestarts

-----------------------------------------------------------------------------
(* A task: SendDataToLoxone, with its own copies of input and value *)

TaskEnds(i, r) ==
    /\ <<i, r>> \in sending
    /\ sending' = sending \ {<<i, r>>}
    /\ UNCHANGED <<reading, pc, pd, pending>>

Shows(i, r) ==
    /\ shown' = [shown EXCEPT ![i] = r]
    /\ overtaken' = overtaken \ {i}

SendDataToLoxone(i, r) ==
    /\ TaskEnds(i, r)
    /\ Shows(i, r)
    /\ UNCHANGED <<failed, late, disturbances>>

(* No connection, an HTTP status other than 200, or a "Code" other than 200; *)
(* or Loxone has taken the value over but the answer does not arrive.        *)
SendFails(i, r) ==
    /\ Disturbed
    /\ TaskEnds(i, r)
    /\ failed' = failed \cup {i}
    /\ UNCHANGED <<shown, overtaken>> \/ Shows(i, r)
    /\ UNCHANGED late

(* Twenty seconds have passed; Loxone has the request all the same. *)
SendTimesOut(i, r) ==
    /\ Disturbed
    /\ Cardinality(late) < MaxLate
    /\ TaskEnds(i, r)
    /\ failed' = failed \cup {i}
    /\ late' = late \cup {<<i, r>>}
    /\ UNCHANGED <<shown, overtaken>>

Task(i) == \E r \in Readings : SendDataToLoxone(i, r) \/ SendFails(i, r) \/ SendTimesOut(i, r)

LateRequestDone ==
    /\ \E i \in Inputs, r \in Readings :
          /\ <<i, r>> \in late
          /\ late' = late \ {<<i, r>>}
          /\ shown' = [shown EXCEPT ![i] = r]
          /\ overtaken' = overtaken \cup {i}
    /\ UNCHANGED <<reading, pc, pd, pending, sending, failed, disturbances>>

(* The process is killed and started again.  The request of a task is lost, *)
(* or Loxone has it already.                                                *)
Killed ==
    /\ Disturbed
    /\ pc' = "data"
    /\ Forgotten
    /\ sending' = {}
    /\ \E received \in SUBSET sending :
          /\ Cardinality(late \cup received) <= MaxLate
          /\ late' = late \cup received
    /\ UNCHANGED <<reading, shown, overtaken>>

-----------------------------------------------------------------------------

Next == \/ \E i \in Inputs : ReadingChanges(i) \/ Task(i)
        \/ Poller
        \/ LateRequestDone
        \/ Killed

Spec == Init /\ [][Next]_vars

(* Every transfer has a timeout, so tasks end and the poller goes on. *)
Fairness ==
    /\ WF_vars(Poller)
    /\ \A i \in Inputs : WF_vars(Task(i))
    /\ WF_vars(LateRequestDone)

FairSpec == Spec /\ Fairness

-----------------------------------------------------------------------------
(* Safety *)

(* No task survives the HandleFetchedData that started it, whether it        *)
(* returns or is left by an exception half-way: the LoxoneAPI object that    *)
(* the task was given as `this` can be destroyed.                            *)
NoTaskOutlivesPush == pc \notin {"spawn", "join", "unwind"} => sending = {}

(* When HandleFetchedData has returned, Loxone shows every value of the poll *)
(* except those whose own send has failed, and those that a request given up *)
(* by an earlier poll has set since: a failed send takes no other value with *)
(* it, and no value is left out.                                             *)
PushComplete ==
    pc = "nap" => \A i \in Inputs :
        pd[i] # None => i \in failed \/ i \in overtaken \/ shown[i] = pd[i]

(* Refinement: Loxone mirrors the appliance, input by input; the concurrent  *)
(* sends of a poll, and those of successive polls, never overtake one        *)
(* another, and an input goes back only when a request whose sender has      *)
(* timed out, or was killed, is done after all.                              *)
Mirror == INSTANCE ValueMirror WITH straggling <- late
MirrorRefinement == Mirror!Spec

-----------------------------------------------------------------------------
(* Liveness *)

(* When readings and failures come to rest, every virtual input comes to     *)
(* show the latest reading and keeps it, also after late requests.           *)
Catches == <>[](shown = reading)

=============================================================================
