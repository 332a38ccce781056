------------------------ MODULE SettingsSync_proofs -------------------------
(***************************************************************************)
(* Proofs about SettingsSync, for any number of workers and settings, any  *)
(* values and any conversion.                                              *)
(*                                                                         *)
(* Nothing guards PSD, so each property rests on what every reachable copy  *)
(* of a setting can be while other threads run: the poller's, the cache,   *)
(* each worker's and the requests on the wire.                             *)
(***************************************************************************)
EXTENDS SettingsSync, TLAPS

(* A worker that serves no request has found no change. *)
IdleInv == \A w \in Workers : workerPc[w] = "idle" => newpsd[w] = NoSettings

IInv == TypeOK /\ IdleInv

(* Without answers that lack settings the cache is filled for good: what the *)
(* poller is about to copy is there, and so is what a worker has seen there. *)
FullInv == /\ uncopied # {} => pollPc = "copy"
           /\ \A s \in uncopied : psd[s] # Null
           /\ \A w \in Workers : workerPc[w] = "compare" => PSD[at[w]] # Null
           /\ NoBadAccess

-----------------------------------------------------------------------------

LEMMA OneIsSetting == 1 \in Settings
BY NumSettingsAssumption DEF Settings

LEMMA NoSettingsType == NoSettings \in Payloads
BY DEF NoSettings, Payloads, MaybeValue

LEMMA DisturbedType ==
    ASSUME disturbances \in 0..MaxDisturbances, Disturbed \/ UNCHANGED disturbances
    PROVE  disturbances' \in 0..MaxDisturbances
BY BoundsAssumption DEF Disturbed

(* Carrying out a request leaves every setting with a value. *)
LEMMA AppliedType ==
    ASSUME picea \in [Settings -> Values], NEW p \in Payloads, Applied(p)
    PROVE  picea' \in [Settings -> Values]
BY NullAssumption DEF Applied, Payloads, MaybeValue

(* A worker that moves on stays within the settings. *)
LEMMA AdvanceType ==
    ASSUME TypeOK, NEW w \in Workers, NEW from \in {"read", "has", "compare"},
           Advance(w, from)
    PROVE  /\ at' \in [Workers -> Settings]
           /\ value' \in [Workers -> MaybeValue]
           /\ workerPc[w] = from
           /\ \E to \in {"read", "send"} : workerPc' = [workerPc EXCEPT ![w] = to]
           /\ UNCHANGED <<loxone, PSD, isConnected, pollVars>>
<1>1. at[w] < NumSettings => at[w] + 1 \in Settings
  BY NumSettingsAssumption DEF TypeOK, Settings
<1>2. QED
  BY <1>1 DEF Advance, WorkerGoes, TypeOK, MaybeValue

LEMMA InitIInv == Init => IInv
<1> SUFFICES ASSUME Init PROVE IInv
  OBVIOUS
<1>1. PSD \in Payloads /\ psd \in Payloads
  BY NoSettingsType DEF Init
<1>2. /\ at \in [Workers -> Settings]
      /\ value \in [Workers -> MaybeValue]
      /\ newpsd \in [Workers -> Payloads]
  BY OneIsSetting, NoSettingsType DEF Init, MaybeValue
<1>3. disturbances \in 0..MaxDisturbances
  BY BoundsAssumption DEF Init
<1>4. QED
  BY <1>1, <1>2, <1>3 DEF Init, IInv, TypeOK, IdleInv

LEMMA ExternalPreserves ==
    ASSUME IInv, External
    PROVE  IInv'
<1>1. disturbances' \in 0..MaxDisturbances
  BY DisturbedType DEF IInv, TypeOK, External, LoxoneChanges, PiceaChanges, Disconnect
<1>2. /\ loxone' \in [Settings -> Outputs]
      /\ picea' \in [Settings -> Values]
      /\ isConnected' \in BOOLEAN
  <2>1. ASSUME NEW s \in Settings, LoxoneChanges(s) PROVE <1>2!:
    BY <2>1 DEF IInv, TypeOK, LoxoneChanges
  <2>2. ASSUME NEW s \in Settings, PiceaChanges(s) PROVE <1>2!:
    BY <2>2 DEF IInv, TypeOK, PiceaChanges
  <2>3. ASSUME Disconnect PROVE <1>2!:
    BY <2>3 DEF IInv, TypeOK, Disconnect
  <2>4. QED
    BY <2>1, <2>2, <2>3 DEF External
<1>3. UNCHANGED <<PSD, pollVars, workVars, late>>
  BY DEF External, LoxoneChanges, PiceaChanges, Disconnect
<1>4. QED
  BY <1>1, <1>2, <1>3 DEF IInv, TypeOK, IdleInv, pollVars, workVars

LEMMA PollerPreserves ==
    ASSUME IInv, Poller
    PROVE  IInv'
<1> USE DEF IInv, TypeOK
<1>1. UNCHANGED <<loxone, picea, workVars, late>>
  BY DEF Poller, PollerGoes, TryToConnect, StartLoop, FetchFails, FetchData,
         FetchSomeSettings, FetchErrorBody, CopyMember, OnDataFetched
<1>2. disturbances' \in 0..MaxDisturbances
  BY DisturbedType
  DEF Poller, TryToConnect, StartLoop, FetchFails, FetchData, FetchSomeSettings,
      FetchErrorBody, CopyMember, OnDataFetched
<1>3. pollPc' \in {"connect", "loop", "fetch", "copy", "push"}
  BY DEF Poller, PollerGoes, TryToConnect, StartLoop, FetchFails, FetchData,
         FetchSomeSettings, FetchErrorBody, CopyMember, OnDataFetched
<1>4. isConnected' \in BOOLEAN /\ genuine' \in BOOLEAN
  BY DEF Poller, TryToConnect, StartLoop, FetchFails, FetchData, FetchSomeSettings,
         FetchErrorBody, CopyMember, OnDataFetched
<1>5. PSD' \in Payloads
  BY DEF Poller, TryToConnect, StartLoop, FetchFails, FetchData, FetchSomeSettings,
         FetchErrorBody, CopyMember, OnDataFetched, Payloads
<1>6. psd' \in Payloads
  <2>1. ASSUME FetchSomeSettings PROVE psd' \in Payloads
    BY <2>1 DEF FetchSomeSettings, Payloads, MaybeValue
  <2>2. QED
    BY <2>1, NoSettingsType
    DEF Poller, TryToConnect, StartLoop, FetchFails, FetchData, FetchErrorBody, CopyMember,
        OnDataFetched, Payloads, MaybeValue
<1>7. uncopied' \subseteq Settings
  BY DEF Poller, TryToConnect, StartLoop, FetchFails, FetchData, FetchSomeSettings,
         FetchErrorBody, CopyMember, OnDataFetched
<1>8. QED
  BY <1>1, <1>2, <1>3, <1>4, <1>5, <1>6, <1>7 DEF IdleInv, workVars

LEMMA WorkerPreserves ==
    ASSUME IInv, NEW w \in Workers, Worker(w)
    PROVE  IInv'
<1> USE DEF IInv, TypeOK, IdleInv
<1>0. disturbances' \in 0..MaxDisturbances
  BY DisturbedType
  DEF Worker, request_handler, ReadFails, OutputRefused, CheckVirtualOutputStatus,
      HasValue, Compare, BadOptionalAccess, SendSettingsData, UpdateConfigSettings,
      PostFails, PostTimesOut, Reply
<1>1. ASSUME request_handler(w) \/ SendSettingsData(w) \/ BadOptionalAccess(w) PROVE IInv'
  BY <1>0, <1>1
  DEF request_handler, SendSettingsData, BadOptionalAccess, WorkerGoes, pollVars
<1>2. ASSUME ReadFails(w) \/ OutputRefused(w) PROVE IInv'
  <2>1. Advance(w, "read") /\ UNCHANGED <<picea, newpsd, late>>
    BY <1>2 DEF ReadFails, OutputRefused
  <2>2. QED
    BY <1>0, <2>1, AdvanceType DEF pollVars
<1>3. ASSUME CheckVirtualOutputStatus(w) PROVE IInv'
  <2>1. Convert[at[w]][loxone[at[w]]] \in MaybeValue
    BY ConvertAssumption DEF MaybeValue
  <2>2. QED
    BY <1>0, <1>3, <2>1 DEF CheckVirtualOutputStatus, WorkerGoes, pollVars
<1>4. ASSUME HasValue(w) PROVE IInv'
  <2>1. CASE Advance(w, "has")
    BY <1>0, <1>4, <2>1, AdvanceType DEF HasValue, pollVars
  <2>2. CASE WorkerGoes(w, "has", "compare") /\ UNCHANGED <<at, value>>
    BY <1>0, <1>4, <2>2 DEF HasValue, WorkerGoes, pollVars
  <2>3. QED
    BY <1>4, <2>1, <2>2 DEF HasValue
<1>5. ASSUME Compare(w) PROVE IInv'
  <2>1. newpsd' \in [Workers -> Payloads]
    BY <1>5 DEF Compare, Payloads
  <2>2. \A v \in Workers \ {w} : newpsd'[v] = newpsd[v]
    BY <1>5 DEF Compare
  <2>3. QED
    BY <1>0, <1>5, <2>1, <2>2, AdvanceType DEF Compare, pollVars
<1>6. ASSUME UpdateConfigSettings(w) PROVE IInv'
  <2>1. picea' \in [Settings -> Values]
    BY <1>6, AppliedType DEF UpdateConfigSettings
  <2>2. QED
    BY <1>0, <1>6, <2>1 DEF UpdateConfigSettings, WorkerGoes, pollVars
<1>7. ASSUME PostFails(w) \/ PostTimesOut(w) PROVE IInv'
  <2>1. late' \subseteq Payloads
    BY <1>7 DEF PostFails, PostTimesOut
  <2>2. QED
    BY <1>0, <1>7, <2>1 DEF PostFails, PostTimesOut, WorkerGoes, pollVars
<1>8. ASSUME Reply(w) PROVE IInv'
  BY <1>0, <1>8, OneIsSetting, NoSettingsType DEF Reply, WorkerGoes, pollVars
<1> HIDE DEF IInv
<1>9. QED
  BY <1>1, <1>2, <1>3, <1>4, <1>5, <1>6, <1>7, <1>8 DEF Worker

LEMMA StepPreserves == IInv /\ [Next]_vars => IInv'
<1> SUFFICES ASSUME IInv, [Next]_vars PROVE IInv'
  OBVIOUS
<1>1. CASE LatePostDone
  <2>1. PICK p \in late : Applied(p) /\ late' = late \ {p}
    BY <1>1 DEF LatePostDone
  <2>2. picea' \in [Settings -> Values] /\ late' \subseteq Payloads
    BY <2>1, AppliedType DEF IInv, TypeOK
  <2>3. QED
    BY <1>1, <2>2 DEF LatePostDone, IInv, TypeOK, IdleInv, pollVars, workVars
<1>2. CASE Abort
  BY <1>2, OneIsSetting, NoSettingsType DEF Abort, IInv, TypeOK, IdleInv, MaybeValue
<1>3. CASE UNCHANGED vars
  BY <1>3 DEF vars, pollVars, workVars, IInv, TypeOK, IdleInv
<1>4. QED
  BY <1>1, <1>2, <1>3, ExternalPreserves, PollerPreserves, WorkerPreserves DEF Next

LEMMA Inductive == Spec => []IInv
BY InitIInv, StepPreserves, PTL DEF Spec

(* Every variable keeps its type; in particular no request goes beyond the   *)
(* last setting, and what is sent to the appliance are values of settings.   *)
THEOREM TypeCorrect == Spec => []TypeOK
<1>1. IInv => TypeOK
  BY DEF IInv
<1>2. QED
  BY <1>1, Inductive, PTL

-----------------------------------------------------------------------------
(* No bad_optional_access *)

LEMMA PollerKeepsFull ==
    ASSUME NullAnswers = FALSE, IInv, FullInv, Poller
    PROVE  FullInv'
<1> USE DEF FullInv, NoBadAccess, IInv, TypeOK
<1>1. UNCHANGED workVars
  BY DEF Poller, PollerGoes, TryToConnect, StartLoop, FetchFails, FetchData,
         FetchSomeSettings, FetchErrorBody, CopyMember, OnDataFetched
<1>2. ASSUME NEW s \in Settings, CopyMember(s) PROVE FullInv'
  <2>1. \A t \in Settings : PSD[t] # Null => PSD'[t] # Null
    BY <1>2 DEF CopyMember, Payloads
  <2>2. QED
    BY <1>1, <1>2, <2>1 DEF CopyMember, PollerGoes, workVars
<1>3. ASSUME FetchData PROVE FullInv'
  BY <1>1, <1>3, NullAssumption DEF FetchData, PollerGoes, workVars
<1>4. ASSUME OnDataFetched \/ TryToConnect \/ StartLoop \/ FetchFails PROVE FullInv'
  <2>1. uncopied = {} /\ uncopied' = {} /\ PSD' = PSD
    BY <1>4 DEF OnDataFetched, TryToConnect, StartLoop, FetchFails, PollerGoes
  <2>2. QED
    BY <1>1, <2>1 DEF workVars
<1>5. ~FetchErrorBody /\ ~FetchSomeSettings
  BY DEF FetchErrorBody, FetchSomeSettings
<1>6. QED
  BY <1>2, <1>3, <1>4, <1>5 DEF Poller

LEMMA WorkerKeepsFull ==
    ASSUME IInv, FullInv, NEW w \in Workers, Worker(w)
    PROVE  FullInv'
<1>1. /\ UNCHANGED <<PSD, pollVars>>
      /\ \A v \in Workers \ {w} : workerPc'[v] = workerPc[v] /\ at'[v] = at[v]
  BY DEF Worker, request_handler, ReadFails, OutputRefused, CheckVirtualOutputStatus,
         HasValue, Compare, BadOptionalAccess, SendSettingsData, UpdateConfigSettings,
         PostFails, PostTimesOut, Reply, Advance, WorkerGoes, IInv, TypeOK
<1>2. ~BadOptionalAccess(w)
  BY DEF BadOptionalAccess, WorkerGoes, FullInv
<1>3. workerPc'[w] # "thrown"
  BY <1>2
  DEF Worker, request_handler, ReadFails, OutputRefused, CheckVirtualOutputStatus,
      HasValue, Compare, SendSettingsData, UpdateConfigSettings, PostFails, PostTimesOut,
      Reply, Advance, WorkerGoes, IInv, TypeOK
<1>4. workerPc'[w] = "compare" => PSD[at'[w]] # Null
  BY <1>2
  DEF Worker, request_handler, ReadFails, OutputRefused, CheckVirtualOutputStatus,
      HasValue, Compare, SendSettingsData, UpdateConfigSettings, PostFails, PostTimesOut,
      Reply, Advance, WorkerGoes, IInv, TypeOK
<1>5. QED
  BY <1>1, <1>3, <1>4 DEF FullInv, NoBadAccess, pollVars

LEMMA StepKeepsFull ==
    ASSUME NullAnswers = FALSE, IInv, FullInv, [Next]_vars
    PROVE  FullInv'
<1>1. CASE External
  BY <1>1 DEF External, LoxoneChanges, PiceaChanges, Disconnect, FullInv, NoBadAccess,
              pollVars, workVars
<1>2. CASE LatePostDone
  BY <1>2 DEF LatePostDone, FullInv, NoBadAccess, pollVars, workVars
<1>3. CASE Abort
  BY <1>3 DEF Abort, FullInv, NoBadAccess
<1>4. CASE UNCHANGED vars
  BY <1>4 DEF vars, FullInv, NoBadAccess, pollVars, workVars
<1>5. QED
  BY <1>1, <1>2, <1>3, <1>4, PollerKeepsFull, WorkerKeepsFull DEF Next

(* While the appliance reports every setting in every answer no request ends *)
(* the process with bad_optional_access, although CheckLoxoneValues reads    *)
(* PSD twice, unguarded, while the poller is assigning it.                   *)
THEOREM NoRequestAborts ==
    ASSUME NullAnswers = FALSE
    PROVE  Spec => []NoBadAccess
<1>1. Init => FullInv
  BY DEF Init, FullInv, NoBadAccess
<1>2. IInv /\ FullInv /\ [Next]_vars => FullInv'
  BY StepKeepsFull
<1>3. FullInv => NoBadAccess
  BY DEF FullInv
<1>4. QED
  BY <1>1, <1>2, <1>3, Inductive, PTL DEF Spec

-----------------------------------------------------------------------------
(* Agreement is stable *)

(* A request that agrees with the appliance changes nothing there.           *)
LEMMA AgreeingRequest ==
    ASSUME TypeOK, NEW p \in Payloads, \A s \in Settings : Agrees(s, p[s]), Applied(p)
    PROVE  picea' = picea
BY DEF TypeOK, Applied, Agrees

LEMMA PollerStaysSettled ==
    ASSUME IInv, Settled, Poller
    PROVE  Settled'
<1>1. UNCHANGED <<loxone, picea, workVars, late>>
  BY DEF Poller, PollerGoes, TryToConnect, StartLoop, FetchFails, FetchData,
         FetchSomeSettings, FetchErrorBody, CopyMember, OnDataFetched
<1>2. OutputsAgree' /\ WorkersAgree' /\ WireAgrees'
  BY <1>1 DEF Settled, OutputsAgree, WorkersAgree, WireAgrees, Agrees, workVars
<1>3. CacheAgrees'
  <2>1. ASSUME NEW s \in Settings, CopyMember(s) PROVE CacheAgrees'
    BY <1>1, <2>1 DEF CopyMember, Settled, CacheAgrees, Agrees, IInv, TypeOK, Payloads
  <2>2. ASSUME FetchData \/ FetchErrorBody \/ OnDataFetched PROVE CacheAgrees'
    BY <1>1, <2>2
    DEF FetchData, FetchErrorBody, OnDataFetched, Settled, CacheAgrees, Agrees, NoSettings
  <2>3. ASSUME TryToConnect \/ StartLoop \/ FetchFails PROVE CacheAgrees'
    BY <1>1, <2>3 DEF TryToConnect, StartLoop, FetchFails, Settled, CacheAgrees, Agrees
  <2>4. ASSUME FetchSomeSettings PROVE CacheAgrees'
    BY <1>1, <2>4 DEF FetchSomeSettings, Settled, CacheAgrees, Agrees
  <2>5. QED
    BY <2>1, <2>2, <2>3, <2>4 DEF Poller
<1>4. QED
  BY <1>2, <1>3 DEF Settled

LEMMA WorkerStaysSettled ==
    ASSUME IInv, Settled, NEW w \in Workers, Worker(w)
    PROVE  Settled'
<1>1. UNCHANGED <<loxone, PSD, psd, uncopied>>
  BY DEF Worker, request_handler, ReadFails, OutputRefused, CheckVirtualOutputStatus,
         HasValue, Compare, BadOptionalAccess, SendSettingsData, UpdateConfigSettings,
         PostFails, PostTimesOut, Reply, Advance, WorkerGoes, pollVars
<1>2. workerPc[w] # "idle" => newpsd[w] \in Payloads /\ \A s \in Settings : Agrees(s, newpsd[w][s])
  BY DEF IInv, TypeOK, Settled, WorkersAgree
<1>3. picea' = picea
  <2>1. CASE UpdateConfigSettings(w)
    BY <1>2, <2>1, AgreeingRequest DEF UpdateConfigSettings, WorkerGoes, IInv
  <2>2. CASE ~UpdateConfigSettings(w)
    BY <2>2
    DEF Worker, request_handler, ReadFails, OutputRefused, CheckVirtualOutputStatus,
        HasValue, Compare, BadOptionalAccess, SendSettingsData, PostFails, PostTimesOut,
        Reply
  <2>3. QED
    BY <2>1, <2>2
<1>4. OutputsAgree' /\ CacheAgrees'
  BY <1>1, <1>3 DEF Settled, OutputsAgree, CacheAgrees, Agrees
<1>5. WireAgrees'
  BY <1>2, <1>3
  DEF Worker, request_handler, ReadFails, OutputRefused, CheckVirtualOutputStatus,
      HasValue, Compare, BadOptionalAccess, SendSettingsData, UpdateConfigSettings,
      PostFails, PostTimesOut, Reply, WorkerGoes, Settled, WireAgrees, Agrees
<1>6. \A v \in Workers \ {w} : /\ workerPc'[v] = workerPc[v] /\ at'[v] = at[v]
                               /\ value'[v] = value[v] /\ newpsd'[v] = newpsd[v]
  BY DEF Worker, request_handler, ReadFails, OutputRefused, CheckVirtualOutputStatus,
         HasValue, Compare, BadOptionalAccess, SendSettingsData, UpdateConfigSettings,
         PostFails, PostTimesOut, Reply, Advance, WorkerGoes, IInv, TypeOK
<1>7. workerPc'[w] \in {"has", "compare"} => Agrees(at'[w], value'[w])
  BY DEF Worker, request_handler, ReadFails, OutputRefused, CheckVirtualOutputStatus,
         HasValue, Compare, BadOptionalAccess, SendSettingsData, UpdateConfigSettings,
         PostFails, PostTimesOut, Reply, Advance, WorkerGoes, IInv, TypeOK, Settled,
         OutputsAgree, WorkersAgree, Agrees
<1>8. \A s \in Settings : Agrees(s, newpsd'[w][s])
  <2>1. CASE Compare(w)
    BY <2>1 DEF Compare, Advance, WorkerGoes, IInv, TypeOK, Payloads, Settled, WorkersAgree,
                Agrees
  <2>2. CASE Reply(w)
    BY <2>2 DEF Reply, NoSettings, Agrees, IInv, TypeOK
  <2>3. CASE request_handler(w)
    BY <2>3 DEF request_handler, WorkerGoes, IInv, IdleInv, NoSettings, Agrees
  <2>4. CASE ~(Compare(w) \/ Reply(w) \/ request_handler(w))
    BY <1>2, <2>4
    DEF Worker, ReadFails, OutputRefused, CheckVirtualOutputStatus, HasValue,
        BadOptionalAccess, SendSettingsData, UpdateConfigSettings, PostFails,
        PostTimesOut, Advance, WorkerGoes
  <2>5. QED
    BY <2>1, <2>2, <2>3, <2>4
<1>9. WorkersAgree'
  BY <1>3, <1>6, <1>7, <1>8 DEF Settled, WorkersAgree, Agrees
<1>10. QED
  BY <1>4, <1>5, <1>9 DEF Settled

(* Once Loxone, the appliance and every copy of a setting agree, no          *)
(* interleaving of polls, requests, late POSTs and aborts parts them again.  *)
THEOREM SettledIsStable == Spec => SettledStays
<1>1. ASSUME IInv, [Next]_vars, Settled, ~External PROVE Settled'
  <2>1. CASE LatePostDone
    <3>1. PICK p \in late : Applied(p) /\ late' = late \ {p}
      BY <2>1 DEF LatePostDone
    <3>2. picea' = picea
      BY <1>1, <3>1, AgreeingRequest DEF IInv, TypeOK, Settled, WireAgrees
    <3>3. QED
      BY <1>1, <2>1, <3>1, <3>2
      DEF LatePostDone, Settled, OutputsAgree, CacheAgrees, WorkersAgree, WireAgrees, Agrees,
          pollVars, workVars
  <2>2. CASE Abort
    BY <1>1, <2>2
    DEF Abort, Settled, OutputsAgree, CacheAgrees, WorkersAgree, WireAgrees, Agrees,
        NoSettings
  <2>3. CASE UNCHANGED vars
    BY <1>1, <2>3
    DEF vars, pollVars, workVars, Settled, OutputsAgree, CacheAgrees, WorkersAgree,
        WireAgrees, Agrees
  <2>4. QED
    BY <1>1, <2>1, <2>2, <2>3, PollerStaysSettled, WorkerStaysSettled DEF Next
<1>2. IInv /\ [Next]_vars => (Settled /\ ~External => Settled')
  BY <1>1
<1>3. IInv /\ [Next]_vars => [Settled /\ ~External => Settled']_vars
  BY <1>2
<1>4. QED
  BY <1>3, Inductive, PTL DEF Spec, SettledStays

=============================================================================
