---------------------------- MODULE SettingsSync ----------------------------
(***************************************************************************)
(* Settings from Loxone to the Picea appliance.  On /set?value=1 a request *)
(* worker reads every configured virtual output of the Miniserver, compares *)
(* it with PiceaAPI::PSD, the copy of the appliance's settings that the    *)
(* poller last fetched, and POSTs what differs.  The poller replaces PSD   *)
(* while workers read it: nothing guards it.                               *)
(*                                                                         *)
(* The service cycle is abstracted to what it does to isConnected; the     *)
(* appliance and the Miniserver are external.                              *)
(***************************************************************************)
EXTENDS Integers, FiniteSets

CONSTANTS
    Workers,        \* the HTTP workers
    NumSettings,    \* the settings, in the order CheckLoxoneValues visits them
    Outputs,        \* what a virtual output can show
    Values,         \* what a setting of the appliance can be
    Null,           \* an empty std::optional
    Convert,        \* the conversion of each setting, Null where it refuses
    NullAnswers,    \* may an answer come that lacks settings?
    LocalChanges,   \* may settings be changed at the appliance itself?
    MaxDisturbances,  \* bound: changes made, and transfers spoilt, by the outside world
    MaxLate         \* bound: POSTs the appliance has received and not yet done

Settings == 1..NumSettings

ASSUME NumSettingsAssumption == NumSettings \in Nat \ {0}
ASSUME NullAssumption == Null \notin Values
ASSUME ConvertAssumption == Convert \in [Settings -> [Outputs -> Values \cup {Null}]]
ASSUME SwitchesAssumption == NullAnswers \in BOOLEAN /\ LocalChanges \in BOOLEAN
ASSUME BoundsAssumption == MaxDisturbances \in Nat /\ MaxLate \in Nat

VARIABLES
    loxone,         \* the Miniserver: what each virtual output shows
    picea,          \* the appliance: its settings
    PSD,            \* PiceaAPI::PSD, the poller's copy of them
    isConnected,
    pollPc,         \* "connect", "loop", "fetch", "copy" or "push"
    psd,            \* the poller's local settings, while it copies them
    uncopied,       \* the members of PSD that "PSD = psd" has not yet written
    genuine,        \* history: the answer that psd was read from had status 200
    workerPc,       \* "idle", "read", "has", "compare", "send", "post", "reply", "thrown"
    at,             \* the setting each worker is at
    value,          \* the converted output it has read for it
    newpsd,         \* the settings it has found changed
    late,           \* POSTs whose sender has timed out but that may yet be done
    disturbances    \* how often the outside world has interfered

pollVars == <<pollPc, psd, uncopied, genuine>>
workVars == <<workerPc, at, value, newpsd>>
vars == <<loxone, picea, PSD, isConnected, pollVars, workVars, late, disturbances>>

-----------------------------------------------------------------------------

MaybeValue == Values \cup {Null}
NoSettings == [s \in Settings |-> Null]
Payloads   == [Settings -> MaybeValue]

TypeOK ==
    /\ loxone \in [Settings -> Outputs]
    /\ picea \in [Settings -> Values]
    /\ PSD \in Payloads
    /\ isConnected \in BOOLEAN
    /\ pollPc \in {"connect", "loop", "fetch", "copy", "push"}
    /\ psd \in Payloads
    /\ uncopied \subseteq Settings
    /\ genuine \in BOOLEAN
    /\ workerPc \in [Workers -> {"idle", "read", "has", "compare", "send", "post",
                                 "reply", "thrown"}]
    /\ at \in [Workers -> Settings]
    /\ value \in [Workers -> MaybeValue]
    /\ newpsd \in [Workers -> Payloads]
    /\ late \subseteq Payloads
    /\ disturbances \in 0..MaxDisturbances

Init ==
    /\ loxone \in [Settings -> Outputs]
    /\ picea \in [Settings -> Values]
    /\ PSD = NoSettings
    /\ isConnected = FALSE
    /\ pollPc = "connect"
    /\ psd = NoSettings
    /\ uncopied = {}
    /\ genuine = TRUE
    /\ workerPc = [w \in Workers |-> "idle"]
    /\ at = [w \in Workers |-> 1]
    /\ value = [w \in Workers |-> Null]
    /\ newpsd = [w \in Workers |-> NoSettings]
    /\ late = {}
    /\ disturbances = 0

-----------------------------------------------------------------------------
(* The outside world *)

Undisturbed == UNCHANGED disturbances

(* Changes from outside and spoilt transfers draw on one budget. *)
Disturbed == disturbances < MaxDisturbances /\ disturbances' = disturbances + 1

(* A user or a Loxone program moves a virtual output. *)
LoxoneChanges(s) ==
    /\ Disturbed
    /\ \E o \in Outputs : loxone' = [loxone EXCEPT ![s] = o]
    /\ UNCHANGED <<picea, PSD, isConnected, pollVars, workVars, late>>

(* Somebody changes the setting at the appliance itself. *)
PiceaChanges(s) ==
    /\ LocalChanges
    /\ Disturbed
    /\ \E v \in Values : picea' = [picea EXCEPT ![s] = v]
    /\ UNCHANGED <<loxone, PSD, isConnected, pollVars, workVars, late>>

(* main() calls RequestStop, or the poller ends on an exception and a new   *)
(* cycle resets the flag: isConnected falls at any moment.                  *)
Disconnect ==
    /\ Disturbed
    /\ isConnected' = FALSE
    /\ UNCHANGED <<loxone, picea, PSD, pollVars, workVars, late>>

-----------------------------------------------------------------------------
(* The poller *)

PollerGoes(from, to) ==
    /\ pollPc = from
    /\ pollPc' = to
    /\ UNCHANGED <<loxone, picea, workVars, late>>

(* A connection is made: status 200.  Otherwise the poller tries again. *)
TryToConnect ==
    /\ PollerGoes("connect", "loop")
    /\ isConnected' = TRUE
    /\ UNCHANGED <<PSD, psd, uncopied, genuine, disturbances>>

(* isConnected is read once more by the loop, and after every fetch. *)
StartLoop ==
    /\ \/ isConnected /\ PollerGoes("loop", "fetch")
       \/ ~isConnected /\ PollerGoes("loop", "connect")
    /\ UNCHANGED <<PSD, isConnected, psd, uncopied, genuine, disturbances>>

(* The answer of /config.  One that is no JSON disconnects, a failed         *)
(* transfer does nothing at all.                                             *)
FetchFails ==
    /\ Disturbed
    /\ PollerGoes("fetch", "loop")
    /\ isConnected' \in {isConnected, FALSE}
    /\ UNCHANGED <<PSD, psd, uncopied, genuine>>

FetchData ==
    /\ PollerGoes("fetch", "copy")
    /\ psd' = picea
    /\ genuine' = TRUE
    /\ uncopied' = Settings
    /\ UNCHANGED <<PSD, isConnected, disturbances>>

(* FetchFromApi looks at the CURLcode only: the JSON body of a 401 or a 500  *)
(* is taken for an answer in which no setting is present.                    *)
FetchErrorBody ==
    /\ Disturbed
    /\ NullAnswers
    /\ PollerGoes("fetch", "copy")
    /\ psd' = NoSettings
    /\ genuine' = FALSE
    /\ uncopied' = Settings
    /\ UNCHANGED <<PSD, isConnected>>

(* An answer that leaves some of the settings empty: a key is missing, or an *)
(* enumeration has a name the program does not know.                         *)
FetchSomeSettings ==
    /\ Disturbed
    /\ NullAnswers
    /\ PollerGoes("fetch", "copy")
    /\ \E missing \in SUBSET Settings \ {{}} :
          psd' = [s \in Settings |-> IF s \in missing THEN Null ELSE picea[s]]
    /\ genuine' = TRUE
    /\ uncopied' = Settings
    /\ UNCHANGED <<PSD, isConnected>>

(* Mutant: the cache is only filled where it is still empty. *)
CopyMemberOnce(s) ==
    /\ s \in uncopied
    /\ PSD' = IF PSD[s] = Null THEN [PSD EXCEPT ![s] = psd[s]] ELSE PSD
    /\ uncopied' = uncopied \ {s}
    /\ \/ uncopied' # {} /\ PollerGoes("copy", "copy")
       \/ uncopied' = {} /\ PollerGoes("copy", "push")
    /\ UNCHANGED <<isConnected, psd, genuine, disturbances>>

(* PSD = psd: a struct assignment, member after member, no lock. *)
CopyMember(s) ==
    /\ s \in uncopied
    /\ PSD' = [PSD EXCEPT ![s] = psd[s]]
    /\ uncopied' = uncopied \ {s}
    /\ \/ uncopied' # {} /\ PollerGoes("copy", "copy")
       \/ uncopied' = {} /\ PollerGoes("copy", "push")
    /\ UNCHANGED <<isConnected, psd, genuine, disturbances>>

(* OnDataFetched(pd, psd), and the poll interval. *)
OnDataFetched ==
    /\ PollerGoes("push", "loop")
    /\ psd' = NoSettings
    /\ genuine' = TRUE
    /\ UNCHANGED <<PSD, isConnected, uncopied, disturbances>>

Poller ==
    \/ TryToConnect \/ StartLoop \/ FetchFails
    \/ FetchData \/ FetchSomeSettings \/ FetchErrorBody
    \/ (\E s \in Settings : CopyMember(s)) \/ OnDataFetched

-----------------------------------------------------------------------------
(* A request worker: request_handler and CheckLoxoneValues *)

WorkerGoes(w, from, to) ==
    /\ workerPc[w] = from
    /\ workerPc' = [workerPc EXCEPT ![w] = to]
    /\ UNCHANGED <<loxone, PSD, isConnected, pollVars>>

(* Mutant: one setting too far. *)
AdvanceTooFar(w, from) ==
    /\ value' = [value EXCEPT ![w] = Null]
    /\ \/ /\ at[w] <= NumSettings
          /\ at' = [at EXCEPT ![w] = at[w] + 1]
          /\ WorkerGoes(w, from, "read")
       \/ /\ at[w] > NumSettings
          /\ UNCHANGED at
          /\ WorkerGoes(w, from, "send")

(* On to the next setting, or to the end of CheckLoxoneValues; the local     *)
(* result goes out of scope.                                                 *)
Advance(w, from) ==
    /\ value' = [value EXCEPT ![w] = Null]
    /\ \/ /\ at[w] < NumSettings
          /\ at' = [at EXCEPT ![w] = at[w] + 1]
          /\ WorkerGoes(w, from, "read")
       \/ /\ at[w] = NumSettings
          /\ UNCHANGED at
          /\ WorkerGoes(w, from, "send")

request_handler(w) ==
    /\ WorkerGoes(w, "idle", "read")
    /\ UNCHANGED <<picea, at, value, newpsd, late, disturbances>>

(* The GET for the output fails, or its answer holds no value. *)
ReadFails(w) ==
    /\ Disturbed
    /\ Advance(w, "read")
    /\ UNCHANGED <<picea, newpsd, late>>

(* The conversion refuses what the output shows: a filter_exchange_state     *)
(* other than 2 and 4.                                                       *)
OutputRefused(w) ==
    /\ Convert[at[w]][loxone[at[w]]] = Null
    /\ Advance(w, "read")
    /\ UNCHANGED <<picea, newpsd, late, disturbances>>

CheckVirtualOutputStatus(w) ==
    LET s == at[w]
        v == Convert[s][loxone[s]]
    IN  /\ v # Null
        /\ WorkerGoes(w, "read", "has")
        /\ value' = [value EXCEPT ![w] = v]
        /\ UNCHANGED <<picea, at, newpsd, late, disturbances>>

(* Mutant: the value is used without asking whether there is one. *)
HasValueUnasked(w) ==
    /\ WorkerGoes(w, "has", "compare")
    /\ UNCHANGED <<picea, at, value, newpsd, late, disturbances>>

(* currentValue.has_value() *)
HasValue(w) ==
    /\ \/ PSD[at[w]] # Null /\ WorkerGoes(w, "has", "compare") /\ UNCHANGED <<at, value>>
       \/ PSD[at[w]] = Null /\ Advance(w, "has")
    /\ UNCHANGED <<picea, newpsd, late, disturbances>>

(* currentValue.value() != result, a second read of the same member. *)
Differs(w) == PSD[at[w]] # value[w]

Compare(w) ==
    /\ PSD[at[w]] # Null
    /\ newpsd' = IF Differs(w) THEN [newpsd EXCEPT ![w][at[w]] = value[w]] ELSE newpsd
    /\ Advance(w, "compare")
    /\ UNCHANGED <<picea, late, disturbances>>

(* value() on a member that has been emptied meanwhile: bad_optional_access, *)
(* which nothing catches.                                                    *)
BadOptionalAccess(w) ==
    /\ PSD[at[w]] = Null
    /\ WorkerGoes(w, "compare", "thrown")
    /\ UNCHANGED <<picea, at, value, newpsd, late, disturbances>>

(* bSendFlag, and the check of isConnected in UpdateConfigSettings: without  *)
(* a connection the changes are dropped, and the request answered all the    *)
(* same.                                                                     *)
SendSettingsData(w) ==
    /\ \/ newpsd[w] # NoSettings /\ isConnected /\ WorkerGoes(w, "send", "post")
       \/ (newpsd[w] = NoSettings \/ ~isConnected) /\ WorkerGoes(w, "send", "reply")
    /\ UNCHANGED <<picea, at, value, newpsd, late, disturbances>>

(* The appliance takes over the settings a request names. *)
Applied(p) == picea' = [s \in Settings |-> IF p[s] # Null THEN p[s] ELSE picea[s]]

UpdateConfigSettings(w) ==
    /\ WorkerGoes(w, "post", "reply")
    /\ Applied(newpsd[w])
    /\ UNCHANGED <<at, value, newpsd, late, disturbances>>

(* The request is lost, or refused: its result is ignored. *)
PostFails(w) ==
    /\ Disturbed
    /\ WorkerGoes(w, "post", "reply")
    /\ UNCHANGED <<picea, at, value, newpsd, late>>

(* Twenty seconds have passed; the appliance has the request all the same. *)
PostTimesOut(w) ==
    /\ Disturbed
    /\ Cardinality(late) < MaxLate
    /\ WorkerGoes(w, "post", "reply")
    /\ late' = late \cup {newpsd[w]}
    /\ UNCHANGED <<picea, at, value, newpsd>>

LatePostDone ==
    /\ \E p \in late : Applied(p) /\ late' = late \ {p}
    /\ UNCHANGED <<loxone, PSD, isConnected, pollVars, workVars, disturbances>>

(* Mutant: the changes to send are kept from one request to the next. *)
ReplyKeepsChanges(w) ==
    /\ WorkerGoes(w, "reply", "idle")
    /\ at' = [at EXCEPT ![w] = 1]
    /\ UNCHANGED <<picea, value, newpsd, late, disturbances>>

(* 200 OK, whatever became of the settings; the locals are gone. *)
Reply(w) ==
    /\ WorkerGoes(w, "reply", "idle")
    /\ at' = [at EXCEPT ![w] = 1]
    /\ newpsd' = [newpsd EXCEPT ![w] = NoSettings]
    /\ UNCHANGED <<picea, value, late, disturbances>>

Worker(w) ==
    \/ request_handler(w) \/ ReadFails(w) \/ OutputRefused(w) \/ CheckVirtualOutputStatus(w)
    \/ HasValue(w) \/ Compare(w) \/ BadOptionalAccess(w) \/ SendSettingsData(w)
    \/ UpdateConfigSettings(w) \/ PostFails(w) \/ PostTimesOut(w) \/ Reply(w)

(* TerminateHandler and the restart of the container: every static is new,  *)
(* a POST that was under way is lost.                                       *)
Abort ==
    /\ \E w \in Workers : workerPc[w] = "thrown"
    /\ PSD' = NoSettings
    /\ isConnected' = FALSE
    /\ pollPc' = "connect"
    /\ uncopied' = {}
    /\ psd' = NoSettings
    /\ genuine' = TRUE
    /\ workerPc' = [w \in Workers |-> "idle"]
    /\ at' = [w \in Workers |-> 1]
    /\ value' = [w \in Workers |-> Null]
    /\ newpsd' = [w \in Workers |-> NoSettings]
    /\ UNCHANGED <<loxone, picea, late, disturbances>>

-----------------------------------------------------------------------------

External == \/ \E s \in Settings : LoxoneChanges(s) \/ PiceaChanges(s)
            \/ Disconnect

Next == \/ External
        \/ Poller
        \/ \E w \in Workers : Worker(w)
        \/ LatePostDone
        \/ Abort

Spec == Init /\ [][Next]_vars

(* Requests keep coming, every transfer ends, and the outside world stops    *)
(* interfering once its budget is used up.                                   *)
Fairness ==
    /\ WF_vars(Poller)
    /\ \A w \in Workers : WF_vars(Worker(w))
    /\ WF_vars(LatePostDone)
    /\ WF_vars(Abort)

FairSpec == Spec /\ Fairness

-----------------------------------------------------------------------------
(* Safety *)

(* As long as the appliance reports every setting in every answer, the       *)
(* unguarded second read of PSD finds a value, whatever the poller is doing: *)
(* no request ends the process with bad_optional_access.                     *)
NoBadAccess == \A w \in Workers : workerPc[w] # "thrown"

(* Loxone and the appliance agree, and so does every copy of a setting that  *)
(* could still reach the appliance: in the cache, in the poller's hands, in  *)
(* a worker's hands, on the wire.                                            *)
Agrees(s, v) == v \in {Null, picea[s]}

OutputsAgree == \A s \in Settings : Agrees(s, Convert[s][loxone[s]])
CacheAgrees  == \A s \in Settings : /\ Agrees(s, PSD[s])
                                    /\ s \in uncopied => Agrees(s, psd[s])
WorkersAgree == \A w \in Workers :
    /\ workerPc[w] \in {"has", "compare"} => Agrees(at[w], value[w])
    /\ workerPc[w] # "idle" => \A s \in Settings : Agrees(s, newpsd[w][s])
WireAgrees   == \A p \in late : \A s \in Settings : Agrees(s, p[s])

Settled == OutputsAgree /\ CacheAgrees /\ WorkersAgree /\ WireAgrees

(* Once settled, nothing the program does by itself, no interleaving of      *)
(* polls, requests and late POSTs, no abort, moves a setting away again.     *)
SettledStays == [][Settled /\ ~External => Settled']_vars

(* CheckLoxoneValues sends a setting whose output differs from the appliance: *)
(* it does not pass it over.                                                 *)
SentWhenDifferent ==
    [][\A w \in Workers :
         (workerPc[w] = "compare" /\ workerPc'[w] \in {"read", "send"})
             => newpsd'[w][at[w]] = value[w] \/ picea[at[w]] = value[w]]_vars

(* OnDataFetched is called after a successful fetch, and only then. *)
CallbackOnlyAfterSuccess == pollPc = "push" => genuine

-----------------------------------------------------------------------------
(* Liveness *)

(* When the outside world leaves them in peace, Loxone and the appliance     *)
(* come to agree, through stale caches, dropped and late POSTs and restarts, *)
(* and stay so.                                                              *)
Converges == <>[]Settled

=============================================================================
