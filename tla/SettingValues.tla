---------------------------- MODULE SettingValues ----------------------------
(***************************************************************************)
(* One setting on its way from a virtual output of Loxone to Picea and     *)
(* back to a virtual input: how CheckLoxoneValues reads the number that    *)
(* the output shows, SendSettingsData names it, FetchData reads the name   *)
(* and HandleFetchedData writes it as a number again.  SettingsSync has    *)
(* the interleavings of these steps, here they come one at a time.         *)
(*                                                                         *)
(* A value that may be missing is a set with one element or none.          *)
(***************************************************************************)
EXTENDS Integers

CONSTANT Numbers        \* what an output may show

ASSUME NumbersAssumption == Numbers \subseteq Int

Kinds == {"bool", "battery", "filter", "time"}

-----------------------------------------------------------------------------
(* The conversions *)

ExtBatterySetup == [none |-> 0, Ext_basic |-> 1, Ext_hybrid |-> 2]

FilterExchangeState ==
    [init |-> 0, filterchange_currently_possible |-> 1, filterchange_preparing |-> 2,
     ready_for_filterchange |-> 3, filterchange_verifying |-> 4,
     filterchange_verification_failed |-> 5, filterchange_currently_NOT_possible |-> 6]

Names(enum, n) == {name \in DOMAIN enum : enum[name] = n}

(* Mutant: the hours are left among the minutes. *)
sekundenInZeitformatHoursKept(sekunden) ==
    LET s == (IF sekunden < 0 THEN 0 ELSE sekunden) % 86400
    IN <<s \div 3600, s \div 60, s % 60>>

sekundenInZeitformat(sekunden) ==
    LET s == (IF sekunden < 0 THEN 0 ELSE sekunden) % 86400
    IN <<s \div 3600, (s % 3600) \div 60, s % 60>>

zeitInSekunden(zeit) == zeit[1] * 3600 + zeit[2] * 60 + zeit[3]

(* CheckLoxoneValues: what is wanted when the output shows n. *)
Wanted(kind, n) ==
    CASE kind = "bool" -> {n = 1}
      [] kind = "battery" -> {n}
      [] kind = "filter" -> {n} \cap {2, 4}
      [] kind = "time" -> {sekundenInZeitformat(n)}

(* SendSettingsData: what is said to Picea; it has a default for a battery  *)
(* without a name, and nothing for the other filter states.                 *)
Said(kind, v) ==
    CASE kind \in {"bool", "time"} -> {v}
      [] kind = "battery" -> IF Names(ExtBatterySetup, v) = {} THEN {"none"}
                             ELSE Names(ExtBatterySetup, v)
      [] kind = "filter" -> Names(FilterExchangeState, v) \cap
                             {"filterchange_preparing", "filterchange_verifying"}

(* FetchData: what it understands. *)
Understood(kind, w) ==
    CASE kind \in {"bool", "time"} -> {w}
      [] kind = "battery" -> {ExtBatterySetup[x] : x \in {w} \cap DOMAIN ExtBatterySetup}
      [] kind = "filter" -> {FilterExchangeState[x] : x \in {w} \cap DOMAIN FilterExchangeState}

(* HandleFetchedData: the number it writes. *)
Written(kind, v) ==
    CASE kind = "bool" -> IF v THEN 1 ELSE 0
      [] kind \in {"battery", "filter"} -> v
      [] kind = "time" -> zeitInSekunden(v)

-----------------------------------------------------------------------------

(* What Picea may say by itself. *)
Sayings(kind) ==
    CASE kind = "bool" -> BOOLEAN
      [] kind = "battery" -> DOMAIN ExtBatterySetup \cup {"another"}
      [] kind = "filter" -> DOMAIN FilterExchangeState \cup {"another"}
      [] kind = "time" -> {<<0, 0, 0>>, <<6, 30, 0>>, <<24, 0, 0>>}

VARIABLES
    kind,
    output, input,  \* what Loxone's output and input show
    said,           \* what Picea says
    known,          \* PSD
    since           \* history: what has happened since somebody changed something

settingVars == <<kind, output, input, said, known, since>>

SettingInit ==
    /\ kind \in Kinds
    /\ output \in Numbers /\ said \in Sayings(kind)
    /\ input = 0 /\ known = {}
    /\ since = "change"

Operate ==
    /\ output' \in Numbers /\ since' = "change"
    /\ UNCHANGED <<kind, input, said, known>>

PiceaChanges ==
    /\ said' \in Sayings(kind) /\ since' = "change"
    /\ UNCHANGED <<kind, output, input, known>>

(* A /set request: a setting is sent when it is known and another is wanted. *)
Set ==
    LET wanted == Wanted(kind, output) IN
    /\ said' \in IF known = {} \/ wanted = {} \/ wanted = known THEN {said}
                 ELSE UNION {Said(kind, v) : v \in wanted}
    /\ since' = IF since = "poll" THEN "set" ELSE since
    /\ UNCHANGED <<kind, output, input, known>>

Poll ==
    /\ known' = Understood(kind, said)
    /\ input' \in IF known' = {} THEN {input} ELSE {Written(kind, v) : v \in known'}
    /\ since' = CASE since = "change" -> "poll" [] since = "set" -> "settled"
                  [] OTHER -> since
    /\ UNCHANGED <<kind, output, said>>

SettingNext == Operate \/ PiceaChanges \/ Set \/ Poll

SettingSpec == SettingInit /\ [][SettingNext]_settingVars

-----------------------------------------------------------------------------

SecondsOfTheDay == 0..86399

(* The numbers that mean something, as the input would show them. *)
Meaningful(k) ==
    CASE k = "bool" -> {0, 1}
      [] k = "battery" -> {0, 1, 2}
      [] k = "filter" -> {2, 4}
      [] k = "time" -> SecondsOfTheDay

(* A setting comes back as it was set: after a poll, a /set request and     *)
(* another poll, with no change in between, the next /set request sends     *)
(* nothing any more, whatever number the output shows, and the input shows  *)
(* the output's number.  Two are never settled: a setting that FetchData    *)
(* does not understand, and a number of ext_battery_setup that has no name, *)
(* which is said as "none" at every request.                                *)
RoundTrip ==
    since = "settled" /\ known # {} =>
        LET wanted == Wanted(kind, output) IN
        /\ \/ wanted \in {known, {}}
           \/ kind = "battery" /\ output \notin Meaningful(kind) /\ said = "none"
        /\ output \in Meaningful(kind) => input = output

=============================================================================
