----------------------------- MODULE RestartTime -----------------------------
(***************************************************************************)
(* When main() restarts the services: GetNextLocalMidnight, whose struct   *)
(* tm keeps the tm_isdst of now, and WaitUntilRestartWindow, in a time     *)
(* zone with a daylight saving time.  Time is counted in hours (UTC) of a  *)
(* year of a few days that comes again and again.                          *)
(***************************************************************************)
EXTENDS Integers

CONSTANTS
    Days,               \* of a year
    Forward, Back,      \* the hours of the year when the clocks are changed
    StandardOffset      \* local standard time, in hours after UTC

Year == 24 * Days

ASSUME DaysAssumption == Days \in Nat \ {0}
ASSUME ChangesAssumption == Forward \in 0..(Year - 1) /\ Back \in (Forward + 1)..(Year - 1)
ASSUME OffsetAssumption == StandardOffset \in Int

VARIABLES
    now,                \* the hour of the year
    left,               \* WaitUntilRestartWindow: hours until restartAt
    changed             \* history: the clocks were changed since restartAt was set

restartVars == <<now, left, changed>>

-----------------------------------------------------------------------------
(* The clock of the system *)

Dst(t) == IF t % Year >= Forward /\ t % Year < Back THEN 1 ELSE 0

(* localtime_r: the hours of local time since a midnight. *)
localtime(t) == t + StandardOffset + Dst(t)

(* mktime believes a tm_isdst that does not hold at that time. *)
mktime(local, isdst) == local - StandardOffset - isdst

Hour(t) == localtime(t) % 24

-----------------------------------------------------------------------------

(* Mutant: no next day. *)
GetMidnight(t) == mktime(localtime(t) - Hour(t), Dst(t))

GetNextLocalMidnight(t) == mktime(localtime(t) - Hour(t) + 24, Dst(t))

(* A cycle of the services begins at this hour. *)
Begin(t) ==
    /\ left' = GetNextLocalMidnight(t) - t
    /\ changed' = FALSE

RestartInit ==
    /\ now \in 0..(Year - 1)
    /\ left = GetNextLocalMidnight(now) - now
    /\ changed = FALSE

(* now() < restartAt: it waits on. *)
Wait ==
    /\ left > 0
    /\ now' = (now + 1) % Year
    /\ left' = left - 1
    /\ changed' = (changed \/ Dst(now) # Dst(now + 1))

Midnight == left <= 0 /\ Begin(now) /\ UNCHANGED now

(* The poller has ended before. *)
PollerEnded == left > 0 /\ Begin(now) /\ UNCHANGED now

RestartNext == Wait \/ Midnight \/ PollerEnded

RestartSpec == RestartInit /\ [][RestartNext]_restartVars

-----------------------------------------------------------------------------

(* The services are restarted once a day, around midnight: a cycle never    *)
(* lasts longer than a day, nor ends as it begins, which would restart them *)
(* without a pause, and it ends at midnight or, when the clocks were        *)
(* changed since it began, an hour before or after.                         *)
RestartsDaily ==
    /\ left \in 0..24
    /\ GetNextLocalMidnight(now) > now
    /\ left = 0 => Hour(now) \in (IF changed THEN {23, 0, 1} ELSE {0})

=============================================================================
