---------------------------- MODULE ConversionsMC ----------------------------
(***************************************************************************)
(* Base64, SettingValues and RestartTime share nothing and are checked in  *)
(* one run: in a behaviour one of them moves, the others stay as they      *)
(* start.                                                                  *)
(***************************************************************************)
EXTENDS Base64, SettingValues, RestartTime

(* The edges of the ranges of a time, a battery and a filter. *)
MCNumbers == {-1, 0, 1, 2, 3, 4, 59, 60, 3599, 3600, 23400, 86399, 86400, 90061}

VARIABLE part

Init ==
    /\ part \in {"encode", "setting", "restart"}
    /\ EncodeInit /\ SettingInit /\ RestartInit
    /\ part # "setting" => kind = "bool" /\ output = 0 /\ said = FALSE
    /\ part # "restart" => now = 0

Next ==
    /\ UNCHANGED part
    /\ \/ part = "encode" /\ EncodeNext /\ UNCHANGED <<settingVars, restartVars>>
       \/ part = "setting" /\ SettingNext /\ UNCHANGED <<encodeVars, restartVars>>
       \/ part = "restart" /\ RestartNext /\ UNCHANGED <<encodeVars, settingVars>>

Spec == Init /\ [][Next]_<<part, encodeVars, settingVars, restartVars>>

=============================================================================
