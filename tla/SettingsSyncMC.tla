--------------------------- MODULE SettingsSyncMC ---------------------------
(***************************************************************************)
(* SettingsSync for TLC.  An output shows on, off or something odd; the    *)
(* last setting refuses what is odd, as filter_exchange_state does, any     *)
(* other is a switch that takes it for on.                                 *)
(***************************************************************************)
EXTENDS SettingsSync, TLC

CONSTANTS on, off, odd, w1, w2

MCConvert == [s \in Settings |-> [o \in Outputs |->
                 IF o # odd THEN o ELSE IF s = NumSettings THEN Null ELSE on]]

WorkerSymmetry == Permutations(Workers)
=============================================================================
