---------------------------- MODULE ValuePushMC -----------------------------
(* ValuePush for TLC: a measured value (power) and a setting (stage), each   *)
(* fetched with its own request.                                            *)
EXTENDS ValuePush

CONSTANTS power, stage

=============================================================================
