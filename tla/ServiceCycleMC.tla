--------------------------- MODULE ServiceCycleMC ---------------------------
(***************************************************************************)
(* ServiceCycle for TLC: the workers are interchangeable.                  *)
(***************************************************************************)
EXTENDS ServiceCycle, TLC

WorkerSymmetry == Permutations(Workers)

=============================================================================
