---------------------------- MODULE MCRecovery ----------------------------
(* Symmetry for the model-checking runs of CrashRecovery. *)
EXTENDS CrashRecovery, TLC

Symmetry == Permutations(Tx)

ConcurrentSymmetry ==
  Permutations(Tx) \cup Permutations(Clients) \cup Permutations(Recoverers)
=============================================================================
