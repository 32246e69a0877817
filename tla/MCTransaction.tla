--------------------------- MODULE MCTransaction ---------------------------
(* Symmetry for the model-checking runs of BinaryTransaction. *)
EXTENDS BinaryTransaction, TLC

Symmetry == Permutations(Data)
=============================================================================
