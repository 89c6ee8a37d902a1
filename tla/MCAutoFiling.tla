----------------------------- MODULE MCAutoFiling -----------------------------
(* Small instances of AutoFiling for TLC. *)
EXTENDS AutoFiling, TLC

Symmetry == Permutations(Sources)
=============================================================================
