-------------------------- MODULE MCResponseRecords --------------------------
(* Two responses, which are not told apart. *)
EXTENDS ResponseRecords, TLC

Symmetry == Permutations(Turns)
=============================================================================
