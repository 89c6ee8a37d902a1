------------------------- MODULE MCWorkspaceStorage -------------------------
(* A launcher of an older build and two of a newer one. *)
EXTENDS WorkspaceStorage, TLC

CONSTANTS p1, p2, p3

MCTarget == [p \in Procs |-> IF p = p1 THEN 1 ELSE 2]

Symmetry == Permutations({p2, p3}) \cup Permutations(Contents)
=============================================================================
