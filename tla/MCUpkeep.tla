------------------------------- MODULE MCUpkeep -------------------------------
(* Small instances of Upkeep for TLC: record 1 is a note that refers to 2. *)
EXTENDS Upkeep

MCRefers  == [r \in Records |-> IF r = 1 THEN Records \ {1} ELSE {}]
=============================================================================
