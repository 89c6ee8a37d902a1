--------------------------- MODULE MCImportStaging ---------------------------
(* Small instances of ImportStaging for TLC. *)
EXTENDS ImportStaging, TLC

CONSTANTS plain, local, policy, w1, w2

MCOneBatch  == [e \in Entries |-> 1]
MCTwoBatches == [e \in Entries |-> IF e = 1 THEN 1 ELSE 2]
MCByteCount == [e \in Entries |-> 1]
MCTextSize  == [v \in Versions |-> 1]
MCWindowSymmetry == Permutations(Windows)
=============================================================================
