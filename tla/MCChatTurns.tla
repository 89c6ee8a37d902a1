----------------------------- MODULE MCChatTurns -----------------------------
(* Small instances of ChatTurns for TLC. *)
EXTENDS ChatTurns

\* Sends 1 and 2 go to one conversation, the others to another.
MCConvOf == [s \in Sends |-> IF s <= 2 THEN 1 ELSE 2]
=============================================================================
