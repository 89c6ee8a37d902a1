---- MODULE MCChatDrafts ----
EXTENDS ChatDrafts, TLC
Symmetry == Permutations(Windows) \cup Permutations(Texts)
====
