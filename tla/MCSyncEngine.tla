---------------------------- MODULE MCSyncEngine ----------------------------
EXTENDS SyncInvariant, TLC

OneFile == {"f"}
NoFolders == [p \in OneFile |-> {}]
Tree == {"d", "d/f"}
TreeAncestors == [p \in Tree |-> IF p = "d" THEN {} ELSE {"d"}]

Sym == Permutations(Ids) \cup Permutations(Content)
=============================================================================
