----------------------------- MODULE MC_MemIndex -----------------------------
(* Model-checking instance of MemIndex: two words over three documents,    *)
(* so a first word's list can lose its head, middle or tail element.     *)
EXTENDS MemIndex, TLC

MCDocIDs == {1, 2, 3}
MCMaxPositions == 2
MCMaxQueryLen == 3
MCWordSymmetry == Permutations(Words)
=============================================================================
