------------------------- MODULE MC_QueryProcessor -------------------------
(* Two index files, each with two words over two documents: a word can be *)
(* in one file and not the other, and a document can lose in one file and *)
(* survive in the other.                                                  *)
EXTENDS QueryProcessor, TLC

MCNumFiles == 2
MCDocIDs == {1, 2}
MCMaxPositions == 2
MCMaxQueryLen == 3
MCWordSymmetry == Permutations(Words)
=============================================================================
