\* Postings added in any order, then queries of up to three words.
CONSTANTS
  Words = {w1, w2}
  DocIDs <- MCDocIDs
  MaxPositions <- MCMaxPositions
  MaxQueryLen <- MCMaxQueryLen
  FailPoints = {"alloc"}
SPECIFICATION Spec
SYMMETRY MCWordSymmetry
INVARIANT TypeOK
INVARIANT QueryMatchesReference
INVARIANT WordSetsNonEmpty
CHECK_DEADLOCK FALSE
