\* Every pair of index files over the bounds, every query of up to three words.
CONSTANTS
  Words = {w1, w2}
  NumFiles <- MCNumFiles
  DocIDs <- MCDocIDs
  MaxPositions <- MCMaxPositions
  MaxQueryLen <- MCMaxQueryLen
SPECIFICATION Spec
SYMMETRY MCWordSymmetry
INVARIANT QueryMatchesReference
