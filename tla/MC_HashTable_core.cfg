\* Allocation of pairs and iterators may fail anywhere; the resize itself succeeds.
CONSTANTS
  Keys <- MCKeys
  Values = {v1, v2}
  NoValue = NoValue
  InitBuckets <- MCInitBuckets
  FailPoints = {"alloc"}
SYMMETRY MCSymmetry
SPECIFICATION Spec
INVARIANT TypeOK
INVARIANT ChainsWellFormed
INVARIANT NumElementsExact
INVARIANT LoadBound
INVARIANT IterationVisitsEachOnce
PROPERTY ImplementsHashMap
