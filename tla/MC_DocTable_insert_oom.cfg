CONSTANTS Names = {n1, n2, n3, n4}
          n1 = n1
          n2 = n2
          n3 = n3
          n4 = n4
          Hash <- MCHash
          MaxDocs <- MCMaxDocs
          FailPoints = {"insert"}
INIT Init
NEXT Next
\* Registration stops at MaxDocs and an abort halts the process.
CHECK_DEADLOCK FALSE
INVARIANT TypeOK
INVARIANT TablesMutualInverse
INVARIANT ReturnedPairsConsistent
