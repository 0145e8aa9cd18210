--------------------------- MODULE MC_HashTable ----------------------------
(***************************************************************************)
(* Model-checking instance of HashTable.  Keys 0, 8, 9, 10, 17 all share   *)
(* bucket 0 of a one-bucket table, so chains hold several nodes before     *)
(* the first resize (at the 4th distinct key); in the 9-bucket table they  *)
(* fall in buckets 0, 8, 0, 1, 8: two multi-node chains, the last bucket   *)
(* occupied, and empty buckets between for FindNextNonEmptyBucket.         *)
(***************************************************************************)
EXTENDS HashTable, TLC

MCKeys == {0, 8, 9, 10, 17}
MCInitBuckets == 1

\* Fewer keys, for checking with the resize fail point, which is slow.
MCKeysSmall == {0, 8, 9, 17}

\* For the "iternext" fail point: a two-bucket table resizes at its 6th key, copying two non-empty
\* buckets: the case where ResizeHashtable moves between buckets.
MCKeysWide == 0 .. 5
MCTwoBuckets == 2

\* Values are compared only for equality.
MCSymmetry == Permutations(Values)
=============================================================================
