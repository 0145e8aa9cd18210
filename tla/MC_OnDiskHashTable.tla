------------------------- MODULE MC_OnDiskHashTable -------------------------
(* Model-checking instance of OnDiskHashTable: four docIDs in one to three*)
(* buckets (they collide in every count, bucket 0 is empty or not), with *)
(* posting lists of one and two positions, under the word "ab"; the      *)
(* stored checksum may have its lowest or a high bit flipped.            *)
EXTENDS OnDiskHashTable

MCDocIDs == {1, 2, 3, 4}
MCPostingLists == {<<3>>, <<1, 5>>}
MCBucketCounts == {1, 2, 3}
MCWord == <<97, 98>>
MCFlipBits == {0, 30}
=============================================================================
