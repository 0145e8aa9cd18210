\* Every docID table of up to four docIDs in one to three buckets, every
\* chain order, written into an index file, opened, looked up for every
\* key and checked by hw3fsck, with and without a flipped checksum bit.
CONSTANTS
  DocIDs <- MCDocIDs
  PostingLists <- MCPostingLists
  BucketCounts <- MCBucketCounts
  Word <- MCWord
  MAGIC_NUMBER = MAGIC_NUMBER
  FlipBits <- MCFlipBits
SPECIFICATION Spec
\* Once the table is written, read and checked the program exits.
CHECK_DEADLOCK FALSE
INVARIANT TypeOK
INVARIANT LookupFindsChain
INVARIANT FsckWalksWholeTable
INVARIANT FsckHeaderDiagnostics
