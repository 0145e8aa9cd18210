--------------------------- MODULE OnDiskHashTable ---------------------------
(***************************************************************************)
(* An index file as spec 3 and 4.4 lay it out: the 16-byte header, the     *)
(* doctable region and the index table, whose one word element embeds a   *)
(* docID table (docID -> positions).  The docID table is read back by     *)
(* HashTableReader::LookupElementPositions (src/hw3/HashTableReader.cc),  *)
(* and the whole file is walked by the hw3fsck checker: FileIndexChecker  *)
(* checks the header and runs HashTableChecker::Check over the doctable   *)
(* and the index table, where IndexTableChecker::CheckElement hands the   *)
(* embedded table to DocIDTableChecker (src/hw3/hw3fsck).                 *)
(*                                                                         *)
(* The file is the set of fields the writer put in it: a field is its     *)
(* start offset, its width in bytes and its value (already converted to   *)
(* host order, so ntohl is the identity here).  A read of a width at an   *)
(* offset gives the field written there, Garbage when the bytes are part  *)
(* of other fields, and EOF when they run past the end of the file, where *)
(* fread returns 0 and the caller's Verify333 or assert ends the process. *)
(* The writer (FileIndexWriter, not under src/) is modelled from spec 4.4, *)
(* with a word element's fields in the order IndexTableChecker reads them *)
(* (word length, docID table length, word); spec 4.4 puts the docID table *)
(* length after the word, and a writer in that order makes every read of *)
(* the checker after the word length land inside other fields.            *)
(* The one fault modelled is the one spec 8 names: a bit of the stored    *)
(* checksum flipped on disk before hw3fsck runs.                           *)
(***************************************************************************)
EXTENDS Integers, Sequences, SequencesExt, FiniteSets, FiniteSetsExt

CONSTANTS DocIDs,        \* the docIDs a table may hold
          PostingLists,  \* the position lists a docID may have
          BucketCounts,  \* num_buckets of the in-memory table when written
          Word,          \* the indexed word, as its ASCII codes
          MAGIC_NUMBER,  \* the header's magic number
          FlipBits       \* the checksum bits a corruption may flip

ASSUME /\ DocIDs \subseteq Nat
       /\ BucketCounts \subseteq Nat \ {0}
       /\ Word \in Seq(0..127) /\ Word # <<>>
       /\ FlipBits \subseteq 0..30

\* Read results no field holds (fields are unsigned), and the header_ of a
\* reader not yet constructed.
EOF      == -1
Garbage  == -2
NoHeader == -3
NoFsck   == [ran |-> FALSE]   \* hw3fsck has not run

\* Field widths and offsets of the format (hw3fsck/CheckerUtils.h).
kFileIndexHeaderSize == 16
kBucketLengthSize == 4
kBucketRecordSize == 8
kElementPositionSize == 4
kMagicNumberOffset == 0
kWordLenSize == 2
kDocIDTableLengthSize == 4

VARIABLES nbuckets,  \* num_buckets of the in-memory table
          chains,    \* bucket -> its docIDs in chain order
          postings,  \* docID -> its positions list
          file,      \* the fields written, or {} before the write
          tlen,      \* the docID table's length in bytes, as the writer returns it
          header,    \* HashTableReader::header_.num_buckets, or NoHeader
          lookups,   \* key -> what LookupElementPositions returned
          fsck,      \* what hw3fsck did: diagnostics, elements visited, bad reads
          corrupt    \* history: the stored checksum was flipped

vars == <<nbuckets, chains, postings, file, tlen, header, lookups, fsck, corrupt>>

Buckets(n) == 0..n - 1
SumSeqOf(s) == FoldLeft(+, 0, s)

-----------------------------------------------------------------------------
(* Where the regions lie.  The doctable region follows the header; the    *)
(* index table has one bucket, whose chain holds the one word's element:  *)
(* word_len, the docID table's length, the word's bytes, the docID table. *)

DocTableOffset == kFileIndexHeaderSize
DocTableSize == kBucketLengthSize + kBucketRecordSize
IndexOffset == DocTableOffset + DocTableSize
WordElemOffset == IndexOffset + kBucketLengthSize + kBucketRecordSize + kElementPositionSize
TableOffset == WordElemOffset + kWordLenSize + kDocIDTableLengthSize + Len(Word)

(* The docID table's writer, from spec 4.4: num_buckets, the bucket records, then for   *)
(* each non-empty bucket in order its element-offset array followed by its *)
(* elements.  An empty bucket's record is chain_len 0, position 0.         *)

ElemSize(d) == 8 + 4 + 4 * Len(postings[d])
AreaSize(b) == kElementPositionSize * Len(chains[b])
                 + SumSeqOf([j \in 1..Len(chains[b]) |-> ElemSize(chains[b][j])])
AreaStart(b) == TableOffset + kBucketLengthSize + kBucketRecordSize * nbuckets
                  + SumSeqOf([k \in 1..b |-> AreaSize(k - 1)])
ElemOffset(b, j) == AreaStart(b) + kElementPositionSize * Len(chains[b])
                      + SumSeqOf([k \in 1..j - 1 |-> ElemSize(chains[b][k])])

F(at, w, v) == [at |-> at, w |-> w, v |-> v]

Layout ==
  {F(TableOffset, 4, nbuckets)}
  \cup UNION {{F(TableOffset + 4 + 8 * b, 4, Len(chains[b])),
               F(TableOffset + 8 + 8 * b, 4, IF chains[b] = <<>> THEN 0 ELSE AreaStart(b))}
              : b \in Buckets(nbuckets)}
  \cup UNION {UNION {{F(AreaStart(b) + 4 * (j - 1), 4, ElemOffset(b, j)),
                      F(ElemOffset(b, j), 8, chains[b][j]),
                      F(ElemOffset(b, j) + 8, 4, Len(postings[chains[b][j]]))}
                     \cup {F(ElemOffset(b, j) + 12 + 4 * (k - 1), 4, postings[chains[b][j]][k])
                           : k \in 1..Len(postings[chains[b][j]])}
                     : j \in 1..Len(chains[b])}
              : b \in Buckets(nbuckets)}

TableLen == kBucketLengthSize + kBucketRecordSize * nbuckets
              + SumSeqOf([k \in 1..nbuckets |-> AreaSize(k - 1)])

\* The doctable region, written as a table of one empty bucket: the check of
\* a doctable element (DocTableChecker::CheckElement) has no source here.
DocTableFields ==
  {F(DocTableOffset, 4, 1), F(DocTableOffset + 4, 4, 0), F(DocTableOffset + 8, 4, 0)}

\* The index table around a docID table of length tl.
IndexFields(tl) ==
  {F(IndexOffset, 4, 1), F(IndexOffset + 4, 4, 1), F(IndexOffset + 8, 4, IndexOffset + 12),
   F(IndexOffset + 12, 4, WordElemOffset),
   F(WordElemOffset, kWordLenSize, Len(Word)),
   F(WordElemOffset + kWordLenSize, kDocIDTableLengthSize, tl)}
  \cup {F(WordElemOffset + kWordLenSize + kDocIDTableLengthSize + i - 1, 1, Word[i])
        : i \in 1..Len(Word)}

IndexSize(tl) == TableOffset - IndexOffset + tl

\* CRC32 over the bytes after the header, abstracted to a sum of each
\* field's value weighted by its offset: writer and checker compute it over
\* the same bytes, and no modelled fault changes those bytes.
Checksum(body) == MapThenSumSet(LAMBDA f : (f.at + 1) * (f.v + 1), body) % 65521

\* The 16-byte header: magic number, checksum, doctable_size, index_size.
HeaderFields(body, tl) ==
  {F(kMagicNumberOffset, 4, MAGIC_NUMBER), F(kMagicNumberOffset + 4, 4, Checksum(body)),
   F(kMagicNumberOffset + 8, 4, DocTableSize), F(kMagicNumberOffset + 12, 4, IndexSize(tl))}

-----------------------------------------------------------------------------

\* The file ends with the docID table of length len: its st_size.
FileSize(len) == TableOffset + len

\* fseek(offset) then fread of w bytes, converted to host order.
Read(fl, len, at, w) ==
  IF at + w > FileSize(len) THEN EOF
  ELSE IF \E f \in fl : f.at = at /\ f.w = w THEN (CHOOSE f \in fl : f.at = at /\ f.w = w).v
  ELSE Garbage

ReadOK(v) == v \notin {EOF, Garbage}

\* An in-memory docID table: num_buckets n, each docID in bucket docID % n,
\* a chain in any order insertion and resizing can leave.
BucketOf(S, n, b) == {d \in S : d % n = b}
Tables ==
  UNION {{[n |-> n, ch |-> ch, pl |-> pl] :
            ch \in {c \in [Buckets(n) -> UNION {SetToSeqs(BucketOf(S, n, b)) : b \in Buckets(n)}] :
                      \A b \in Buckets(n) : c[b] \in SetToSeqs(BucketOf(S, n, b))},
            pl \in [S -> PostingLists]}
         : n \in BucketCounts, S \in SUBSET DocIDs}

Init ==
  /\ \E t \in Tables : nbuckets = t.n /\ chains = t.ch /\ postings = t.pl
  /\ file = {}
  /\ tlen = 0
  /\ header = NoHeader
  /\ lookups = <<>>
  /\ fsck = NoFsck
  /\ corrupt = FALSE

\* FileIndexWriter::WriteFileIndex: the doctable, then the index table with
\* its docID table, then the header with the checksum of everything after it.
WriteFileIndex ==
  LET body == DocTableFields \cup IndexFields(TableLen) \cup Layout IN
  /\ file = {}
  /\ file' = HeaderFields(body, TableLen) \cup body
  /\ tlen' = TableLen
  /\ UNCHANGED <<nbuckets, chains, postings, header, lookups, fsck, corrupt>>

\* Flipping bit b of a 32-bit value.
FlipBit(v, b) == IF (v \div 2^b) % 2 = 0 THEN v + 2^b ELSE v - 2^b

\* The fault of spec 8: one bit of the stored checksum flips on disk
\* before hw3fsck reads the file.
FlipChecksumBit ==
  /\ file # {}
  /\ fsck = NoFsck
  /\ ~corrupt
  /\ \E b \in FlipBits :
       LET f == CHOOSE f \in file : f.at = kMagicNumberOffset + 4 IN
       file' = (file \ {f}) \cup {F(f.at, f.w, FlipBit(f.v, b))}
  /\ corrupt' = TRUE
  /\ UNCHANGED <<nbuckets, chains, postings, tlen, header, lookups, fsck>>

-----------------------------------------------------------------------------
(* HashTableReader.                                                        *)

\* The constructor: fseek to the table, fread the num_buckets header.
HashTableReader ==
  /\ file # {}
  /\ header = NoHeader
  /\ header' = Read(file, tlen, TableOffset, 4)
  /\ UNCHANGED <<nbuckets, chains, postings, file, tlen, lookups, fsck, corrupt>>

\* Mutant: the num_buckets header is not skipped.
BucketRecOffset_NoHeader(key) == TableOffset + 8 * (key % header)

\* offset_ + sizeof(BucketListHeader) + sizeof(bucket_rec) * bucket_num.
BucketRecOffset(key) == TableOffset + 4 + 8 * (key % header)

\* Mutant: the i-th position is read one record further on.
ElementPositions_OffByOne(pos, clen) ==
  [i \in 1..clen |-> Read(file, tlen, pos + 4 * i, 4)]

\* The chain_len element positions read from bucket_position on, in
\* stored order; a read that fails ends the list with its result.
ElementPositions(pos, clen) ==
  [i \in 1..clen |-> Read(file, tlen, pos + 4 * (i - 1), 4)]

\* LookupElementPositions: the bucket_rec of key's bucket, then the empty
\* list for chain_len 0, otherwise the chain's element positions.
LookupElementPositionsResult(key) ==
  LET rec  == BucketRecOffset(key)
      clen == Read(file, tlen, rec, 4)
      pos  == Read(file, tlen, rec + 4, 4)
  IN  IF ~ReadOK(clen) \/ ~ReadOK(pos) THEN <<Garbage>>
      ELSE IF clen = 0 THEN <<>>
      ELSE ElementPositions(pos, clen)

LookupElementPositions(key) ==
  /\ header > 0
  /\ key \notin DOMAIN lookups
  /\ lookups' = (key :> LookupElementPositionsResult(key)) @@ lookups
  /\ UNCHANGED <<nbuckets, chains, postings, file, tlen, header, fsck, corrupt>>

-----------------------------------------------------------------------------
(* hw3fsck: FileIndexChecker, then HashTableChecker::Check over each      *)
(* table, whose CheckElement is the table's subclass.  A CheckEQ or       *)
(* CheckLT that fails prints its diagnostic: the model records the table  *)
(* and the check's name.  The walk stops at a read that fails (the assert *)
(* ends the process) or hits other fields (what follows is undefined).    *)
(* A table is [off, len, kind], kind "doc", "index" or "docids".          *)

\* The walk's state: diagnostics printed, <<kind, offset>> of the elements
\* passed to CheckElement, a failed or misplaced read, and the current
\* checker's foundFirstNonEmpty and prevBucket.
Walk0 == [diags |-> {}, visited |-> <<>>, bad |-> FALSE, found |-> FALSE, prev |-> 0]
Diag(st, ok, name) == IF ok THEN st ELSE [st EXCEPT !.diags = @ \cup {name}]
Bad(st) == [st EXCEPT !.bad = TRUE]

\* The positions loop of CheckElement: each one greater than the one before.
RECURSIVE CheckPositions(_, _, _, _, _)
CheckPositions(at, i, numPos, prevPos, st) ==
  IF i >= numPos THEN st
  ELSE LET cur == Read(file, tlen, at + 4 * i, 4) IN
       IF ~ReadOK(cur) THEN Bad(st)
       ELSE CheckPositions(at, i + 1, numPos, cur,
                           Diag(st, i = 0 \/ prevPos < cur, <<"docids", "pos_order">>))

\* DocIDTableChecker::CheckElement: the docID hashes to the bucket, the
\* position count is reasonable, the positions increase.
CheckElement(elementOffset, bucketNumber, n, st) ==
  LET docID  == Read(file, tlen, elementOffset, 8)
      numPos == Read(file, tlen, elementOffset + 8, 4)
  IN  IF ~ReadOK(docID) \/ ~ReadOK(numPos) THEN Bad(st)
      ELSE CheckPositions(elementOffset + 12, 0, numPos, 0,
             Diag(Diag(st, bucketNumber = docID % n, <<"docids", "bucket_number">>),
                  numPos < 1000000, <<"docids", "num_positions">>))

\* The word's bytes: ASCII, and lower case where alphabetic.
IsAlpha(c) == c \in 65..90 \cup 97..122
IsLower(c) == c \in 97..122
CheckWord(word, st) ==
  Diag(Diag(st, \A i \in DOMAIN word : word[i] < 128, <<"index", "isascii">>),
       \A i \in DOMAIN word : IsAlpha(word[i]) => IsLower(word[i]), <<"index", "islower">>)

RECURSIVE CheckTable(_, _)

\* Mutant: the embedded docID table is taken to start right after the word
\* length and the word, as spec 4.4 orders the fields.
DocIDTableAt_SpecOrder(elementOffset, wordLen) == elementOffset + kWordLenSize + wordLen

\* elementOffset + kWordLenSize + kDocIDTableLengthSize + wordLen.
DocIDTableAt(elementOffset, wordLen) ==
  elementOffset + kWordLenSize + kDocIDTableLengthSize + wordLen

\* IndexTableChecker::CheckElement: word_len, the docID table's length, the
\* element's end within the index table, the word's bytes, then a
\* DocIDTableChecker of its own over the embedded table.
IndexCheckElement(t, elementOffset, st) ==
  LET wordLen       == Read(file, tlen, elementOffset, kWordLenSize)
      docIDTableLen == Read(file, tlen, elementOffset + kWordLenSize, kDocIDTableLengthSize)
      sub           == DocIDTableAt(elementOffset, wordLen)
      word == [i \in 1..wordLen |->
                 Read(file, tlen, elementOffset + kWordLenSize + kDocIDTableLengthSize + i - 1, 1)]
  IN  IF ~ReadOK(wordLen) \/ ~ReadOK(docIDTableLen) THEN Bad(st)
      ELSE LET s1 == Diag(Diag(st, wordLen < 8192, <<"index", "word_len">>),
                          elementOffset + kWordLenSize + kDocIDTableLengthSize + wordLen
                            < t.off + t.len, <<"index", "element_end">>)
           IN  IF \E i \in 1..wordLen : ~ReadOK(word[i]) THEN Bad(s1)
               ELSE LET s2 == CheckWord(word, s1)
                        s3 == CheckTable([off |-> sub, len |-> docIDTableLen, kind |-> "docids"],
                                         s2)
                    IN  [s3 EXCEPT !.found = s2.found, !.prev = s2.prev]

\* The subclass's CheckElement; the doctable written has no elements.
CheckTableElement(t, elementPos, i, n, st) ==
  CASE t.kind = "docids" -> CheckElement(elementPos, i, n, st)
    [] t.kind = "index"  -> IndexCheckElement(t, elementPos, st)
    [] OTHER             -> Bad(st)

RECURSIVE CheckChain(_, _, _, _, _, _, _)

\* Mutant: the element positions are read with the bucket record's stride.
CheckChain_RecordStride(t, i, j, curChainLen, curBucket, n, st) ==
  IF j >= curChainLen \/ st.bad THEN st
  ELSE LET elementPos == Read(file, tlen, curBucket + kBucketRecordSize * j, 4) IN
       IF ~ReadOK(elementPos) THEN Bad(st)
       ELSE CheckChain(t, i, j + 1, curChainLen, curBucket, n,
              CheckTableElement(t, elementPos, i, n,
                [Diag(st, elementPos < t.off + t.len + 1, <<t.kind, "element_position">>)
                   EXCEPT !.visited = Append(@, <<t.kind, elementPos>>)]))

\* The loop over one bucket's element positions.
CheckChain(t, i, j, curChainLen, curBucket, n, st) ==
  IF j >= curChainLen \/ st.bad THEN st
  ELSE LET elementPos == Read(file, tlen, curBucket + kElementPositionSize * j, 4) IN
       IF ~ReadOK(elementPos) THEN Bad(st)
       ELSE CheckChain(t, i, j + 1, curChainLen, curBucket, n,
              CheckTableElement(t, elementPos, i, n,
                [Diag(st, elementPos < t.off + t.len + 1, <<t.kind, "element_position">>)
                   EXCEPT !.visited = Append(@, <<t.kind, elementPos>>)]))

\* One iteration of the loop over the bucket_recs.
CheckBucket(t, i, n, st) ==
  LET rec         == t.off + kBucketLengthSize + kBucketRecordSize * i
      curChainLen == Read(file, tlen, rec, 4)
      curBucket   == Read(file, tlen, rec + 4, 4)
      \* the sanity check against the previous non-empty bucket
      s1 == IF st.found /\ curChainLen > 0
            THEN [Diag(st, st.prev < curBucket, <<t.kind, "bucket_order">>)
                    EXCEPT !.prev = curBucket]
            ELSE st
      \* the first non-empty bucket: prevBucket is re-read from bucket_rec[0]
      first == Read(file, tlen, t.off + kBucketLengthSize + 4, 4)
      s2 == IF curChainLen > 0 /\ ~s1.found
            THEN IF ~ReadOK(first) THEN Bad(s1)
                 ELSE Diag([s1 EXCEPT !.found = TRUE, !.prev = first],
                           t.off + kBucketLengthSize + kBucketRecordSize * n = first, <<t.kind, "first_bucket_position">>)
            ELSE s1
  IN  IF ~ReadOK(curChainLen) \/ ~ReadOK(curBucket) THEN Bad(st)
      ELSE CheckChain(t, i, 0, curChainLen, curBucket, n,
             Diag(s2, curBucket < t.off + t.len + 1, <<t.kind, "bucket_position">>))

RECURSIVE CheckBuckets(_, _, _, _)
CheckBuckets(t, i, n, st) ==
  IF i >= n \/ st.bad THEN st ELSE CheckBuckets(t, i + 1, n, CheckBucket(t, i, n, st))

\* Check(offset, len), by a fresh checker of table t: num_buckets times the
\* record size against len, then every bucket.  The product is 32-bit in
\* the code; it cannot wrap for the small num_buckets of a written table,
\* so it is left unbounded here.
CheckTable(t, st) ==
  IF st.bad THEN st
  ELSE LET n == Read(file, tlen, t.off, 4) IN
       IF ~ReadOK(n) THEN Bad(st)
       ELSE CheckBuckets(t, 0, n,
              Diag([st EXCEPT !.found = FALSE, !.prev = 0],
                   n * kBucketRecordSize < t.len, <<t.kind, "num_buckets">>))

\* Mutant: the file's length is compared with the sizes without the header.
HeaderSizesOK_WithHeader(size, dts, its) == size = dts + its

\* st_size - kFileIndexHeaderSize against doctable_size + index_size.
HeaderSizesOK(size, dts, its) == size - kFileIndexHeaderSize = dts + its

\* FileIndexChecker's constructor: the magic number, the sizes against the
\* file's length, the checksum recomputed over every byte after the header,
\* then a DocTableChecker and an IndexTableChecker over the two regions.
FileIndexCheckerResult ==
  LET magic    == Read(file, tlen, kMagicNumberOffset, 4)
      checksum == Read(file, tlen, kMagicNumberOffset + 4, 4)
      dts      == Read(file, tlen, kMagicNumberOffset + 8, 4)
      its      == Read(file, tlen, kMagicNumberOffset + 12, 4)
      crc      == Checksum({f \in file : f.at >= kFileIndexHeaderSize})
      hdr == Diag(Diag(Diag(Walk0, magic = MAGIC_NUMBER, <<"header", "magic_number">>),
                       HeaderSizesOK(FileSize(tlen), dts, its), <<"header", "sizes">>),
                  crc = checksum, <<"header", "checksum">>)
      dt  == CheckTable([off |-> kFileIndexHeaderSize, len |-> dts, kind |-> "doc"], hdr)
  IN  CheckTable([off |-> kFileIndexHeaderSize + dts, len |-> its, kind |-> "index"], dt)

FileIndexChecker ==
  /\ file # {}
  /\ fsck = NoFsck
  /\ fsck' = FileIndexCheckerResult
  /\ UNCHANGED <<nbuckets, chains, postings, file, tlen, header, lookups, corrupt>>

Next ==
  \/ WriteFileIndex
  \/ FlipChecksumBit
  \/ HashTableReader
  \/ \E key \in DocIDs : LookupElementPositions(key)
  \/ FileIndexChecker

Spec == Init /\ [][Next]_vars

-----------------------------------------------------------------------------

TypeOK ==
  /\ nbuckets \in BucketCounts
  /\ header \in {NoHeader} \cup BucketCounts
  /\ \A k \in DOMAIN lookups : k \in DocIDs /\ lookups[k] \in Seq(Nat)
  /\ fsck = NoFsck \/ (fsck.visited \in Seq({"doc", "index", "docids"} \X Nat)
                       /\ fsck.bad \in BOOLEAN)
  /\ corrupt \in BOOLEAN

\* The docIDs stored at a list of element offsets.
DocIDsAt(offsets) == [j \in DOMAIN offsets |-> Read(file, tlen, offsets[j], 8)]

\* The offsets of the elements of tables of one kind the walk visited.
Visited(kind) ==
  LET v == SelectSeq(fsck.visited, LAMBDA e : e[1] = kind) IN [j \in DOMAIN v |-> v[j][2]]

\* The diagnostics printed about one table kind, or about the header.
DiagsOf(kinds) == {d \in fsck.diags : d[1] \in kinds}

\* Spec 4.5: LookupElementPositions seeks straight to the key's bucket and
\* returns its chain's element offsets in stored order; the elements there
\* are exactly the in-memory chain of bucket key % num_buckets that the
\* writer serialised, so a docID is found iff the table held it.
LookupFindsChain ==
  \A k \in DOMAIN lookups : DocIDsAt(lookups[k]) = chains[k % nbuckets]

\* hw3fsck walks a file the writer produced without a read past the end or
\* into another field: the index table's walk reaches the word's element,
\* IndexTableChecker::CheckElement finds the embedded docID table where the
\* writer put it, and DocIDTableChecker hands CheckElement every docID
\* element once, in bucket then chain order.
FsckWalksWholeTable ==
  fsck # NoFsck =>
    /\ ~fsck.bad
    /\ Visited("doc") = <<>>
    /\ Visited("index") = <<WordElemOffset>>
    /\ DocIDsAt(Visited("docids")) = FlattenSeq([b \in 1..nbuckets |-> chains[b - 1]])

\* Spec 8 ("no false positives on an otherwise-valid file") and the
\* checker's own comment at HashTableChecker.cc:70-72: an intact written
\* file gets no table diagnostic.  The check re-reads bucket_rec[0]
\* (HashTableChecker.cc:76-80) instead of the first non-empty bucket, so
\* this fails whenever bucket 0 is empty and another is not.  It is kept
\* for reproducing that disagreement and is not in a passing run.
FsckNoFalsePositives ==
  fsck # NoFsck /\ ~corrupt => DiagsOf({"doc", "index", "docids"}) = {}

\* Spec 8: a bit flipped in the stored checksum is reported by exactly one
\* header diagnostic, the checksum's, and an intact file by none: the
\* FileIndexChecker constructor's magic number, sizes and CRC checks
\* (FileIndexChecker.cc:50-100) agree with the writer's header.
FsckHeaderDiagnostics ==
  fsck # NoFsck =>
    DiagsOf({"header"}) = IF corrupt THEN {<<"header", "checksum">>} ELSE {}
=============================================================================
