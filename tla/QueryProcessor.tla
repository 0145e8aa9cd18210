--------------------------- MODULE QueryProcessor ---------------------------
(***************************************************************************)
(* hw3::QueryProcessor::ProcessQuery (src/hw3/QueryProcessor.cc): a query  *)
(* is run against every index file in turn.  In each file the first word's *)
(* docid list (docid, num_positions) is intersected with each later word's *)
(* list by CombineDocIDList, a word missing from the file clears that      *)
(* file's list, and AddQueryResult turns the survivors into QueryResults   *)
(* (document name, rank) appended to one vector for all files.            *)
(*                                                                         *)
(* An index file is immutable once written, so the files are chosen in    *)
(* Init and only queries happen.  A file's word index is a function from   *)
(* word to docid to number of positions (0: absent); its doctable resolves *)
(* every docid the index holds (a well-formed file), so a result is named  *)
(* by <<file, docid>>.  GetDocIDList returns the docid table's elements in *)
(* bucket order, ascending for docids below its bucket count.  The         *)
(* trailing std::sort orders by QueryResult::operator<, which is declared   *)
(* in a header outside the repository's sources; results are compared as  *)
(* a bag, so the sort's order is not modelled.                             *)
(***************************************************************************)
EXTENDS Integers, Sequences, SequencesExt, FiniteSets, Bags

CONSTANTS NumFiles,      \* arraylen_: the index files, in indexlist order
          Words, DocIDs, MaxPositions, MaxQueryLen

ASSUME /\ NumFiles \in Nat \ {0}
       /\ DocIDs \subseteq Nat \ {0}
       /\ MaxPositions \in Nat \ {0}
       /\ MaxQueryLen \in Nat \ {0}

VARIABLES files,   \* files[i][w][d]: positions of w in d in the i-th file
          result   \* the last ProcessQuery call and the vector it returned

vars == <<files, result>>

FileIndex == [Words -> [DocIDs -> 0..MaxPositions]]

\* Queries: Verify333(query.size() > 0) is the caller's precondition.
Queries == UNION {[1..n -> Words] : n \in 1..MaxQueryLen}

NoQuery == [query |-> <<>>, ret |-> <<>>, asked |-> FALSE]

\* IndexTableReader::LookupWord then GetDocIDList; <<>> when the word is
\* not in the file (LookupWord returned nullptr).
DocIDList(fi, w) ==
  LET ds == SetToSortSeq({d \in DocIDs : fi[w][d] > 0}, <)
  IN  [k \in 1..Len(ds) |-> [docid |-> ds[k], num_positions |-> fi[w][ds[k]]]]

InFile(fi, w) == \E d \in DocIDs : fi[w][d] > 0

\* For each element of partial_list, each element of ret_list with the
\* same docid yields one element with the two counts added.
CombineDocIDList(ret_list, partial_list) ==
  FlattenSeq([p \in 1..Len(partial_list) |->
    LET pe == partial_list[p]
        hits == SelectSeq(ret_list, LAMBDA re : re.docid = pe.docid)
    IN  [k \in 1..Len(hits) |->
           [docid |-> pe.docid,
            num_positions |-> hits[k].num_positions + pe.num_positions]]])

\* Mutant: a word missing from the file is skipped instead of clearing.
RECURSIVE WordsLoop_SkipMissingWord(_, _, _, _)
WordsLoop_SkipMissingWord(fi, lst, k, q) ==
  IF k > Len(q) THEN lst
  ELSE IF ~InFile(fi, q[k]) THEN WordsLoop_SkipMissingWord(fi, lst, k + 1, q)
  ELSE WordsLoop_SkipMissingWord(fi, CombineDocIDList(lst, DocIDList(fi, q[k])), k + 1, q)

\* The loop over query.begin() + 1 .. query.end() in one file: a missing
\* word clears the list and breaks out.
RECURSIVE WordsLoop(_, _, _, _)
WordsLoop(fi, lst, k, q) ==
  IF k > Len(q) THEN lst
  ELSE IF ~InFile(fi, q[k]) THEN <<>>
  ELSE WordsLoop(fi, CombineDocIDList(lst, DocIDList(fi, q[k])), k + 1, q)

\* AddQueryResult: one QueryResult per surviving docid.
AddQueryResult(i, lst) ==
  [k \in 1..Len(lst) |-> [name |-> <<i, lst[k].docid>>, rank |-> lst[k].num_positions]]

\* What one index file contributes to finalresult.
FileResults(i, q) ==
  LET fi == files[i] IN
  IF ~InFile(fi, q[1]) THEN <<>>
  ELSE IF Len(q) = 1 THEN AddQueryResult(i, DocIDList(fi, q[1]))
  ELSE AddQueryResult(i, WordsLoop(fi, DocIDList(fi, q[1]), 2, q))

ProcessQuery(q) ==
  /\ result' = [query |-> q,
                ret |-> FlattenSeq([i \in 1..NumFiles |-> FileResults(i, q)]),
                asked |-> TRUE]
  /\ UNCHANGED files

Init ==
  /\ files \in [1..NumFiles -> FileIndex]
  /\ result = NoQuery

Next == \E q \in Queries : ProcessQuery(q)

Spec == Init /\ [][Next]_vars

-----------------------------------------------------------------------------

\* Spec 4.6: each file is queried on its own; a document of file i is a
\* result iff it has every query word in file i, and then exactly once,
\* with rank the sum over the query's words of their occurrences in it;
\* the results of all files are accumulated.
ExpectedResults(q) ==
  {[name |-> id,
    rank |-> FoldSeq(LAMBDA w, sum : sum + files[id[1]][w][id[2]], 0, q)] :
      id \in {id \in (1..NumFiles) \X DocIDs :
                 \A k \in 1..Len(q) : files[id[1]][q[k]][id[2]] > 0}}

QueryMatchesReference ==
  result.asked =>
     ToBag(result.ret) = SetToBag(ExpectedResults(result.query))
=============================================================================
