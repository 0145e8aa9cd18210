------------------------------ MODULE MemIndex ------------------------------
(***************************************************************************)
(* The hw2 in-memory inverted index (src/hw2/memindex.c): a HashTable from *)
(* the FNV hash of a word to a WordDocSet, whose docIDs HashTable maps a   *)
(* docid to the list of positions of the word in that document.           *)
(*                                                                         *)
(* The hash tables are abstracted to functions (HashTable is checked on    *)
(* its own in HashTable.tla); a positions list is abstracted to its length, *)
(* the only thing MIProcessQuery reads of it.  The crawler's calls of      *)
(* MIAddPostingList are the environment: each (word, docid) once.          *)
(*                                                                         *)
(* MIProcessQuery is modelled step by step as the code runs it: the first  *)
(* word's docIDs in iteration order, then for each further word a loop of  *)
(* exactly ne iterations over the result list with a LinkedList iterator   *)
(* that deletes in place, then the trailing SortLinkedList.                *)
(***************************************************************************)
EXTENDS Integers, Sequences, SequencesExt, FiniteSets

CONSTANTS Words,         \* words (their FNV hashes are taken to be distinct)
          DocIDs,        \* document ids, positive
          MaxPositions,  \* bound on the occurrences of a word in a document
          MaxQueryLen,   \* bound on qlen
          FailPoints     \* {"alloc"}: malloc or an insert may fail

ASSUME /\ DocIDs \subseteq Nat \ {0}
       /\ MaxPositions \in Nat \ {0}
       /\ MaxQueryLen \in Nat
       /\ FailPoints \subseteq {"alloc"}

VARIABLES wordsets,  \* words that have a WordDocSet in the index
          postings,  \* postings[w][d]: number of positions, 0 if none
          added,     \* history: the postings MIAddPostingList accepted
          result,    \* the last MIProcessQuery call and what it returned
          halted     \* a Verify333 failed

vars == <<wordsets, postings, added, result, halted>>

\* What MIProcessQuery returns: NULL, or a list of SearchResult records.
NULL == [null |-> TRUE, list |-> <<>>]
Found(lst) == [null |-> FALSE, list |-> lst]
NoQuery == [query |-> <<>>, ret |-> NULL, asked |-> FALSE, accepted |-> {}, oom |-> FALSE]

Queries == UNION {[1..n -> Words] : n \in 0..MaxQueryLen}

Init ==
  /\ wordsets = {}
  /\ postings = [w \in Words |-> [d \in DocIDs |-> 0]]
  /\ added = {}
  /\ result = NoQuery
  /\ halted = FALSE

(***************************************************************************)
(* MIAddPostingList(index, word, docid, positions).                        *)
(***************************************************************************)

\* Mutant: the positions list is counted one too long.
AddPosting_CountsOneMore(w, d, n) ==
  /\ wordsets' = wordsets \cup {w}
  /\ postings' = [postings EXCEPT ![w][d] = n + 1]
  /\ added' = added \cup {<<w, d, n>>}
  /\ UNCHANGED halted

\* The posting goes into the word's set, created first if the word is new.
AddPosting(w, d, n) ==
  /\ wordsets' = wordsets \cup {w}
  /\ postings' = [postings EXCEPT ![w][d] = n]
  /\ added' = added \cup {<<w, d, n>>}
  /\ UNCHANGED halted

\* Mutant: the WordDocSet is put in the index before the failure returns 0.
WordSetAllocFails_LeavesEmptySet(w) ==
  /\ "alloc" \in FailPoints
  /\ w \notin wordsets
  /\ wordsets' = wordsets \cup {w}
  /\ UNCHANGED <<postings, added, halted>>

\* New word and malloc of the WordDocSet fails: return 0, nothing changes.
WordSetAllocFails(w) ==
  /\ "alloc" \in FailPoints
  /\ w \notin wordsets
  /\ UNCHANGED <<wordsets, postings, added, halted>>

\* AllocateHashTable(64), the index insert or the docid insert fails:
\* Verify333 aborts.
InsertAborts ==
  /\ "alloc" \in FailPoints
  /\ halted' = TRUE
  /\ UNCHANGED <<wordsets, postings, added>>

\* LookupHashTable returns -1 when its chain iterator cannot be allocated,
\* which needs a non-empty bucket: the code takes the word as present and
\* dereferences kv.value, never written, as the WordDocSet.  The stack slot
\* holds the last call's {docid, positions}, not a WordDocSet, so the read
\* of wds->docIDs and the lookup in it fault: the process ends.
LookupFailsTakenAsPresent ==
  /\ "alloc" \in FailPoints
  /\ wordsets # {}
  /\ halted' = TRUE
  /\ UNCHANGED <<wordsets, postings, added>>

MIAddPostingList(w, d, n) ==
  /\ ~halted
  /\ postings[w][d] = 0
  /\ \/ AddPosting(w, d, n)
     \/ WordSetAllocFails(w)
     \/ InsertAborts
     \/ LookupFailsTakenAsPresent
  /\ UNCHANGED result

(***************************************************************************)
(* MIProcessQuery(index, query, qlen).                                     *)
(***************************************************************************)

\* The SearchResults for query[0], in the order HTIteratorNext visits the
\* docIDs table: docids below its 64 buckets sit one per bucket, so the
\* order is ascending.  The initial rank is the length of the positions list.
FirstWordList(w) ==
  LET ds == SetToSortSeq({d \in DocIDs : postings[w][d] > 0}, <)
  IN  [i \in 1..Len(ds) |-> [docid |-> ds[i], rank |-> postings[w][ds[i]]]]

\* for (j = 0; j < ne; j++) with llit at position cur of lst: a docid not
\* in w's postings is removed by LLIteratorDelete, which leaves the
\* iterator on the successor, or on the predecessor when the tail went;
\* a docid that is in them gains w's count and LLIteratorNext moves on
\* (staying on the tail).
\* Mutant: LLIteratorNext is also called after LLIteratorDelete.
RECURSIVE IntersectLoop_NextAfterDelete(_, _, _, _)
IntersectLoop_NextAfterDelete(lst, cur, left, w) ==
  IF left = 0 \/ cur = 0 THEN lst
  ELSE LET num == postings[w][lst[cur].docid] IN
       IF num = 0
       THEN IntersectLoop_NextAfterDelete(RemoveAt(lst, cur),
                          IF cur >= Len(lst) - 1 THEN cur - 1 ELSE cur + 1, left - 1, w)
       ELSE IntersectLoop_NextAfterDelete([lst EXCEPT ![cur].rank = @ + num],
                          IF cur < Len(lst) THEN cur + 1 ELSE cur, left - 1, w)

RECURSIVE IntersectLoop(_, _, _, _)
IntersectLoop(lst, cur, left, w) ==
  IF left = 0 \/ cur = 0 THEN lst
  ELSE LET num == postings[w][lst[cur].docid] IN
       IF num = 0
       THEN IntersectLoop(RemoveAt(lst, cur),
                          IF cur = Len(lst) THEN cur - 1 ELSE cur, left - 1, w)
       ELSE IntersectLoop([lst EXCEPT ![cur].rank = @ + num],
                          IF cur < Len(lst) THEN cur + 1 ELSE cur, left - 1, w)

\* SortLinkedList(retlist, 0, &MISearchListComparator): the list ordered by
\* rank, descending for ascending = 0; ties in any order.
SortLinkedList(lst, ascending) ==
  {Found(p) : p \in {p \in SetToSeqs(ToSet(lst)) :
                        IsSorted(p, LAMBDA a, b : IF ascending = 1 THEN a.rank <= b.rank
                                                                  ELSE a.rank >= b.rank)}}

\* for (i = 1; i < qlen; i++): a word that is not in the index, or an
\* intersection that leaves nothing, makes the result NULL.
RECURSIVE WordsLoop(_, _, _)
WordsLoop(lst, i, q) ==
  IF i > Len(q) THEN SortLinkedList(lst, 0)
  ELSE IF q[i] \notin wordsets THEN {NULL}
  ELSE LET next == IntersectLoop(lst, 1, Len(lst), q[i])
       IN  IF next = <<>> THEN {NULL} ELSE WordsLoop(next, i + 1, q)

\* Every list MIProcessQuery can return for query q.
MIProcessQueryResults(q) ==
  IF Len(q) = 0 \/ q[1] \notin wordsets THEN {NULL}
  ELSE IF Len(q) = 1 THEN SortLinkedList(FirstWordList(q[1]), 0)
  ELSE WordsLoop(FirstWordList(q[1]), 2, q)

\* Verify333(NumElementsInHashTable(wds->docIDs) > 0) for query[0].
EmptyWordSet(q) == Len(q) > 0 /\ q[1] \in wordsets /\ FirstWordList(q[1]) = <<>>

\* An allocation fails inside MIProcessQuery.  AllocateLinkedList, a
\* lookup's iterator (-1) and the iterators over the docIDs table and the
\* result list are each followed by a Verify333, which aborts.  A failed
\* malloc of a SearchResult while the first word's list is built frees the
\* list and returns NULL, the value that also means no document matches.
QueryAllocFails(q) ==
  /\ "alloc" \in FailPoints
  /\ Len(q) > 0
  /\ \/ halted' = TRUE /\ UNCHANGED result
     \/ /\ q[1] \in wordsets
        /\ ~EmptyWordSet(q)
        /\ result' = [query |-> q, ret |-> NULL, asked |-> TRUE, accepted |-> added, oom |-> TRUE]
        /\ UNCHANGED halted

MIProcessQuery(q) ==
  /\ ~halted
  /\ \/ EmptyWordSet(q) /\ halted' = TRUE /\ UNCHANGED result
     \/ /\ ~EmptyWordSet(q)
        /\ \E r \in MIProcessQueryResults(q) :
             result' = [query |-> q, ret |-> r, asked |-> TRUE, accepted |-> added, oom |-> FALSE]
        /\ UNCHANGED halted
     \/ QueryAllocFails(q)
  /\ UNCHANGED <<wordsets, postings, added>>

Next ==
  \/ \E w \in Words, d \in DocIDs, n \in 1..MaxPositions : MIAddPostingList(w, d, n)
  \/ \E q \in Queries : MIProcessQuery(q)

Spec == Init /\ [][Next]_vars

-----------------------------------------------------------------------------

TypeOK ==
  /\ wordsets \subseteq Words
  /\ postings \in [Words -> [DocIDs -> 0..MaxPositions]]
  /\ result.ret.null \in BOOLEAN
  /\ result.oom \in BOOLEAN
  /\ halted \in BOOLEAN

\* Spec 4.3, for the postings MIAddPostingList had accepted when it ran: a query returns
\* NULL when it is empty or no document has every word; otherwise it
\* returns each document that has every word exactly once, with rank the
\* sum over the query's words of the word's occurrences in the document.
\* A call whose SearchResult malloc failed returned NULL whatever matched
\* (QueryAllocFails), and is left out.
Expected(q, acc) ==
  {<<d, FoldSeq(LAMBDA w, sum : sum + (CHOOSE n \in 1..MaxPositions : <<w, d, n>> \in acc),
                0, q)>> :
     d \in {d \in DocIDs : Len(q) > 0 /\ \A i \in 1..Len(q) :
                              \E n \in 1..MaxPositions : <<q[i], d, n>> \in acc}}

QueryMatchesReference ==
  result.asked /\ ~result.oom =>
     LET exp == Expected(result.query, result.accepted) IN
     /\ result.ret.null <=> exp = {}
     /\ Len(result.ret.list) = Cardinality(exp)
     /\ {<<e.docid, e.rank>> : e \in ToSet(result.ret.list)} = exp

\* Every WordDocSet in the index holds at least one posting, even after an
\* allocation failure in MIAddPostingList: MIProcessQuery's Verify333 at
\* its first word relies on it.
WordSetsNonEmpty ==
  \A w \in wordsets : \E d \in DocIDs : postings[w][d] > 0
=============================================================================
