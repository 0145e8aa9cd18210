----------------------------- MODULE HashTable -----------------------------
(***************************************************************************)
(* The separate-chaining hash table of src/hw1/HashTable.c.                *)
(*                                                                         *)
(* The table is the record `ht': num_buckets, num_elements and buckets, a  *)
(* function from bucket number 0..num_buckets-1 to its chain, a sequence   *)
(* of [key, value] pairs in linked-list order (PushLinkedList adds at the  *)
(* head).  Keys are the HTKey_t hash values themselves, values are model   *)
(* values.  The external iterator (HTIter) is `it': NoIter when the        *)
(* caller holds none, Done once is_valid is false, otherwise the bucket    *)
(* number and the key of the node its bucket_it points to.  A node is     *)
(* named by its key, so removing another node of the same chain does not  *)
(* move the cursor, as with the pointer-based linked list.                 *)
(*                                                                         *)
(* Allocation failure is a nondeterministic outcome at the malloc sites    *)
(* named in FailPoints:                                                    *)
(*   "alloc"    new_pair, PushLinkedList and LLMakeIterator in             *)
(*              Insert/Remove (the call reports 0 or -1);                  *)
(*   "resize"   AllocateHashTable, HashTableMakeIterator or an insert      *)
(*              into the new table inside ResizeHashtable (it gives up);   *)
(*   "replace"  the unchecked PushLinkedList on the replace path of        *)
(*              InsertHashTable;                                           *)
(*   "iternext" LLMakeIterator inside HTIteratorNext when moving to the    *)
(*              next non-empty bucket.                                     *)
(* A failed Verify333 aborts the process: `halted'.                        *)
(***************************************************************************)
EXTENDS Integers, Sequences, SequencesExt, FiniteSets

CONSTANTS
  Keys,         \* the hash keys the callers use (a small set of naturals)
  Values,       \* payloads (model values)
  NoValue,      \* "no value", and the key of no node
  InitBuckets,  \* argument of AllocateHashTable
  FailPoints    \* which allocations may fail in this model

LoadFactor == 3     \* ResizeHashtable: resize when num_elements >= 3 * num_buckets
GrowthFactor == 9   \* ResizeHashtable: AllocateHashTable(num_buckets * 9)

ASSUME /\ Keys \subseteq Nat
       /\ NoValue \notin Values \cup Keys
       /\ InitBuckets \in Nat \ {0}
       /\ FailPoints \subseteq {"alloc", "resize", "replace", "iternext"}

VARIABLES
  ht,      \* the HashTableRecord
  it,      \* the caller's HTIter
  last,    \* the most recent mutating call and its result
  visit,   \* history: keys present at HashTableMakeIterator, keys the cursor landed on
  halted   \* a Verify333 failed

vars == <<ht, it, last, visit, halted>>

\* The iterator states that point at no node (records, like a cursor).
NoIter == [bucket |-> -2, key |-> NoValue]
Done == [bucket |-> -1, key |-> NoValue]

Call(op, k, v, r, o) == [op |-> op, key |-> k, val |-> v, ret |-> r, old |-> o]

KV(k, v) == [key |-> k, value |-> v]

-----------------------------------------------------------------------------
(* Helpers over a table record t.                                          *)

\* AllocateHashTable(n): n empty chains.
AllocateHashTable(n) ==
  [num_buckets |-> n, num_elements |-> 0, buckets |-> [b \in 0 .. n - 1 |-> <<>>]]

HashKeyToBucketNum(t, k) == k % t.num_buckets

Chain(t, k) == t.buckets[HashKeyToBucketNum(t, k)]

KeysOf(t) == UNION {{kv.key : kv \in ToSet(t.buckets[b])} : b \in DOMAIN t.buckets}

\* The position of key k in a chain (ChainContainsKey), 0 when absent.
PosInChain(chain, k) ==
  IF \E i \in DOMAIN chain : chain[i].key = k
  THEN CHOOSE i \in DOMAIN chain : chain[i].key = k ELSE 0

\* PushLinkedList of a new pair into k's chain, counting it.
PushNew(t, kv) ==
  [t EXCEPT !.buckets[HashKeyToBucketNum(t, kv.key)] = <<kv>> \o @,
            !.num_elements = @ + 1]

\* The order an HTIter visits the pairs: bucket order, then chain order.
IterOrder(t) == FlattenSeq([i \in 1 .. t.num_buckets |-> t.buckets[i - 1]])

NonEmptyBuckets(t) == {b \in DOMAIN t.buckets : t.buckets[b] /= <<>>}

\* The new table ResizeHashtable builds by inserting `pairs' in order.
Rebuild(pairs, n) == FoldLeft(PushNew, AllocateHashTable(n), pairs)

\* The pairs of the first j non-empty buckets, in iteration order.
FirstBuckets(t, j) ==
  LET bs == {b \in NonEmptyBuckets(t) :
               Cardinality({c \in NonEmptyBuckets(t) : c <= b}) <= j}
  IN FlattenSeq([i \in 1 .. t.num_buckets |->
                   IF i - 1 \in bs THEN t.buckets[i - 1] ELSE <<>>])

(***************************************************************************)
(* ResizeHashtable(t): the tables t can be after the call.  On a failed    *)
(* allocation of the new table, of its iterator or of an insert into it,   *)
(* it gives up and t is unchanged.  If the iterator's move to the next     *)
(* non-empty bucket fails, HTIteratorNext clears is_valid, the copy loop   *)
(* ends as if past the end, and the partial copy is swapped in.            *)
(***************************************************************************)
\* Mutant: the resize fires only above 3 pairs per bucket.
ResizeHashtable_LateTrigger(t) ==
  IF t.num_elements <= LoadFactor * t.num_buckets
  THEN {t}
  ELSE {Rebuild(IterOrder(t), t.num_buckets * GrowthFactor)}

\* Mutant: the bucket array grows but the chains are not rehashed.
ResizeHashtable_NoRehash(t) ==
  IF t.num_elements < LoadFactor * t.num_buckets
  THEN {t}
  ELSE {[t EXCEPT !.num_buckets = @ * GrowthFactor,
                  !.buckets = [b \in 0 .. t.num_buckets * GrowthFactor - 1 |->
                                 IF b < t.num_buckets THEN t.buckets[b] ELSE <<>>]]}

\* Mutant: a failed insert into the new table does not stop the swap.
ResizeHashtable_SwapOnFailure(t) ==
  IF t.num_elements < LoadFactor * t.num_buckets
  THEN {t}
  ELSE {Rebuild(SubSeq(IterOrder(t), 1, j), t.num_buckets * GrowthFactor) :
          j \in (IF "resize" \in FailPoints THEN 0 ELSE Len(IterOrder(t)))
                 .. Len(IterOrder(t))}

ResizeHashtable(t) ==
  IF t.num_elements < LoadFactor * t.num_buckets
  THEN {t}
  ELSE {Rebuild(IterOrder(t), t.num_buckets * GrowthFactor)}
       \cup (IF "resize" \in FailPoints THEN {t} ELSE {})
       \cup (IF "iternext" \in FailPoints
             THEN {Rebuild(FirstBuckets(t, j), t.num_buckets * GrowthFactor) :
                     j \in 1 .. Cardinality(NonEmptyBuckets(t)) - 1}
             ELSE {})

(***************************************************************************)
(* HTIteratorNext from cursor c over table t: the cursors it may leave.    *)
(* LLIteratorNext within the chain; at the chain's end, Done if this is    *)
(* the last bucket, else FindNextNonEmptyBucket and a new LLIter at its    *)
(* head (Done if none is found or the LLIter cannot be allocated).         *)
(***************************************************************************)
\* Mutant: FindNextNonEmptyBucket stops before the last bucket.
HTIteratorNext_SkipLast(t, c) ==
  LET chain == t.buckets[c.bucket]
      i == PosInChain(chain, c.key)
      ahead == {b \in NonEmptyBuckets(t) : b > c.bucket /\ b < t.num_buckets - 1}
  IN IF i < Len(chain) THEN {[c EXCEPT !.key = chain[i + 1].key]}
     ELSE IF ahead = {} THEN {Done}
     ELSE {[bucket |-> CHOOSE x \in ahead : \A y \in ahead : x <= y,
            key |-> t.buckets[CHOOSE x \in ahead : \A y \in ahead : x <= y][1].key]}

HTIteratorNext(t, c) ==
  LET chain == t.buckets[c.bucket]
      i == PosInChain(chain, c.key)
      ahead == {b \in NonEmptyBuckets(t) : b > c.bucket}
  IN IF i < Len(chain) THEN {[c EXCEPT !.key = chain[i + 1].key]}
     ELSE IF c.bucket = t.num_buckets - 1 \/ ahead = {} THEN {Done}
     ELSE LET b == CHOOSE x \in ahead : \A y \in ahead : x <= y
          IN {[bucket |-> b, key |-> t.buckets[b][1].key]}
             \cup (IF "iternext" \in FailPoints THEN {Done} ELSE {})

\* The cursor a fresh iterator gets (HashTableMakeIterator).
FirstCursor(t) ==
  IF t.num_elements = 0 THEN Done
  ELSE LET b == CHOOSE x \in NonEmptyBuckets(t) :
                  \A y \in NonEmptyBuckets(t) : x <= y
       IN [bucket |-> b, key |-> t.buckets[b][1].key]

Landed(c) == IF c = Done THEN <<>> ELSE <<c.key>>

-----------------------------------------------------------------------------
(* Operations.  The caller follows the iterator protocol of spec 4.1: it   *)
(* does not insert or remove while it holds an iterator.                   *)

Init ==
  /\ ht = AllocateHashTable(InitBuckets)
  /\ it = NoIter
  /\ last = Call("none", NoValue, NoValue, 0, NoValue)
  /\ visit = [start |-> {}, seen |-> <<>>]
  /\ halted = FALSE

(***************************************************************************)
(* InsertHashTable after the resize, on table t: the possible             *)
(* [table, ret, old] results.  Any allocation (new_pair, the push, the     *)
(* chain's LLIter) may fail with 0.  An absent key's pair is pushed and    *)
(* counted.  A present key's node is deleted and the new pair pushed at    *)
(* the head, unchecked: if that push fails the key is gone, yet 2 is       *)
(* returned.                                                               *)
(***************************************************************************)
Outcome(t, r, o) == [table |-> t, ret |-> r, old |-> o]

\* Mutant: the replace path also counts the pair.
InsertOutcomes_CountReplace(t, k, v) ==
  LET b == HashKeyToBucketNum(t, k)
      i == PosInChain(t.buckets[b], k)
  IN IF i = 0 THEN {Outcome(PushNew(t, KV(k, v)), 1, NoValue)}
     ELSE {Outcome([t EXCEPT !.buckets[b] = <<KV(k, v)>> \o RemoveAt(@, i),
                             !.num_elements = @ + 1], 2, t.buckets[b][i].value)}

\* Mutant: the pair handed back on replace is the new one.
InsertOutcomes_ReportsNew(t, k, v) ==
  LET b == HashKeyToBucketNum(t, k)
      i == PosInChain(t.buckets[b], k)
  IN IF i = 0 THEN {Outcome(PushNew(t, KV(k, v)), 1, NoValue)}
     ELSE {Outcome([t EXCEPT !.buckets[b] = <<KV(k, v)>> \o RemoveAt(@, i)], 2, v)}

\* Mutant: num_elements is incremented before the push that may fail.
InsertOutcomes_CountBeforePush(t, k, v) ==
  LET b == HashKeyToBucketNum(t, k)
      i == PosInChain(t.buckets[b], k)
  IN (IF "alloc" \in FailPoints
      THEN {Outcome([t EXCEPT !.num_elements = @ + 1], 0, NoValue)} ELSE {})
     \cup (IF i = 0 THEN {Outcome(PushNew(t, KV(k, v)), 1, NoValue)}
           ELSE {Outcome([t EXCEPT !.buckets[b] = <<KV(k, v)>> \o RemoveAt(@, i)],
                         2, t.buckets[b][i].value)})

InsertOutcomes(t, k, v) ==
  LET b == HashKeyToBucketNum(t, k)
      i == PosInChain(t.buckets[b], k)
      rest == RemoveAt(t.buckets[b], i)
      old == t.buckets[b][i].value
  IN (IF "alloc" \in FailPoints THEN {Outcome(t, 0, NoValue)} ELSE {})
     \cup (IF i = 0 THEN {Outcome(PushNew(t, KV(k, v)), 1, NoValue)}
           ELSE {Outcome([t EXCEPT !.buckets[b] = <<KV(k, v)>> \o rest], 2, old)}
                \cup (IF "replace" \in FailPoints
                      THEN {Outcome([t EXCEPT !.buckets[b] = rest], 2, old)}
                      ELSE {}))

\* InsertHashTable: ResizeHashtable first, then the insert proper.
InsertHashTable(k, v) ==
  /\ ~halted /\ it = NoIter
  /\ \E t \in ResizeHashtable(ht) : \E o \in InsertOutcomes(t, k, v) :
       /\ ht' = o.table
       /\ last' = Call("insert", k, v, o.ret, o.old)
  /\ UNCHANGED <<it, visit, halted>>

\* The value LookupHashTable(t, k) finds, NoValue when it returns 0.
LookupHashTable(t, k) ==
  LET i == PosInChain(Chain(t, k), k)
  IN IF i = 0 THEN NoValue ELSE Chain(t, k)[i].value

\* RemoveFromHashTable(t, k) when k is present: its node deleted.
Unlink(t, k) ==
  [t EXCEPT !.buckets[HashKeyToBucketNum(t, k)] =
              RemoveAt(@, PosInChain(@, k)),
            !.num_elements = @ - 1]

RemoveFromHashTable(k) ==
  /\ ~halted /\ it = NoIter
  /\ LET i == PosInChain(Chain(ht, k), k) IN
     \/ /\ i = 0
        /\ last' = Call("remove", k, NoValue, 0, NoValue)
        /\ UNCHANGED ht
     \/ /\ Chain(ht, k) /= <<>>
        /\ "alloc" \in FailPoints
        /\ last' = Call("remove", k, NoValue, -1, NoValue)
        /\ UNCHANGED ht
     \/ /\ i > 0
        /\ ht' = Unlink(ht, k)
        /\ last' = Call("remove", k, NoValue, 1, Chain(ht, k)[i].value)
  /\ UNCHANGED <<it, visit, halted>>

HashTableMakeIterator ==
  /\ ~halted /\ it = NoIter
  /\ it' = FirstCursor(ht)
  /\ visit' = [start |-> KeysOf(ht), seen |-> Landed(FirstCursor(ht))]
  /\ UNCHANGED <<ht, last, halted>>

IteratorNext ==
  /\ ~halted /\ it \notin {NoIter, Done}
  /\ \E c \in HTIteratorNext(ht, it) :
       /\ it' = c
       /\ visit' = [visit EXCEPT !.seen = @ \o Landed(c)]
  /\ UNCHANGED <<ht, last, halted>>

\* HTIteratorPastEnd: 1 when the iterator is no longer valid or the table
\* it walks is empty.
HTIteratorPastEnd(t, c) == c = Done \/ t.num_elements = 0

\* HTIteratorGet: 0 past the end; otherwise 1 and a copy of the pair under
\* the cursor.  The table is left alone.
HTIteratorGet ==
  /\ ~halted /\ it /= NoIter
  /\ last' = IF HTIteratorPastEnd(ht, it)
             THEN Call("iterget", NoValue, NoValue, 0, NoValue)
             ELSE Call("iterget", it.key, NoValue, 1, LookupHashTable(ht, it.key))
  /\ UNCHANGED <<ht, it, visit, halted>>

\* Mutant: the iterator's delete counts the pair down a second time.
HTIteratorDelete_DoubleCount ==
  /\ ~halted /\ it \notin {NoIter, Done}
  /\ \E c \in HTIteratorNext(ht, it) :
       /\ it' = c
       /\ visit' = [visit EXCEPT !.seen = @ \o Landed(c)]
       /\ ht' = [Unlink(ht, it.key) EXCEPT !.num_elements = @ - 1]
       /\ last' = Call("iterdelete", it.key, NoValue, IF c = Done THEN 2 ELSE 1,
                       LookupHashTable(ht, it.key))
       /\ UNCHANGED halted

(***************************************************************************)
(* HTIteratorDelete: read the pair, advance the iterator, then remove the  *)
(* pair with RemoveFromHashTable, whose result must be 1 (Verify333).      *)
(***************************************************************************)
HTIteratorDelete ==
  /\ ~halted /\ it \notin {NoIter, Done}
  /\ \E c \in HTIteratorNext(ht, it) :
       LET k == it.key
           ret == IF c = Done THEN 2 ELSE 1
       IN /\ it' = c
          /\ visit' = [visit EXCEPT !.seen = @ \o Landed(c)]
          /\ \/ /\ ht' = Unlink(ht, k)
                /\ last' = Call("iterdelete", k, NoValue, ret,
                                LookupHashTable(ht, k))
                /\ UNCHANGED halted
             \/ /\ "alloc" \in FailPoints
                /\ halted' = TRUE
                /\ UNCHANGED <<ht, last>>

HTIteratorFree ==
  /\ ~halted /\ it /= NoIter
  /\ it' = NoIter
  /\ visit' = [start |-> {}, seen |-> <<>>]
  /\ UNCHANGED <<ht, last, halted>>

\* After an abort nothing happens any more.
Aborted == halted /\ UNCHANGED vars

Next ==
  \/ \E k \in Keys, v \in Values : InsertHashTable(k, v)
  \/ \E k \in Keys : RemoveFromHashTable(k)
  \/ HashTableMakeIterator
  \/ IteratorNext
  \/ HTIteratorGet
  \/ HTIteratorDelete
  \/ HTIteratorFree
  \/ Aborted

Spec == Init /\ [][Next]_vars

-----------------------------------------------------------------------------
(* Properties.                                                             *)

TypeOK ==
  /\ ht.num_buckets \in Nat \ {0}
  /\ ht.num_elements \in Nat
  /\ DOMAIN ht.buckets = 0 .. ht.num_buckets - 1
  /\ \A b \in DOMAIN ht.buckets :
       ht.buckets[b] \in Seq([key : Keys, value : Values])
  /\ it \in {NoIter, Done} \cup [bucket : DOMAIN ht.buckets, key : Keys]
  /\ halted \in BOOLEAN

(***************************************************************************)
(* Every pair sits in the chain of its own bucket (key % num_buckets) and  *)
(* no key appears twice in the table.  This is what lets Lookup and       *)
(* Insert search one chain only; it must survive resizes (re-bucketing     *)
(* with the new num_buckets) and the delete-and-push of a replace.         *)
(***************************************************************************)
ChainsWellFormed ==
  /\ \A b \in DOMAIN ht.buckets : \A kv \in ToSet(ht.buckets[b]) :
       HashKeyToBucketNum(ht, kv.key) = b
  /\ Len(IterOrder(ht)) = Cardinality(KeysOf(ht))

(***************************************************************************)
(* num_elements is exactly the number of pairs in the chains (spec 8):     *)
(* Insert counts only the paths that add a node, Remove and the iterator's *)
(* delete count down once, and a resize's swap carries the new table's     *)
(* count.                                                                  *)
(***************************************************************************)
NumElementsExact == ht.num_elements = Len(IterOrder(ht))

(***************************************************************************)
(* Load-factor bound: because ResizeHashtable runs before every insert and *)
(* fires at num_elements >= 3 * num_buckets, the table never holds more    *)
(* than 3 pairs per bucket (spec 9 expects up to 3*num_buckets + 1).       *)
(* Holds only when resizing cannot give up.                                *)
(***************************************************************************)
LoadBound == ht.num_elements <= LoadFactor * ht.num_buckets

(***************************************************************************)
(* Delete-during-iteration (spec 4.1, 8): while an iterator is held, the   *)
(* cursor lands on each pair present at HashTableMakeIterator at most      *)
(* once and on nothing else; every pair not yet visited is still in the   *)
(* table; and when the iterator is past the end it has visited them all,   *)
(* however HTIteratorNext and HTIteratorDelete were interleaved.           *)
(***************************************************************************)
IterationVisitsEachOnce ==
  it /= NoIter =>
    /\ IsInjective(visit.seen)
    /\ ToSet(visit.seen) \subseteq visit.start
    /\ visit.start \ ToSet(visit.seen) \subseteq KeysOf(ht)
    /\ it /= Done => it.key \in KeysOf(ht)
    /\ it = Done => ToSet(visit.seen) = visit.start

\* The table as the abstract map of HashMap.
AbsMap == [k \in Keys |-> LookupHashTable(ht, k)]

HM == INSTANCE HashMap WITH map <- AbsMap, last <- last

(***************************************************************************)
(* The table implements the map contract of HashMap: every Insert, Remove  *)
(* and iterator delete changes the set of pairs exactly as its return      *)
(* value says, and hands back the value that was stored.                   *)
(***************************************************************************)
ImplementsHashMap == HM!Spec
=============================================================================
