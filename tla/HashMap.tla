------------------------------ MODULE HashMap ------------------------------
(***************************************************************************)
(* What the in-memory HashTable of hw1 promises its callers (spec 4.1):    *)
(* it is a finite map from 64-bit keys to values, and every call reports   *)
(* what it did.  InsertHashTable returns 1 (inserted), 2 (replaced, old    *)
(* value handed back) or 0 (out of memory, nothing changed);               *)
(* RemoveFromHashTable returns 1 (removed, old value handed back),         *)
(* 0 (absent) or -1 (out of memory, nothing changed); HTIteratorDelete     *)
(* removes the pair under the cursor and returns 1 or 2; HTIteratorGet    *)
(* returns 0 or a present pair.                                            *)
(*                                                                         *)
(* `last' records the most recent mutating call and its result, so that a  *)
(* table that reports success while losing or inventing entries does not  *)
(* implement this specification.                                           *)
(***************************************************************************)
EXTENDS Integers

CONSTANTS Keys, Values, NoValue

ASSUME NoValue \notin Values

VARIABLES map, last

Call(op, k, v, r, o) == [op |-> op, key |-> k, val |-> v, ret |-> r, old |-> o]

NoCall == Call("none", NoValue, NoValue, 0, NoValue)

Init ==
  /\ map = [k \in Keys |-> NoValue]
  /\ last = NoCall

\* Insert of an absent key (1) or of a present one (2, old value returned).
Put(k, v) ==
  /\ map' = [map EXCEPT ![k] = v]
  /\ last' = Call("insert", k, v, IF map[k] = NoValue THEN 1 ELSE 2, map[k])

\* Insert that ran out of memory: the map is unchanged.
PutFailed(k, v) ==
  /\ last' = Call("insert", k, v, 0, NoValue)
  /\ UNCHANGED map

Remove(k) ==
  /\ map[k] /= NoValue
  /\ map' = [map EXCEPT ![k] = NoValue]
  /\ last' = Call("remove", k, NoValue, 1, map[k])

RemoveAbsentOrFailed(k) ==
  /\ \E r \in {0, -1} : /\ r = 0 => map[k] = NoValue
                        /\ last' = Call("remove", k, NoValue, r, NoValue)
  /\ UNCHANGED map

\* Delete at an iterator cursor: some present key goes, its value returned.
IterDelete(k) ==
  /\ map[k] /= NoValue
  /\ map' = [map EXCEPT ![k] = NoValue]
  /\ \E r \in {1, 2} : last' = Call("iterdelete", k, NoValue, r, map[k])

\* A read at an iterator: 0 (past the end), or 1 with a present key and its
\* current value.  The map is unchanged.
IterGet(k) ==
  /\ \/ last' = Call("iterget", NoValue, NoValue, 0, NoValue)
     \/ /\ map[k] /= NoValue
        /\ last' = Call("iterget", k, NoValue, 1, map[k])
  /\ UNCHANGED map

Next ==
  \E k \in Keys :
     \/ \E v \in Values : Put(k, v) \/ PutFailed(k, v)
     \/ Remove(k)
     \/ RemoveAbsentOrFailed(k)
     \/ IterDelete(k)
     \/ IterGet(k)

Spec == Init /\ [][Next]_<<map, last>>
=============================================================================
