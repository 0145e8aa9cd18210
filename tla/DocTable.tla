------------------------------ MODULE DocTable ------------------------------
(***************************************************************************)
(* The hw2 DocTable (src/hw2/doctable.c): two HashTables, docid_to_docname *)
(* and docname_to_docid (keyed by the FNV hash of the name), and the       *)
(* max_id counter.  The hash tables are abstracted to functions (the       *)
(* table itself is checked in HashTable.tla), keeping the results their    *)
(* calls can return: LookupHashTable 1, 0 or -1 (iterator allocation       *)
(* failed), InsertHashTable 1 (new key), 2 (replaced) or 0 (failed).       *)
(* A Verify333 that fails aborts the process: halted.                      *)
(***************************************************************************)
EXTENDS Integers, FiniteSets, Functions, TLC

CONSTANTS Names,       \* document names the crawler registers
          Hash,        \* FNVHash64 on Names
          MaxDocs,     \* bound on max_id
          FailPoints   \* subset of {"lookup", "insert"}

ASSUME /\ Hash \in [Names -> Nat]
       /\ MaxDocs \in Nat \ {0}
       /\ FailPoints \subseteq {"lookup", "insert"}

VARIABLES id2name,   \* docid_to_docname
          name2id,   \* docname_to_docid: FNV hash -> docid
          max_id,
          returned,  \* history: the <<name, docid>> pairs the calls returned
          halted

vars == <<id2name, name2id, max_id, returned, halted>>

DocIDs == 1..MaxDocs

\* The results a LookupHashTable of key in table tab can return.
LookupResults(tab, key) ==
  (IF key \in DOMAIN tab THEN {1} ELSE {0}) \cup (IF "lookup" \in FailPoints THEN {-1} ELSE {})

\* The results an InsertHashTable of key into tab can return.
InsertResults(tab, key) ==
  (IF key \in DOMAIN tab THEN {2} ELSE {1}) \cup (IF "insert" \in FailPoints THEN {0} ELSE {})

\* InsertHashTable's effect for a result: 0 leaves the table alone.
Inserted(tab, key, val, ret) == IF ret = 0 THEN tab ELSE (key :> val) @@ tab

\* AllocateDocTable.
Init ==
  /\ id2name = <<>>
  /\ name2id = <<>>
  /\ max_id = 0
  /\ returned = {}
  /\ halted = FALSE

\* Lookup found the name's hash: the existing docid is returned.
RegisterExisting(n) ==
  /\ returned' = returned \cup {<<n, name2id[Hash[n]]>>}
  /\ UNCHANGED <<id2name, name2id, max_id, halted>>

\* Mutant: the docid_to_docname insert's result is not checked.
RegisterNew_NoFirstCheck(n) ==
  LET id == max_id + 1 IN
  /\ max_id' = id
  /\ \E r1 \in InsertResults(id2name, id), r2 \in InsertResults(name2id, Hash[n]) :
       /\ id2name' = Inserted(id2name, id, n, r1)
       /\ name2id' = Inserted(name2id, Hash[n], id, r2)
       /\ IF r2 = 1 THEN returned' = returned \cup {<<n, id>>} /\ UNCHANGED halted
                    ELSE halted' = TRUE /\ UNCHANGED returned

\* Mutant: the docid is read from max_id before it is incremented.
RegisterNew_IdBeforeIncrement(n) ==
  /\ max_id' = max_id + 1
  /\ id2name' = (max_id :> n) @@ id2name
  /\ name2id' = (Hash[n] :> max_id) @@ name2id
  /\ returned' = returned \cup {<<n, max_id>>}
  /\ UNCHANGED halted

\* Lookup returned 0, or -1 taken as 0: max_id is incremented, the pair is
\* inserted into docid_to_docname then docname_to_docid, each followed by
\* Verify333(ret == 1).
RegisterNew(n) ==
  LET id == max_id + 1 IN
  /\ max_id' = id
  /\ \E r1 \in InsertResults(id2name, id) :
       /\ id2name' = Inserted(id2name, id, n, r1)
       /\ IF r1 # 1
          THEN halted' = TRUE /\ UNCHANGED <<name2id, returned>>
          ELSE \E r2 \in InsertResults(name2id, Hash[n]) :
                 /\ name2id' = Inserted(name2id, Hash[n], id, r2)
                 /\ IF r2 = 1 THEN returned' = returned \cup {<<n, id>>} /\ UNCHANGED halted
                              ELSE halted' = TRUE /\ UNCHANGED returned

DTRegisterDocumentName(n) ==
  /\ ~halted
  /\ max_id < MaxDocs
  /\ \E ret \in LookupResults(name2id, Hash[n]) :
       IF ret = 1 THEN RegisterExisting(n) ELSE RegisterNew(n)

\* Mutant: the lookup's status is returned in place of the docid.
LookupDocumentNameResults_ReturnsStatus(n) ==
  UNION {IF ret = 0 THEN {0} ELSE {ret} : ret \in LookupResults(name2id, Hash[n])}

\* DTLookupDocumentName: 0 for a 0 result; otherwise the docid kv.value
\* points at, which LookupHashTable wrote only for a 1 result: after -1 it
\* is whatever the stack held, modelled as any docid.
LookupDocumentNameResults(n) ==
  UNION {IF ret = 0 THEN {0} ELSE IF ret = 1 THEN {name2id[Hash[n]]} ELSE DocIDs :
           ret \in LookupResults(name2id, Hash[n])}

\* DTLookupDocID: NULL for 0, otherwise the kv.value name.
LookupDocIDResults(id) ==
  UNION {IF ret = 0 THEN {"NULL"} ELSE IF ret = 1 THEN {id2name[id]} ELSE Names :
           ret \in LookupResults(id2name, id)}

\* The lookups change nothing; a returned pair is recorded as a call result.
DTLookupDocumentName(n) ==
  /\ ~halted
  /\ \E id \in LookupDocumentNameResults(n) :
       returned' = IF id = 0 THEN returned ELSE returned \cup {<<n, id>>}
  /\ UNCHANGED <<id2name, name2id, max_id, halted>>

DTLookupDocID(id) ==
  /\ ~halted
  /\ id \in 1..max_id
  /\ \E n \in LookupDocIDResults(id) :
       returned' = IF n = "NULL" THEN returned ELSE returned \cup {<<n, id>>}
  /\ UNCHANGED <<id2name, name2id, max_id, halted>>

Next ==
  \/ \E n \in Names : DTRegisterDocumentName(n) \/ DTLookupDocumentName(n)
  \/ \E id \in DocIDs : DTLookupDocID(id)

Spec == Init /\ [][Next]_vars

-----------------------------------------------------------------------------

TypeOK ==
  /\ id2name \in [DOMAIN id2name -> Names] /\ DOMAIN id2name \subseteq DocIDs
  /\ Range(name2id) \subseteq DocIDs
  /\ max_id \in 0..MaxDocs
  /\ returned \subseteq Names \X DocIDs
  /\ halted \in BOOLEAN

\* Spec 3 (DocTable): while the process runs, the two tables are mutual
\* inverses, every docid handed out so far is in them, and no name's hash
\* maps to a docid of another name.
TablesMutualInverse ==
  ~halted =>
    /\ DOMAIN id2name = 1..max_id
    /\ \A id \in DOMAIN id2name : Hash[id2name[id]] \in DOMAIN name2id
                                   /\ name2id[Hash[id2name[id]]] = id
    /\ \A h \in DOMAIN name2id : name2id[h] \in DOMAIN id2name
                                  /\ Hash[id2name[name2id[h]]] = h

\* Spec 4.2: registration is idempotent and lookups agree with it; over
\* every call that returned, a name was always given the same docid and a
\* docid always stood for the same name.
ReturnedPairsConsistent ==
  \A p, q \in returned : (p[1] = q[1]) <=> (p[2] = q[2])
=============================================================================
