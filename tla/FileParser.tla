----------------------------- MODULE FileParser -----------------------------
(***************************************************************************)
(* BuildWordHT (src/hw2/fileparser.c): the crawler's tokeniser.  The file *)
(* is read whole, rejected if empty or not ASCII text, then LoopAndInsert  *)
(* walks it a character at a time, lowercasing letters in place and       *)
(* handing each word with the byte offset of its first letter to          *)
(* AddToHashTable, which appends the offset to the word's positions list. *)
(*                                                                         *)
(* A file is a short sequence over a small alphabet standing for the      *)
(* classes the code tells apart: lower and upper case letters, separators, *)
(* the NUL byte and a byte above 0x7F.  The word table is a function from *)
(* a word (a sequence of characters) to its positions list; words are     *)
(* taken to have distinct FNV hashes.  The exit(EXIT_FAILURE) paths of     *)
(* AddToHashTable on allocation failure end the process and are left out. *)
(***************************************************************************)
EXTENDS Integers, Sequences, SequencesExt, FiniteSets

CONSTANTS Contents   \* the files the crawler may hand to BuildWordHT

NUL      == "nul"    \* the byte 0
NonASCII == "x80"    \* a byte above ASCII_UPPER_BOUND

\* isalpha and tolower on the model's alphabet.
Upper == {"A", "B"}
isalpha(c) == c \in {"a", "b"} \cup Upper
tolower(c) == IF c \in Upper THEN IF c = "A" THEN "a" ELSE "b" ELSE c

\* The NULL table pointer: a value no word table equals (no word is empty).
NULL == <<>> :> <<>>

VARIABLES file,     \* the file's contents
          wordht,   \* what BuildWordHT returned: NULL or the word table
          built     \* BuildWordHT has run

vars == <<file, wordht, built>>

EmptyTable == [w \in {} |-> <<>>]

\* AddToHashTable: the offset is appended to an existing word's list, or
\* a new WordPositions with a one-element list is inserted.
AddToHashTable(tab, word, pos) ==
  [w \in DOMAIN tab \cup {word} |->
     IF w # word THEN tab[w]
     ELSE IF w \in DOMAIN tab THEN Append(tab[w], pos) ELSE <<pos>>]

\* Mutant: the word is recorded without case folding.
Lowered_KeepsCase(w) == w

\* The word between wordstart and the boundary, as lowercased in place.
Lowered(w) == [k \in 1..Len(w) |-> tolower(w[k])]

\* The while (1) loop from curptr = i with the parsing_a_word flag and
\* wordstart ws (1-based); the position passed is wordstart - content.
\* The loop breaks on the terminating '\0' ReadFile appended, i > Len(s).
RECURSIVE Loop(_, _, _, _, _)
Loop(s, i, parsing, ws, tab) ==
  IF i > Len(s) THEN tab
  ELSE IF parsing = 1 /\ ~isalpha(s[i])
       THEN Loop(s, i + 1, 0, ws, AddToHashTable(tab, Lowered(SubSeq(s, ws, i - 1)), ws - 1))
  ELSE IF parsing = 0 /\ isalpha(s[i])
       THEN Loop(s, i + 1, 1, i, tab)
  ELSE Loop(s, i + 1, parsing, ws, tab)

LoopAndInsert(s) ==
  Loop(s, 1, IF Len(s) > 0 /\ isalpha(s[1]) THEN 1 ELSE 0, 1, EmptyTable)

\* BuildWordHT: an empty file, or one holding a NUL or a non-ASCII byte, is
\* refused; a file with no words gives NULL instead of an empty table.
BuildWordHTResult(s) ==
  IF Len(s) = 0 \/ \E i \in 1..Len(s) : s[i] \in {NUL, NonASCII} THEN NULL
  ELSE LET tab == LoopAndInsert(s) IN IF DOMAIN tab = {} THEN NULL ELSE tab

Init ==
  /\ file \in Contents
  /\ wordht = NULL
  /\ built = FALSE

BuildWordHT ==
  /\ ~built
  /\ wordht' = BuildWordHTResult(file)
  /\ built' = TRUE
  /\ UNCHANGED file

Next == BuildWordHT

Spec == Init /\ [][Next]_vars

-----------------------------------------------------------------------------

\* Spec 1 and 5: words are the maximal runs of alphabetic characters,
\* case-folded, each recorded at the offset of its first character, the
\* positions of a word in increasing order; a file that is not ASCII text
\* or holds no word yields no table.
WordStarts(s) == {i \in 1..Len(s) : isalpha(s[i]) /\ (i = 1 \/ ~isalpha(s[i - 1]))}
WordAt(s, i) ==
  LET ends == {j \in i..Len(s) : \A k \in i..j : isalpha(s[k])}
  IN  [k \in 1..(Max(ends) - i + 1) |-> tolower(s[i + k - 1])]
ReferenceWordHT(s) ==
  LET words == {WordAt(s, i) : i \in WordStarts(s)} IN
  IF (\E i \in 1..Len(s) : s[i] \in {NUL, NonASCII}) \/ words = {} THEN NULL
  ELSE [w \in words |-> SetToSortSeq({i - 1 : i \in {i \in WordStarts(s) : WordAt(s, i) = w}}, <)]

\* BuildWordHT returns exactly the words of the file, each with every
\* offset at which it starts.
WordHTMatchesReference == built => wordht = ReferenceWordHT(file)
=============================================================================
