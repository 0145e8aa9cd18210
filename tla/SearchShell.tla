----------------------------- MODULE SearchShell -----------------------------
(***************************************************************************)
(* The query loop of src/hw2/searchshell.c main: fgets a line of at most  *)
(* BufSize - 1 bytes from stdin, count its space-separated tokens in a    *)
(* copy, malloc that many query slots, overwrite the line's last byte (the *)
(* newline, when there is one) with '\0', split the line again filling the *)
(* slots, and call MIProcessQuery(index, query, num_split_query).          *)
(*                                                                         *)
(* stdin is a short sequence over letters, space and newline.  A query    *)
(* slot that the second split does not fill keeps what malloc left in it: *)
(* the model writes Uninit there.  MIProcessQuery and the printing of its *)
(* result are modelled in MemIndex.tla; here a call is recorded with the  *)
(* line it came from.                                                      *)
(*                                                                         *)
(* The hw3 shell, src/hw3/filesearchshell.cc main, is the same loop over  *)
(* std::getline: a line of any length without its newline, split on white *)
(* space by a stringstream, each word lowercased, and handed to           *)
(* QueryProcessor::ProcessQuery unless it has no word.  prog says which of *)
(* the two programs runs.                                                  *)
(***************************************************************************)
EXTENDS Integers, Sequences, SequencesExt, FiniteSets

CONSTANTS Programs,  \* subset of {"searchshell", "filesearchshell"}
          Inputs,    \* program -> the contents stdin may have
          BufSize    \* sizeof(usr_input) of searchshell

ASSUME /\ Programs \subseteq {"searchshell", "filesearchshell"}
       /\ BufSize \in Nat /\ BufSize >= 2

Uninit == <<"uninit">>   \* an unwritten query slot (a byte no input has)

VARIABLES prog,      \* the program that runs
          input,     \* everything stdin holds when main starts
          stdin,     \* the bytes not yet read
          calls,     \* the MIProcessQuery / ProcessQuery calls made, in order
          exited     \* the read loop ended and main returned

vars == <<prog, input, stdin, calls, exited>>

\* strtok_r(rest, delims, &rest) until NULL: the maximal runs of bytes not
\* in delims.
Tokens(s, delims) ==
  LET starts == {i \in 1..Len(s) : s[i] \notin delims /\ (i = 1 \/ s[i - 1] \in delims)}
      Until(i) == Max({j \in i..Len(s) : \A k \in i..j : s[k] \notin delims})
  IN  [n \in 1..Cardinality(starts) |->
         LET i == SetToSortSeq(starts, <)[n] IN SubSeq(s, i, Until(i))]

\* fgets(usr_input, BufSize, stdin): up to and including the first newline,
\* at most BufSize - 1 bytes.
LineLen(in) ==
  Min({Len(in), BufSize - 1} \cup {i \in 1..Len(in) : in[i] = "\n"})

\* Mutant: the line is split with its last byte still in place.
Chop_Skipped(line) == line

\* usr_input[strlen(usr_input) - 1] = '\0'.
Chop(line) == SubSeq(line, 1, Len(line) - 1)

\* The query array: num_split_query slots, the first filled by the split
\* of the chopped line.
QueryArray(line) ==
  LET num == Len(Tokens(line, {" "}))
      filled == Tokens(Chop(line), {" "})
  IN  [i \in 1..num |-> IF i <= Len(filled) THEN filled[i] ELSE Uninit]

Init ==
  /\ prog \in Programs
  /\ input \in Inputs[prog]
  /\ stdin = input
  /\ calls = <<>>
  /\ exited = FALSE

\* One iteration of while (1) after fgets returned the line.
ReadQuery ==
  /\ prog = "searchshell"
  /\ ~exited
  /\ stdin # <<>>
  /\ LET line == SubSeq(stdin, 1, LineLen(stdin)) IN
       /\ calls' = Append(calls, [line |-> line, query |-> QueryArray(line)])
       /\ stdin' = SubSeq(stdin, LineLen(stdin) + 1, Len(stdin))
  /\ UNCHANGED <<prog, input, exited>>

\* fgets returned NULL at end of input: break, free and return.
EndOfInput ==
  /\ prog = "searchshell"
  /\ ~exited
  /\ stdin = <<>>
  /\ exited' = TRUE
  /\ UNCHANGED <<prog, input, stdin, calls>>

\* getline(cin, usr_input): the bytes up to the first newline, which is
\* consumed and dropped; with no newline left it takes the rest and sets
\* eofbit, as it also does on an empty stdin.
Getline(in) ==
  LET nl == {i \in 1..Len(in) : in[i] = "\n"} IN
  IF nl = {} THEN [line |-> in, rest |-> <<>>, eof |-> TRUE]
  ELSE [line |-> SubSeq(in, 1, Min(nl) - 1), rest |-> SubSeq(in, Min(nl) + 1, Len(in)), eof |-> FALSE]

\* transform(..., ::tolower) on a word.
ToLower(w) == [i \in 1..Len(w) |-> IF w[i] = "A" THEN "a" ELSE IF w[i] = "B" THEN "b" ELSE w[i]]

\* Mutant: the words are passed on as typed.
FSQuery_NoLower(line) == Tokens(line, {" "})

\* while (ss_usr_input >> single_word): the blank-separated words, each
\* lowercased, pushed onto query.
FSQuery(line) == [i \in 1..Len(Tokens(line, {" "})) |-> ToLower(Tokens(line, {" "})[i])]

\* One iteration of filesearchshell's while (1) whose getline did not hit
\* EOF: a query with no word goes back to the prompt, any other is
\* processed.
FSReadQuery ==
  /\ prog = "filesearchshell"
  /\ ~exited
  /\ LET g == Getline(stdin) IN
       /\ ~g.eof
       /\ stdin' = g.rest
       /\ calls' = IF FSQuery(g.line) = <<>> THEN calls
                   ELSE Append(calls, [line |-> g.line, query |-> FSQuery(g.line)])
  /\ UNCHANGED <<prog, input, exited>>

\* if (cin.eof()) break: whatever getline read with it is dropped.
FSEndOfInput ==
  /\ prog = "filesearchshell"
  /\ ~exited
  /\ Getline(stdin).eof
  /\ stdin' = <<>>
  /\ exited' = TRUE
  /\ UNCHANGED <<prog, input, calls>>

Next == ReadQuery \/ EndOfInput \/ FSReadQuery \/ FSEndOfInput

Spec == Init /\ [][Next]_vars

-----------------------------------------------------------------------------

\* Spec 3 and 6: a query is the line's words, split on spaces with the
\* line's newline removed; each MIProcessQuery call gets exactly those
\* words, in order, as its query and qlen.
QueryIsLineWords ==
  prog = "searchshell" =>
  \A k \in 1..Len(calls) : calls[k].query = Tokens(calls[k].line, {" ", "\n"})

\* Every slot of the query array passed to MIProcessQuery (and freed after
\* it) was written by the split of the line.
QueryEntriesInitialised ==
  prog = "searchshell" =>
  \A k \in 1..Len(calls) : \A i \in DOMAIN calls[k].query : calls[k].query[i] # Uninit

\* The lines of an input: split at each newline, a last fragment without
\* newline counting as a line.
RECURSIVE InputLines(_)
InputLines(in) ==
  IF in = <<>> THEN <<>>
  ELSE LET g == Getline(in) IN <<g.line>> \o InputLines(g.rest)

\* The queries a shell should make of an input: one per line holding a
\* word, with the line's words, lowercased by filesearchshell as its
\* header comment requires ("converts them to lowercase"), as typed by
\* searchshell.
ExpectedQueries(p, in) ==
  LET words(l) == IF p = "filesearchshell"
                  THEN [i \in 1..Len(Tokens(l, {" "})) |-> ToLower(Tokens(l, {" "})[i])]
                  ELSE Tokens(l, {" "})
  IN  SelectSeq([i \in 1..Len(InputLines(in)) |-> words(InputLines(in)[i])], LAMBDA q : q # <<>>)

\* When main returns, each shell has made exactly one query per input line
\* holding a word, in input order, with that line's words: no line is
\* skipped, merged with the next, or queried twice.
EveryLineQueried ==
  exited => [k \in 1..Len(calls) |-> calls[k].query] = ExpectedQueries(prog, input)
=============================================================================
