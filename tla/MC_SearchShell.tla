---------------------------- MODULE MC_SearchShell ----------------------------
EXTENDS SearchShell

\* A five-byte line buffer: a line of two words ("a A\n") fits, and a
\* longer one is cut by fgets.
MCBufSize == 5

MCChars == {"a", "A", " ", "\n"}
MCAllInputs == UNION {[1..n -> MCChars] : n \in 0..6}

\* Input typed as the shell expects it: every line non-empty, ending in a
\* newline that no space precedes, and shorter than the buffer.
MCWellFormedLine(l) ==
  /\ Len(l) >= 2 /\ Len(l) <= MCBufSize - 1
  /\ l[Len(l)] = "\n" /\ l[Len(l) - 1] \notin {" ", "\n"}
  /\ \A i \in 1..Len(l) - 1 : l[i] # "\n"
MCWellFormedInputs ==
  {in \in MCAllInputs :
     /\ \A i \in 1..Len(in) : in[i] = "\n" =>
           LET prev == {j \in 0..i - 1 : j = 0 \/ in[j] = "\n"}
           IN  MCWellFormedLine(SubSeq(in, Max(prev) + 1, i))
     /\ (Len(in) = 0 \/ in[Len(in)] = "\n")}

\* Input whose every line ends in a newline, blank and space-only lines too.
MCTerminatedInputs == {in \in MCAllInputs : Len(in) = 0 \/ in[Len(in)] = "\n"}

MCBothShells == {"searchshell", "filesearchshell"}
MCHw2Shell == {"searchshell"}
MCWellFormedByShell ==
  [p \in MCBothShells |-> IF p = "searchshell" THEN MCWellFormedInputs ELSE MCTerminatedInputs]
MCAllByShell == [p \in MCHw2Shell |-> MCAllInputs]
=============================================================================
