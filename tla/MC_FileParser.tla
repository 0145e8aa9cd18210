---------------------------- MODULE MC_FileParser ----------------------------
EXTENDS FileParser

\* Every file of up to five bytes over one lower and one upper case letter,
\* space, newline, NUL and a non-ASCII byte.
MCChars == {"a", "B", " ", "\n", NUL, NonASCII}
MCAllFiles == UNION {[1..n -> MCChars] : n \in 0..5}

\* Files whose last byte is not a letter, as text files ending in a
\* newline are.
MCTerminatedFiles == {f \in MCAllFiles : Len(f) = 0 \/ ~isalpha(f[Len(f)])}
=============================================================================
