\* Both query shells, each on the input it is written for.
CONSTANTS Programs <- MCBothShells
          Inputs <- MCWellFormedByShell
          BufSize <- MCBufSize
INIT Init
NEXT Next
\* main returns once stdin is exhausted.
CHECK_DEADLOCK FALSE
INVARIANT QueryIsLineWords
INVARIANT EveryLineQueried
