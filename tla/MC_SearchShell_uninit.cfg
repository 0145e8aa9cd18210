CONSTANTS Programs <- MCHw2Shell
          Inputs <- MCAllByShell
          BufSize <- MCBufSize
INIT Init
NEXT Next
\* main returns once stdin is exhausted.
CHECK_DEADLOCK FALSE
INVARIANT QueryEntriesInitialised
