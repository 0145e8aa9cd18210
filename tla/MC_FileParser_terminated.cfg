CONSTANT Contents <- MCTerminatedFiles
INIT Init
NEXT Next
\* BuildWordHT runs once per file; the crawler then moves on.
CHECK_DEADLOCK FALSE
INVARIANT WordHTMatchesReference
