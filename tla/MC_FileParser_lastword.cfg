CONSTANT Contents <- MCAllFiles
INIT Init
NEXT Next
CHECK_DEADLOCK FALSE
INVARIANT WordHTMatchesReference
