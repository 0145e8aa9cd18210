\* A client whose request line has no space.
CONSTANTS
  Clients = {c1, c2}
  Uris = {"file", "query"}
  NoUri = NoUri
  NumThreads <- MCNumThreads
  MaxReqs <- MCMaxReqs
  LineForms <- MCAnyLine
  CloseChoices <- MCKeepAlive
  FailPoints = {}
SPECIFICATION Spec
\* The server waits forever in accept and read once clients stop.
CHECK_DEADLOCK FALSE
INVARIANT ServerNeverAborts
