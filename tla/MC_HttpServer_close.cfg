\* Clients that ask the server to close and wait for it.
CONSTANTS
  Clients = {c1, c2}
  Uris = {"file", "query"}
  NoUri = NoUri
  NumThreads <- MCNumThreads
  MaxReqs <- MCMaxReqs
  LineForms <- MCWellFormed
  CloseChoices <- MCAnyClose
  FailPoints = {}
SPECIFICATION Spec
\* The server waits forever in accept and read once clients stop.
CHECK_DEADLOCK FALSE
PROPERTY CloseHonoured
