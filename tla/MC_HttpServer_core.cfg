\* Keep-alive clients sending well-formed and space-less request lines to a dotless static file, which may reset, with accept() failing.
CONSTANTS
  Clients = {c1, c2}
  Uris = {"file_nodot"}
  NoUri = NoUri
  NumThreads <- MCNumThreads
  MaxReqs <- MCMaxReqs
  LineForms <- MCOneMalformed
  CloseChoices <- MCKeepAlive
  FailPoints = {"reset", "accept", "bind", "lookup"}
SPECIFICATION Spec
\* The server legitimately waits forever in accept and read once every
\* client has stopped sending.
CHECK_DEADLOCK FALSE
INVARIANT TypeOK
INVARIANT NoRequestLost
PROPERTY EveryRequestAnswered
