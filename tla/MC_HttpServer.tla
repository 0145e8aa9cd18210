---------------------------- MODULE MC_HttpServer ----------------------------
(* Model-checking instance of HttpServer: two clients share a pool of one  *)
(* worker, so one connection's lifetime decides when the other is served. *)
EXTENDS HttpServer, TLC

MCNumThreads == 1
MCMaxReqs == 2
MCKeepAlive == {FALSE}

MCAnyClose == BOOLEAN

\* Request shapes, the same for every client.
MCWellFormed == [c \in Clients |-> {"reqline"}]
MCAnyLine == [c \in Clients |-> {"reqline", "nospace"}]

\* One client sends every shape, the other only well-formed requests: one
\* sender reaches every parse path, interleaved with the other client's
\* requests on the single worker, at a sixth of the states of two.
MCOneMalformed ==
  LET bad == CHOOSE c \in Clients : TRUE
  IN [c \in Clients |-> IF c = bad THEN {"reqline", "nospace", "bare"} ELSE {"reqline"}]
MCClientSymmetry == Permutations(Clients)
=============================================================================
