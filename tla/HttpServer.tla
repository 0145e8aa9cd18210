----------------------------- MODULE HttpServer -----------------------------
(***************************************************************************)
(* The hw4 web server's connection handling (src/hw4/HttpServer.cc and    *)
(* src/hw4/HttpConnection.cc).                                             *)
(*                                                                         *)
(* HttpServer::Run accepts connections and dispatches each one to a        *)
(* thread pool of NumThreads workers.  A worker runs HttpServer_ThrFn for  *)
(* the whole life of the connection: GetNextRequest, ProcessRequest,       *)
(* WriteResponse, until GetNextRequest fails, a write fails, or the        *)
(* response says "connection: close".                                      *)
(*                                                                         *)
(* The byte stream is abstracted to tokens: a request line, the header     *)
(* "Connection: close", and CRLF.  A request's end is two consecutive      *)
(* CRLF tokens, which is what buffer_.find("\r\n\r\n") finds; since the    *)
(* code searches the whole buffer_, a terminator split across reads is     *)
(* covered by reads that return any non-empty prefix of what is in flight. *)
(* A request line is either well formed ("GET uri HTTP/1.1") or has no     *)
(* space in it ("nospace"), on which ParseRequest's .at(1) throws.         *)
(***************************************************************************)
EXTENDS Integers, Sequences, SequencesExt, FiniteSets

CONSTANTS Clients,      \* the clients, each with one connection
          NumThreads,   \* kNumThreads, the size of the worker pool
          Uris,         \* request targets the clients use, each named by
                        \* the branch of ProcessRequest it takes (UriKinds)
          NoUri,        \* the URI of a default-constructed HttpRequest
          MaxReqs,      \* bound on the requests a client sends
          LineForms,    \* per client, the request shapes it sends: "reqline" (well
                        \* formed), "nospace" (request line without a
                        \* space), "bare" (well-formed line, then a header
                        \* line with neither ':' nor ' ')
          CloseChoices, \* whether a client may send "Connection: close"
          FailPoints    \* "reset": a client may reset its connection;
                        \* "bind": BindAndListen may fail;
                        \* "lookup": getnameinfo or getsockname in
                        \* Accept may fail;
                        \* "accept": accept() may fail with an errno other
                        \* than EINTR or EAGAIN (EMFILE, ECONNABORTED, ...)

\* "file": a /static/ path whose name has a '.', or that is not found (404);
\* "file_nodot": a /static/ file that is found and has no '.' in its name;
\* "query": any other URI, with or without a terms= argument;
\* "query_noterms": contains "query?terms" but has no terms= argument.
UriKinds == {"file", "file_nodot", "query", "query_noterms"}

ASSUME /\ NoUri \notin Uris
       /\ Uris \subseteq UriKinds
       /\ NumThreads \in Nat \ {0}
       /\ MaxReqs \in Nat
       /\ LineForms \in [Clients -> SUBSET {"reqline", "nospace", "bare"}]
       /\ CloseChoices \subseteq BOOLEAN
       /\ FailPoints \subseteq {"reset", "accept", "bind", "lookup"}

VARIABLES conn,    \* per connection: worker state, buffer_, req, res
          queue,   \* accepted connections waiting for a free worker
          busy,    \* number of workers inside HttpServer_ThrFn
          chan,    \* bytes a client has written that the server has not read
          sent,    \* requests each client has sent, in order
          cst,     \* client side: "open", "shut" (sent FIN) or "reset"
          recv,    \* responses each client has received, by URI
          served,  \* history: requests GetNextRequest returned, in order
          crashed, \* the process is gone: an exception escaped a worker,
                   \* a Verify333 failed, or Run returned and the server
                   \* exited
          listening \* Run's BindAndListen has made the listening socket

vars == <<conn, queue, busy, chan, sent, cst, recv, served, crashed, listening>>

CRLF == [kind |-> "crlf", uri |-> NoUri]
CloseHdr == [kind |-> "close", uri |-> NoUri]
BareHdr == [kind |-> "bare", uri |-> NoUri]
ReqLine(form, u) == [kind |-> form, uri |-> u]

Requests(c) == [uri : Uris, form : LineForms[c], close : CloseChoices]

\* What a client writes for one request: request line, optional headers, blank line.
Wire(r) ==
  (IF r.form = "bare" THEN <<ReqLine("reqline", r.uri), CRLF, BareHdr, CRLF>>
                      ELSE <<ReqLine(r.form, r.uri), CRLF>>)
    \o (IF r.close THEN <<CloseHdr, CRLF>> ELSE <<>>)
    \o <<CRLF>>

WireOf(s) == FlattenSeq([i \in 1..Len(s) |-> Wire(s[i])])

DefaultRequest == [uri |-> NoUri, close |-> FALSE]

\* buffer_.find("\r\n\r\n"): the index of the first of two CRLFs, 0 for npos.
TermPos(buf) ==
  LET P == {i \in 1..Len(buf) - 1 : buf[i] = CRLF /\ buf[i + 1] = CRLF}
  IN  IF P = {} THEN 0 ELSE Min(P)

\* boost::split on "\r\n" with token compression: the non-empty lines.
Lines(hdr) == SelectSeq(hdr, LAMBDA t : t /= CRLF)

\* lines.front() split on " " has no element 1: .at(1) throws out_of_range.
FirstLineThrows(hdr) == Lines(hdr) = <<>> \/ Head(Lines(hdr)).kind /= "reqline"

\* A header line with neither ':' nor ' ' splits into one element, and
\* cur_line_elements[1] reads past the vector's end.
HeaderReadsPastEnd(hdr) == \E i \in 2..Len(Lines(hdr)) : Lines(hdr)[i] = BareHdr

\* Mutant: the header loop stops one line early (lines.end() - 2).
ParseRequest_SkipLastHeader(hdr) ==
  [uri   |-> Head(Lines(hdr)).uri,
   close |-> \E i \in 2..Len(Lines(hdr)) - 1 : Lines(hdr)[i] = CloseHdr]

\* req.URI from the first line; req.headers from every later line.
ParseRequest(hdr) ==
  [uri   |-> Head(Lines(hdr)).uri,
   close |-> \E i \in 2..Len(Lines(hdr)) : Lines(hdr)[i] = CloseHdr]

\* The branch ProcessRequest takes: a default-constructed request has URI
\* "", which is not under /static/ and has no query, so it gets the page.
KindOf(u) == IF u = NoUri THEN "query" ELSE u

\* ProcessQueryRequest: args.at("terms") throws out_of_range when the URI
\* holds "query?terms" but URLParser found no terms argument.
\* ProcessFileRequest: a found file whose name has no '.' leaves vals with
\* one element, and vals[1] reads past the vector's end: undefined
\* behaviour, which may crash the process or compare as another suffix.
ProcessRequestMayAnswer(u) == KindOf(u) /= "query_noterms"
ProcessRequestMayCrash(u) == KindOf(u) \in {"query_noterms", "file_nodot"}

\* ProcessRequest answers the URI; neither ProcessFileRequest nor
\* ProcessQueryRequest sets a "connection" header on the response.
Response(req) == [uri |-> req.uri, connection |-> "none"]

SentClose(c) == \E i \in 1..Len(sent[c]) : sent[c][i].close

Init ==
  /\ conn = [c \in Clients |->
               [st |-> "backlog", buf |-> <<>>, req |-> DefaultRequest, res |-> TRUE]]
  /\ queue = <<>>
  /\ busy = 0
  /\ chan = [c \in Clients |-> <<>>]
  /\ sent = [c \in Clients |-> <<>>]
  /\ cst = [c \in Clients |-> "open"]
  /\ recv = [c \in Clients |-> <<>>]
  /\ served = [c \in Clients |-> <<>>]
  /\ crashed = FALSE
  /\ listening = FALSE

(***************************************************************************)
(* Server side.                                                            *)
(***************************************************************************)

\* Run: ss_.BindAndListen(AF_INET6).  getaddrinfo, then socket and bind on
\* each address it returns until one binds, then listen.  Any failure
\* (getaddrinfo, no address that binds, listen) returns false and Run
\* returns false: the server exits before it accepts anyone.
BindAndListen ==
  /\ ~crashed
  /\ ~listening
  /\ \/ listening' = TRUE /\ UNCHANGED crashed
     \/ "bind" \in FailPoints /\ crashed' = TRUE /\ UNCHANGED listening
  /\ UNCHANGED <<conn, queue, busy, chan, sent, cst, recv, served>>

\* Run: ss_.Accept returns a pending connection, tp.Dispatch queues it.
Accept(c) ==
  /\ ~crashed
  /\ listening
  /\ conn[c].st = "backlog"
  /\ conn' = [conn EXCEPT ![c].st = "queued"]
  /\ queue' = Append(queue, c)
  /\ UNCHANGED <<busy, chan, sent, cst, recv, served, crashed, listening>>

\* ServerSocket::Accept: accept() failing with EINTR or EAGAIN is retried
\* (no state changes); any other error returns false, Run breaks out of its
\* loop ("will happen when kill command is used") and returns, and the
\* server exits with every connection.
AcceptFails(c) ==
  /\ "accept" \in FailPoints
  /\ ~crashed
  /\ listening
  /\ conn[c].st = "backlog"
  /\ crashed' = TRUE
  /\ UNCHANGED <<conn, queue, busy, chan, sent, cst, recv, served, listening>>

\* ServerSocket::Accept after accept() succeeded: Verify333(res == 0) on
\* getnameinfo for the client and on getsockname and getnameinfo for the
\* server; a failure (EAI_AGAIN while DNS is unreachable, say) aborts the
\* whole process with the connection just accepted.
AcceptAborts(c) ==
  /\ "lookup" \in FailPoints
  /\ ~crashed
  /\ listening
  /\ conn[c].st = "backlog"
  /\ crashed' = TRUE
  /\ UNCHANGED <<conn, queue, busy, chan, sent, cst, recv, served, listening>>

\* Mutant: a task is started without waiting for a free worker.
WorkerStart_NoFreeCheck ==
  /\ ~crashed
  /\ queue /= <<>>
  /\ conn' = [conn EXCEPT ![Head(queue)].st = "get"]
  /\ queue' = Tail(queue)
  /\ busy' = busy + 1
  /\ UNCHANGED <<chan, sent, cst, recv, served, crashed, listening>>

\* A free pool worker takes the oldest task and enters HttpServer_ThrFn.
WorkerStart ==
  /\ ~crashed
  /\ queue /= <<>>
  /\ busy < NumThreads
  /\ conn' = [conn EXCEPT ![Head(queue)].st = "get"]
  /\ queue' = Tail(queue)
  /\ busy' = busy + 1
  /\ UNCHANGED <<chan, sent, cst, recv, served, crashed, listening>>

\* GetNextRequest, no terminator in buffer_: WrappedRead returns some bytes.
GnrRead(c) ==
  /\ ~crashed
  /\ conn[c].st = "get"
  /\ TermPos(conn[c].buf) = 0
  /\ chan[c] /= <<>>
  /\ \E n \in 1..Len(chan[c]) :
        /\ conn' = [conn EXCEPT ![c].buf = @ \o SubSeq(chan[c], 1, n)]
        /\ chan' = [chan EXCEPT ![c] = SubSeq(@, n + 1, Len(@))]
  /\ UNCHANGED <<queue, busy, sent, cst, recv, served, crashed, listening>>

\* Mutant: buffer_ is cleared after a request instead of keeping the rest.
GnrParse_DropRest(c) ==
  LET buf == conn[c].buf
      pos == TermPos(buf)
      hdr == SubSeq(buf, 1, pos + 1)
  IN
  /\ ~crashed
  /\ conn[c].st = "get"
  /\ pos > 0
  /\ ~FirstLineThrows(hdr)
  /\ conn' = [conn EXCEPT ![c] = [@ EXCEPT !.req = ParseRequest(hdr),
                                           !.buf = <<>>,
                                           !.res = TRUE,
                                           !.st = "respond"]]
  /\ served' = [served EXCEPT ![c] = Append(@, ParseRequest(hdr))]
  /\ UNCHANGED <<queue, busy, chan, sent, cst, recv, crashed, listening>>

\* GetNextRequest, terminator found: ParseRequest(pos + 4), keep the rest.
GnrParse(c) ==
  LET buf == conn[c].buf
      pos == TermPos(buf)
      hdr == SubSeq(buf, 1, pos + 1)
  IN
  /\ ~crashed
  /\ conn[c].st = "get"
  /\ pos > 0
  /\ ~FirstLineThrows(hdr)
  /\ conn' = [conn EXCEPT ![c] = [@ EXCEPT !.req = ParseRequest(hdr),
                                           !.buf = SubSeq(buf, pos + 2, Len(buf)),
                                           !.res = TRUE,
                                           !.st = "respond"]]
  /\ served' = [served EXCEPT ![c] = Append(@, ParseRequest(hdr))]
  /\ UNCHANGED <<queue, busy, chan, sent, cst, recv, crashed, listening>>

\* ParseRequest on a header line with neither ':' nor ' ': the read of
\* cur_line_elements[1] past the end is undefined; the fault is one
\* outcome (GnrParse, where the header is stored with a stale value and
\* nothing else changes, is the other).
GnrParseFaults(c) ==
  LET buf == conn[c].buf
      hdr == SubSeq(buf, 1, TermPos(buf) + 1)
  IN
  /\ ~crashed
  /\ conn[c].st = "get"
  /\ TermPos(buf) > 0
  /\ ~FirstLineThrows(hdr)
  /\ HeaderReadsPastEnd(hdr)
  /\ crashed' = TRUE
  /\ UNCHANGED <<conn, queue, busy, chan, sent, cst, recv, served, listening>>

\* ParseRequest on a request line without a space: the exception leaves
\* the thread uncaught and std::terminate ends the whole server.
GnrParseThrows(c) ==
  LET buf == conn[c].buf
  IN
  /\ ~crashed
  /\ conn[c].st = "get"
  /\ TermPos(buf) > 0
  /\ FirstLineThrows(SubSeq(buf, 1, TermPos(buf) + 1))
  /\ crashed' = TRUE
  /\ UNCHANGED <<conn, queue, busy, chan, sent, cst, recv, served, listening>>

\* WrappedRead returns 0 with no terminator in buffer_: return false.
GnrEOF(c) ==
  /\ ~crashed
  /\ conn[c].st = "get"
  /\ TermPos(conn[c].buf) = 0
  /\ chan[c] = <<>>
  /\ cst[c] = "shut"
  /\ conn' = [conn EXCEPT ![c].res = FALSE, ![c].st = "respond"]
  /\ UNCHANGED <<queue, busy, chan, sent, cst, recv, served, crashed, listening>>

\* WrappedRead returns -1 (connection reset): return false.
GnrError(c) ==
  /\ ~crashed
  /\ conn[c].st = "get"
  /\ TermPos(conn[c].buf) = 0
  /\ cst[c] = "reset"
  /\ conn' = [conn EXCEPT ![c].res = FALSE, ![c].st = "respond"]
  /\ UNCHANGED <<queue, busy, chan, sent, cst, recv, served, crashed, listening>>

\* WriteResponse: WrappedWrite writes the whole response unless the peer
\* has reset the connection, when it returns -1 and the call false.
WriteResponse(c) == cst[c] /= "reset"

\* Mutant: the connection is closed after every response.
Respond_CloseAfterOne(c) ==
  LET hp    == Response(conn[c].req)
      wrote == WriteResponse(c)
  IN
  /\ ~crashed
  /\ conn[c].st = "respond"
  /\ ProcessRequestMayAnswer(conn[c].req.uri)
  /\ recv' = [recv EXCEPT ![c] = IF wrote THEN Append(@, hp.uri) ELSE @]
  /\ conn' = [conn EXCEPT ![c].st = "closed"]
  /\ busy' = busy - 1
  /\ UNCHANGED <<queue, chan, sent, cst, served, crashed, listening>>

\* One pass of the HttpServer_ThrFn loop after GetNextRequest: done if it
\* failed; the request in req (the stale one if it failed) is processed and
\* written; done if the write failed or the response says close.  When
\* done, the task ends and the worker goes back to the pool.
Respond(c) ==
  LET hp    == Response(conn[c].req)
      wrote == WriteResponse(c)
      done  == ~conn[c].res \/ ~wrote \/ hp.connection = "close"
  IN
  /\ ~crashed
  /\ conn[c].st = "respond"
  /\ ProcessRequestMayAnswer(conn[c].req.uri)
  /\ recv' = [recv EXCEPT ![c] = IF wrote THEN Append(@, hp.uri) ELSE @]
  /\ conn' = [conn EXCEPT ![c].st = IF done THEN "closed" ELSE "get"]
  /\ busy' = IF done THEN busy - 1 ELSE busy
  /\ UNCHANGED <<queue, chan, sent, cst, served, crashed, listening>>

\* ProcessRequest on the request in req ends the process: the exception
\* leaves the thread uncaught, or the out-of-bounds read faults.
ProcessRequestCrashes(c) ==
  /\ ~crashed
  /\ conn[c].st = "respond"
  /\ ProcessRequestMayCrash(conn[c].req.uri)
  /\ crashed' = TRUE
  /\ UNCHANGED <<conn, queue, busy, chan, sent, cst, recv, served, listening>>

(***************************************************************************)
(* Client side: the environment.                                          *)
(***************************************************************************)

\* A client writes one more request, unless it already asked to close.
ClientSend(c, r) ==
  /\ listening
  /\ cst[c] = "open"
  /\ Len(sent[c]) < MaxReqs
  /\ ~SentClose(c)
  /\ chan' = [chan EXCEPT ![c] = @ \o Wire(r)]
  /\ sent' = [sent EXCEPT ![c] = Append(@, r)]
  /\ UNCHANGED <<conn, queue, busy, cst, recv, served, crashed, listening>>

\* A client that did not ask the server to close shuts down its side.
ClientShutdown(c) ==
  /\ listening
  /\ cst[c] = "open"
  /\ ~SentClose(c)
  /\ cst' = [cst EXCEPT ![c] = "shut"]
  /\ UNCHANGED <<conn, queue, busy, chan, sent, recv, served, crashed, listening>>

\* A client aborts: unread bytes are discarded, reads and writes then fail.
ClientReset(c) ==
  /\ listening
  /\ "reset" \in FailPoints
  /\ cst[c] \in {"open", "shut"}
  /\ cst' = [cst EXCEPT ![c] = "reset"]
  /\ chan' = [chan EXCEPT ![c] = <<>>]
  /\ UNCHANGED <<conn, queue, busy, sent, recv, served, crashed, listening>>

Server(c) ==
  \/ Accept(c)
  \/ AcceptFails(c)
  \/ AcceptAborts(c)
  \/ GnrRead(c)
  \/ GnrParse(c)
  \/ GnrParseThrows(c)
  \/ GnrParseFaults(c)
  \/ GnrEOF(c)
  \/ GnrError(c)
  \/ Respond(c)
  \/ ProcessRequestCrashes(c)

Client(c) ==
  \/ \E r \in Requests(c) : ClientSend(c, r)
  \/ ClientShutdown(c)
  \/ ClientReset(c)

Next ==
  \/ BindAndListen
  \/ WorkerStart
  \/ \E c \in Clients : Server(c) \/ Client(c)

\* Run's set-up, worker threads and the accept loop run whenever they can (the OS
\* schedules every runnable thread).  Nothing is assumed of the clients: a
\* keep-alive client may keep its connection open and idle forever.
Fairness ==
  /\ WF_vars(BindAndListen) /\ WF_vars(WorkerStart)
  /\ \A c \in Clients : WF_vars(Server(c))

Spec == Init /\ [][Next]_vars /\ Fairness

-----------------------------------------------------------------------------

TypeOK ==
  /\ conn \in [Clients -> [st : {"backlog", "queued", "get", "respond", "closed"},
                           buf : Seq([kind : {"reqline", "nospace", "bare", "close", "crlf"},
                                      uri : Uris \cup {NoUri}]),
                           req : [uri : Uris \cup {NoUri}, close : BOOLEAN],
                           res : BOOLEAN]]
  /\ busy \in 0..NumThreads
  /\ cst \in [Clients -> {"open", "shut", "reset"}]
  /\ \A c \in Clients : Len(sent[c]) <= MaxReqs
  /\ crashed \in BOOLEAN
  /\ listening \in BOOLEAN

\* Pipelining (GetNextRequest keeps what follows "\r\n\r\n" in buffer_):
\* for a client that did not reset, the requests GetNextRequest returned
\* are exactly the first ones it sent, in order, and every byte of the
\* others is still in buffer_ or not yet read.
NoRequestLost ==
  \A c \in Clients : cst[c] /= "reset" =>
    LET k == Len(served[c]) IN
    /\ k <= Len(sent[c])
    /\ \A i \in 1..k : served[c][i] = [uri |-> sent[c][i].uri, close |-> sent[c][i].close]
    /\ WireOf(SubSeq(sent[c], k + 1, Len(sent[c]))) = conn[c].buf \o chan[c]

\* Once a connection has a worker, every request its client sends is
\* eventually returned by GetNextRequest and its response written, unless
\* the client resets or the server has exited: a pipelined request left in
\* buffer_ is not lost, and the worker does not end the connection early.
\* Counting the served requests, not only the responses, matters: after
\* GetNextRequest fails, HttpServer_ThrFn still answers the stale req.
\* (A connection still queued is not covered: one that never gets a worker
\* because an idle keep-alive client holds it is the pool hazard, which no
\* client fairness is assumed to rule out.)
EveryRequestAnswered ==
  \A c \in Clients, n \in 1..MaxReqs :
     (Len(sent[c]) >= n /\ conn[c].st \notin {"backlog", "queued"})
       ~> ((Len(served[c]) >= n /\ Len(recv[c]) >= n) \/ cst[c] = "reset" \/ crashed)

\* HttpServer_ThrFn answers a client with one response per request, in
\* order: the i-th response is for the i-th request and there is none
\* after the last request.
ResponsesMatchRequests ==
  \A c \in Clients :
     /\ Len(recv[c]) <= Len(sent[c])
     /\ \A i \in 1..Len(recv[c]) : recv[c][i] = sent[c][i].uri

\* The loop's comment: "If the client sent a Connection: close header,
\* then shut down the connection."  A client that asked to close, and
\* waits for the server to do so, eventually sees its connection closed.
CloseHonoured ==
  \A c \in Clients : SentClose(c) ~> (conn[c].st = "closed" \/ cst[c] = "reset")

\* No request a client can send terminates the server process.
ServerNeverAborts == ~crashed
=============================================================================
