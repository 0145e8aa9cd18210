# TLA+ models of the multithreaded web server

This directory holds TLA+ models of the C/C++ search engine and web server in `src/`. The models are checked with TLC. `PROJECT.json` lists the components, the runs, the mutants, the mapping from every definition to source lines, the findings and the hazards.

## The system and how its parts interact

| Layer | Sources | Role |
|---|---|---|
| hw1 | `src/hw1/HashTable.c` | Chained hash table with 64-bit keys, automatic resize and an external iterator (`HTIter`). It stores its chains in the hw1 `LinkedList`, which is not in the repository. |
| hw2 | `doctable.c`, `memindex.c`, `fileparser.c`, `searchshell.c` | A crawler tokenises files into word positions (`fileparser`). `DocTable` gives each file a DocID. `MemIndex` maps each word to a posting list of docid→positions. `MIProcessQuery` intersects the posting lists of the query words and ranks the result. `searchshell` is the console front end. |
| hw3 | `HashTableReader.cc`, `QueryProcessor.cc`, `filesearchshell.cc`, `hw3fsck/*` | The index is written to disk in the format of spec 4.4. The writer is not in the repository. Readers look up keys in on-disk hash tables. `QueryProcessor` runs a query against several index files and merges the results. `hw3fsck` checks an index file. |
| hw4 | `HttpServer.cc`, `HttpConnection.cc`, `ServerSocket.cc` | `ServerSocket` accepts connections. Each connection is handed to a thread-pool worker, which runs `HttpServer_ThrFn`. That loop reads requests with `HttpConnection::GetNextRequest` (framed on `\r\n\r\n`, leftovers kept in `buffer_`), answers file or query requests, and should close on `Connection: close`. |

Everything above hw1 is built on the hash table: `DocTable` and `MemIndex` are HashTables, and the on-disk format is a serialised HashTable. The hash table is therefore modelled first and most completely.

## Modules

### `HashMap` (abstract specification)

This is what the table promises its callers. It is a map `map : Keys -> Values \cup {NoValue}`. `last` records the most recent mutating call: its operation, key, value, return code and the old value handed back.

| Action | Effect |
|---|---|
| `Put` | Returns 1 for a new key, or 2 and the old value for a present one. |
| `PutFailed` | Returns 0 and leaves the map unchanged. |
| `Remove` | Returns 1 and the old value. |
| `RemoveAbsentOrFailed` | Returns 0 only for an absent key; returns -1 (out of memory) at any time. |
| `IterDelete` | Removes a present key and returns its value. |
| `IterGet` | Returns 0, or a present key with its current value, and leaves the map unchanged. |

A table that reports success while losing or inventing a pair does not implement this specification.

### `HashTable` (detailed model of `src/hw1/HashTable.c`)

State:

| Variable | Models |
|---|---|
| `ht.buckets` | A function from bucket number to a sequence of `[key, value]` records, head first. It models the array of `LinkedList`s. |
| `ht.num_buckets`, `ht.num_elements` | The same fields of the `HashTableRecord`. |
| `it` | The `HTIter`: `bucket` and `key` under the cursor, with `NoIter` (no iterator held) and `Done` (past the end, `is_valid == false`). |
| `halted` | Set when a `Verify333` fails. |
| `last` | The same as in `HashMap`. |
| `visit` | A history variable: the keys present when the iterator was made and the keys the cursor has landed on since. |

Actions:

| Action | Models |
|---|---|
| `InsertHashTable` | The whole function. `ResizeHashtable` runs first, then the chain search, then either the push of a new pair or the replace (delete the old node, push the new one). |
| `RemoveFromHashTable` | Absent key, iterator allocation failure, or unlink. |
| `HashTableMakeIterator` | Makes the iterator. |
| `IteratorNext` | `HTIteratorNext`. |
| `HTIteratorGet` | Returns 0 when `HTIteratorPastEnd` holds (the iterator is invalid or the table is empty), otherwise the pair under the cursor. |
| `HTIteratorDelete` | Advances the cursor, then removes the pair it left. |
| `HTIteratorFree` | Frees the iterator. |

`ResizeHashtable` returns the set of tables the resize can leave:

- unchanged, below the load factor;
- rebuilt at 9× the buckets, by re-inserting in iteration order;
- unchanged, when an allocation fails and the resize gives up;
- a truncated copy, when `HTIteratorNext` fails inside the copy loop.

Allocation failure is a nondeterministic choice at the sites named in the constant `FailPoints`:

- `alloc`: the allocation of a pair or an iterator;
- `resize`: any allocation inside the resize;
- `replace`: the unchecked push on the replace path;
- `iternext`: the list-iterator allocation in `HTIteratorNext`.

`AbsMap` maps the table to the abstract map. `ImplementsHashMap == HM!Spec` is checked as a temporal property, where `HM` is `INSTANCE HashMap WITH map <- AbsMap`.

The table is sequential: no part of hw1–hw3 shares it between threads. The hard behaviours are therefore:

- sequences of calls that cross a resize;
- iteration with delete-at-cursor;
- an allocation failure in the middle of a multi-step operation.

Because of this, no fairness is assumed and no liveness is claimed for this module.

### `MC_HashTable`

This module gives TLC its constants:

- key sets chosen to collide: `{0, 8, 9, 10, 17}` with one bucket, then 9 buckets after the first resize, so 0/9 and 8/17 share a bucket;
- `0..5` with two buckets, so the truncated copy needs two non-empty buckets;
- two model values for `Values`, with symmetry over them. The symmetry is sound because no definition inspects a value other than by equality.

### `HttpServer` (model of `src/hw4/HttpServer.cc`, `src/hw4/HttpConnection.cc` and `src/hw4/ServerSocket.cc`)

`HttpServer::Run` first makes the listening socket with `ServerSocket::BindAndListen`. It then accepts connections and dispatches each to a pool of `NumThreads` workers. A worker runs `HttpServer_ThrFn` for the whole connection: `GetNextRequest`, `ProcessRequest`, `WriteResponse`, until a read or write fails or the loop decides to close.

The byte stream is abstracted to tokens: a request line (`reqline`, or `nospace` for a line without a space), the `Connection: close` header, a header line with neither `:` nor a space (`bare`), and CRLF. `LineForms` gives, per client, the shapes it sends: a well-formed request, one with a space-less line, or one with a bare header. A request ends at two consecutive CRLFs, which is what `buffer_.find("\r\n\r\n")` finds. Reads return any non-empty prefix of what the client has written. So a terminator split across reads, and several requests in one read, both happen.

| Variable | Models |
|---|---|
| `conn[c]` | The worker's state for connection `c`, its `buffer_`, the `req` object reused across loop iterations, and the last response. |
| `queue`, `busy` | The thread pool's task queue and the number of busy workers. |
| `chan[c]`, `cst[c]` | Bytes written by the client and not yet read; the client side (`open`, `shut`, `reset`). |
| `sent`, `recv`, `served` | History: requests sent, responses received, requests `GetNextRequest` returned. |
| `crashed` | The process is gone. An exception escaped a worker, a `Verify333` failed, or `Run` returned. |
| `listening` | `BindAndListen` has made the listening socket. Clients connect only after it has. |

Server actions:

- `BindAndListen` (succeeds, or with fail point `"bind"` fails, so that `Run` returns before accepting anyone);
- `Accept`, `WorkerStart` (a free worker takes the oldest task);
- `AcceptFails` (`ServerSocket::Accept` gets an error other than `EINTR`/`EAGAIN`, so `Run` breaks out of its loop and the server exits; fail point `"accept"`);
- `AcceptAborts` (after `accept()` succeeded, `getnameinfo` or `getsockname` fails and its `Verify333` aborts the process; fail point `"lookup"`);
- `GnrRead` (no terminator yet, so read more);
- `GnrParse` (terminator found: parse, keep the rest in `buffer_`);
- `GnrParseThrows` (`at(1)` on a request line with no space);
- `GnrParseFaults` (`cur_line_elements[1]` read past the end for a bare header). The read is undefined. A fault is one outcome. `GnrParse`, which stores the header with a stale value, is the other.
- `GnrEOF` and `GnrError` (read returns 0 or -1);
- `Respond` (the rest of one loop pass, including the stale `req` after a failed read and the close test);
- `ProcessRequestCrashes` (`ProcessRequest` ends the process).

`WriteResponse` fails only when the peer has reset. With SIGPIPE's default action the process would end instead. The signal disposition is set outside the repository, so this is listed as a hazard.

A URI is named by the branch of `ProcessRequest` it takes (`UriKinds`): a static file with a `.` in its name or not found; a found static file with no `.`; a query page; and a URI holding `query?terms` with no `terms` argument. `args.at("terms")` throws on the last kind. On a dotless file name, `vals[1]` reads past the vector's end. That undefined read is modelled as either a crash or an answer.

The clients are the environment: `ClientSend`, `ClientShutdown` and `ClientReset`.

**Fairness.** Every server action is weakly fair, because the OS runs every runnable thread and a pool thread runs its task to completion. Nothing is assumed of the clients: a keep-alive client may keep its connection open and idle forever. So a connection still waiting in the queue may never get a worker. `EveryRequestAnswered` is therefore stated only for connections that have one. Stated for every client, it fails: one idle client holds the only worker. That starvation is listed as a hazard (`HttpServer.cc:60`).

`MC_HttpServer` uses two clients and one worker, so one connection's lifetime decides when the other is served. Each client sends up to two requests, which makes pipelining possible.

### `MemIndex` (model of `src/hw2/memindex.c`)

`postings[w][d]` is the number of positions of word `w` in document `d` (0 if none). `wordsets` is the set of words with a `WordDocSet`. The hash tables are functions here; the table itself is checked in `HashTable`.

`MIAddPostingList` has four outcomes:

- the posting is added;
- allocation of a new word's set fails and 0 is returned;
- an insert fails and a `Verify333` aborts;
- the word lookup returns -1 (its iterator's `malloc` failed), and the code takes the word as present (`LookupFailsTakenAsPresent`). It then dereferences `kv.value`, which was never written. That stack slot holds the previous call's `{docid, positions}`, so the process faults. This is recorded as a hazard.

`MIProcessQuery` is modelled step by step, as the code runs it:

1. The first word's docids, in `HTIterator` order.
2. For each further word, a loop of exactly `ne` iterations over the result list. A docid the word lacks is deleted at the cursor, and the `LLIteratorDelete` semantics move the cursor to the successor, or to the predecessor at the tail.
3. The trailing `SortLinkedList(..., 0)`, which yields every rank-ordered permutation.

Its allocation failures are `QueryAllocFails`. Most are followed by a `Verify333`, which aborts. A failed `malloc` of a `SearchResult` frees the list and returns NULL, the same value as "no document matches". The call is recorded with `oom` set, and `QueryMatchesReference` leaves it out. Without that exclusion, TLC finds a one-word query over one posting answered with NULL. This is recorded as a hazard (`memindex.c:187`), since spec 7 asks for an explicit failure result.

`added` is a history of accepted postings. A query records the postings accepted when it ran, and the reference (spec 4.3) is computed from them.

### `QueryProcessor` (model of `src/hw3/QueryProcessor.cc`)

Each index file is an immutable function `word -> docid -> count`, chosen in `Init`. `ProcessQuery` runs the per-file loop of the code:

1. the first word's docid list;
2. `CombineDocIDList` for every further word;
3. a word missing from the file clears that file's list;
4. `AddQueryResult` names each result `<<file, docid>>`.

The results of all files are concatenated. The final `std::sort` uses `QueryResult::operator<`, which is declared in a header outside the repository. Results are therefore compared with the reference (spec 4.6) as a bag, and their order is not modelled.

### `FileParser` (model of `BuildWordHT` in `src/hw2/fileparser.c`)

A file is a sequence over a six-byte alphabet that stands for the classes the code tells apart: a lower-case letter, an upper-case letter, space, newline, NUL, and a byte above 0x7F. `BuildWordHT` refuses an empty, NUL-holding or non-ASCII file. `LoopAndInsert` is a recursive operator over the cursor, the `parsing_a_word` flag and `wordstart`. It lowercases letters as it passes them and calls `AddToHashTable`, which appends the word's offset or inserts a new list. A table without words becomes NULL. The reference takes the maximal letter runs, case-folded, at the offset of their first letter.

### `SearchShell` (model of the query loop of `src/hw2/searchshell.c`)

`stdin` is a sequence over letters, space and newline. `ReadQuery` models one pass of the loop:

1. `fgets` with a `BufSize` buffer;
2. the token count on the copy;
3. the cut of the line's last byte;
4. the split that fills the query array;
5. the `MIProcessQuery` call, recorded with its line.

A slot the split never writes holds `Uninit`. `EndOfInput` is `fgets` returning NULL.

### `SearchShell`, continued: `filesearchshell` (`src/hw3/filesearchshell.cc`)

The constant `prog` chooses the shell. `FSReadQuery` models one pass of `filesearchshell`'s loop:

1. `getline` (`Getline`: the line up to the first newline; with no newline, the rest of the input with `eof` set);
2. the `cin.eof()` break;
3. the split on spaces with `tolower` (`FSQuery`);
4. the skip of an empty query;
5. the `ProcessQuery` call, recorded with its words.

`FSEndOfInput` is the break. `EveryLineQueried` compares the queries made by end of input with a reference built from the input's lines.

### `OnDiskHashTable` (an index file, its reader and the hw3fsck checker chain)

The writer is not in the repository. `WriteFileIndex` lays out a whole index file as spec 3 and 4.4 say:

- the 16-byte header (`HeaderFields`: magic number, checksum, `doctable_size`, `index_size`);
- a doctable region (`DocTableFields`). It is written with no elements, because `DocTableChecker::CheckElement` has no source;
- an index table of one bucket holding one word (`IndexFields`). The word element holds the word length, the docid table's length, the word's bytes and the embedded docid table (`Layout`).

`Layout` lays the docid table out from `nbuckets` and the per-bucket chains: the header, the bucket records, then each bucket's element positions and elements. Docid-table elements hold a docid and a position list.

The word element's fields follow the order `IndexTableChecker` reads them in. Spec 4.4 puts the table length after the word instead. With the spec's order, the checker reads the length out of the word's bytes and looks for the table 4 bytes early. The mutant `DocIDTableAt_SpecOrder` shows this breaks `FsckWalksWholeTable` on every file, and it is recorded as a hazard.

The file is a set of `[at, w, v]` fields. `Read` returns a field's value, `EOF` past the end of the file, or `Garbage` when the offset is not the start of a field. `Checksum` stands in for CRC32 over the bytes after the header, as a sum of the fields weighted by offset. Writer and checker compute it over the same bytes, so only its equality matters.

- `LookupElementPositions(key)` models `HashTableReader` on the embedded docid table: the bucket record of `key % num_buckets`, then the chain's element positions.
- `FileIndexChecker` models the `hw3fsck` constructor as one step. It runs these checks in the code's order:
  1. the header checks (`HeaderSizesOK` against `st_size`, the recomputed checksum);
  2. `CheckTable` (`HashTableChecker::Check`) over the doctable;
  3. `CheckTable` over the index table.
- `CheckTable` dispatches each element to its subclass (`CheckTableElement`). `IndexCheckElement` checks the word length, the element's end, the word's characters (`CheckWord`), and then runs a fresh `CheckTable` over the embedded docid table (`DocIDTableAt`). That table's elements go to `CheckElement` (`DocIDTableChecker`).
- `FlipChecksumBit` is the fault spec 8 names: one bit of the stored checksum flips before `hw3fsck` runs.

Properties of the `ondisk` run:

- `LookupFindsChain`: every lookup finds exactly the key's bucket chain.
- `FsckWalksWholeTable`: the walk reaches the word's element, finds the embedded table where the writer put it, and visits every docid element once in bucket order. No read is out of place.
- `FsckNoFalsePositives` is spec 8's "no false positives on an otherwise-valid file". It is defined but in no run. It fails whenever the docid table's bucket 0 is empty and another bucket is not. The checker compares the first chain's position with `bucket_rec[0]` (`HashTableChecker.cc:76-80`), not with the first non-empty bucket's record, and the spec writes position 0 for an empty bucket. Every run slot is taken, so this disagreement is recorded as a hazard with its two-step counterexample (`num_buckets` = 2, docid 1 alone in bucket 1). It is not a passing property: passing would hide the disagreement.
- `FsckHeaderDiagnostics`: an intact header gets no diagnostic. A flipped checksum bit gets exactly the checksum diagnostic (spec 8).

### `DocTable` (model of `src/hw2/doctable.c`)

`id2name` models `docid_to_docname`. `name2id` models `docname_to_docid`, keyed by the constant `Hash` (FNV-64). `max_id` and a history `returned` of the `<<name, docid>>` pairs that calls returned complete the state. `DTRegisterDocumentName` keeps the HashTable call results that matter:

- lookup 1, 0 or -1 (-1 is taken as absent by the code);
- insert 1, 2 or 0, each followed by its `Verify333`.

The lookups model the -1 result as reading an unwritten `kv.value`, that is, any docid or name.

## Runs

| Run | Expect | What it shows |
|---|---|---|
| `ht_core` | pass | With pair and iterator allocation failing anywhere, the properties below hold. Five keys with one initial bucket force a resize (1→9) and then collisions in the new table. |
| `http_core` | pass | With keep-alive clients sending well-formed requests, which may reset, the server satisfies `TypeOK` and `NoRequestLost` (pipelined requests are returned in order, and the unparsed bytes are exactly the rest of what was sent). The listening socket may fail to bind. One client's requests may have a space-less line or a bare header. `accept()` and the name lookups after it may fail. It also satisfies `EveryRequestAnswered`: once a connection has a worker, every request its client sends is eventually returned by `GetNextRequest` and answered, unless the client resets or the server has exited. Counting the served requests matters, because after `GetNextRequest` fails the loop still answers the stale `req`. |
| `http_close_ignored` | violation | A client that sent `Connection: close` and waits is never closed, because the loop tests the response header (finding). |
| `http_bad_request_line` | violation | A request line without a space ends the whole server (finding). |
| `memindex` | pass | Queries of up to three words over any order of postings, with allocation failures in both functions, satisfy `QueryMatchesReference` and `WordSetsNonEmpty`. `QueryMatchesReference` means exactly the documents with every word, once each, with summed ranks, and NULL when there are none. It is required of every call whose own allocations succeeded. |
| `query_processor` | pass | Over every pair of index files with two words and two docids, `QueryMatchesReference` holds: each file independently, results accumulated. |
| `fileparser_terminated` | pass | For every file of up to 5 bytes that does not end in a letter, `BuildWordHT` equals the reference word table. |
| `fileparser_last_word` | violation | The file `B` gives NULL: a word running to the end of the file is dropped (finding). |
| `searchshell_wellformed` | pass | For lines that end in a newline with no space before it, each `searchshell` query is exactly the line's words. For both shells on newline-terminated input, the queries made by end of input are the non-blank lines' words, in order, lowercased by `filesearchshell` (`EveryLineQueried`). |
| `searchshell_uninit_slots` | violation | A last line without a newline, an empty line, or a space before the newline passes unwritten query slots to `MIProcessQuery` and `free` (finding). |
| `ondisk` | pass | For one to three buckets and every chain layout of up to four docids, embedded under a word in an index file, lookups find their chain. The whole `hw3fsck` chain walks every table and element. It reports a flipped checksum bit exactly once. Its false `first_bucket_position` diagnostic is a hazard, not a checked property (see `FsckNoFalsePositives`). |
| `doctable` | pass | With inserts that may fail, the tables stay mutual inverses over `1..max_id` until an abort. Every pair returned by registration and lookups is consistent. |

In `ht_core`, the table satisfies:

- `ChainsWellFormed`: each pair is in bucket `key % num_buckets`, with no duplicate keys;
- `NumElementsExact`;
- `LoadBound`: at most 3 pairs per bucket;
- `IterationVisitsEachOnce`: delete-at-cursor iteration lands on each pair present at creation exactly once;
- `ImplementsHashMap`.

Every property of a passing run has a mutant in `PROJECT.json`: a plausible bug in the mapped definition, which TLC must catch under the same configuration. Examples:

- resizing after the insert instead of before it;
- not rehashing;
- calling `LLIteratorNext` after `LLIteratorDelete`;
- a missing word skipped instead of clearing the file's list;
- the newline not cut;
- the docid taken before `max_id` is incremented.

Findings confirmed by TLC that have no run of their own (the project is held to 12 runs) are recorded as hazards in `PROJECT.json`. Each note says how to reproduce it:

- `InsertHashTable`'s unchecked push on the replace path (`FailPoints = {"replace"}`);
- the partial table swapped in when `HTIteratorNext` fails inside `ResizeHashtable` (`"iternext"`, with `MCKeysWide`/`MCTwoBuckets`);
- the stale request answered after end of stream (`ResponsesMatchRequests`);
- `DTLookupDocumentName` dereferencing an unwritten `kv.value` after a failed lookup (`"lookup"`);
- `filesearchshell` dropping an unterminated last line (`Inputs <- MCAllByShell` with `Programs <- MCBothShells`, input `"a"`).

### Bounds

- **HashTable:** five keys with one bucket reach the resize threshold (3) and keep inserting after it. They also make the two post-resize collisions. Two values tell a replace from an insert. The `"resize"` fail point (a resize that gives up) is left out of the run. With it, the five-key model takes more than 8 minutes. With all properties but `LoadBound` it passes, because a resize that gives up leaves the load above 3 by design.
- **HTTP:** two clients and one worker are the smallest setting where one connection blocks another. Two requests per client make pipelining and a stale `req` possible. One URI kind is enough, since the rest of the server's control flow does not depend on it. A found dotless file takes both `ProcessRequest` outcomes, answer and crash. Two kinds take two minutes per run, too long for the mutant runs. The space-less line form and the `accept` fail point then fit in the run. Only one client sends the malformed shapes, because with both clients sending them the run takes 84 s instead of 14 s. One sender reaches every parse path, interleaved with the other client.
- **On-disk table:** one to three buckets with up to four docids include empty buckets first, in the middle and last, collisions, and chains of two. Two position lists of lengths 1 and 2 make elements of different sizes, so an off-by-one stride lands inside a field. One two-letter word is enough for the index table, whose walk is the same code as the docid table's. The element layout around the word is what the embedded table's offset depends on. Flipping bit 0 or bit 30 covers a small and a large change of the stored checksum.
- **MemIndex:** two words, three docids and up to two positions make an intersection that deletes at the head, in the middle and at the tail. Queries have up to three words.
- **QueryProcessor:** two files make the per-file clearing observable.
- **FileParser:** files of up to five bytes contain two words with repeats, mixed case, every separator class, and every refusal reason.
- **SearchShell:** a 5-byte buffer (so a line of two words fits) and inputs of up to six bytes include several lines, lines cut by `fgets`, empty lines and a missing final newline.
- **DocTable:** four names and five docids include re-registration, and the extra docid a failed lookup allocates.

## Plan

These are still to come, in order of importance:

1. **Crawler pipeline.** `BuildWordHT` feeding `MIAddPostingList`, so that `MemIndex` is checked over the postings real files produce.
2. **Corruption beyond the checksum.** Flipped bits in the sizes or in a table, to check that `hw3fsck` reports them rather than dying on an assert. This needs the endianness notes of `CheckerUtils`, which only print today.

## What is not modelled

- `LinkedList.c`, the thread pool, `FileReader`, `URLParser`, `CrawlFileTree` and the index writer/readers are not in the repository. Only their effect, as the spec states it, enters a model.
- Socket set-up, file reading and HTML generation are I/O or formatting. They are left out, except where a property needs the field they produce.
- FNV-64 hashes are taken as injective. A collision between two file names is listed as a hazard. A collision between two words is not listed: among a corpus's words it is out of reach in practice.
- Integer overflow of `num_buckets * 9` needs more than 4·10⁸ buckets, which no input of the program reaches. It is not modelled.
- Corrupted on-disk tables are not modelled, apart from the flipped checksum bit. The checker is checked on files the spec 4.4 writer produces. Two gaps it leaves on corrupt tables are listed as hazards: `num_buckets` is never checked against the table's length, and positions equal to the table's end pass.
- `DocTableChecker::CheckElement` is declared but has no source, so the doctable region is written empty. The checkers' endianness notes (`CheckEQ32` when `ntohl(actual)` matches, and the sizes note in `FileIndexChecker`) are output only, and `ToString` is formatting.
- `BindAndListen` is modelled by its outcome. Which address of `getaddrinfo`'s list binds does not change any state the server keeps. The address and DNS-name strings `Accept` formats are not used by the server.
- The content of a URI is not modelled: `ProcessRequest` sees only the branch a URI takes (`UriKinds`). The two branches that end the process (`HttpServer.cc:174`, `:259`) are `ProcessRequestCrashes`.
