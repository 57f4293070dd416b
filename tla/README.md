# Verification of rinha-backend-q1-2024

TLA+ modules, TLC runs and TLAPS proofs for the C API server in `src/`:
a single-threaded io_uring event loop in front of PostgreSQL, run twice behind
nginx, that keeps the balances of five clients; the stored functions it calls;
and the two vendored libraries that read what its clients send.

- [The system](#the-system)
- [What is hard, and where](#what-is-hard-and-where)
- [Modules](#modules)
- [How the model reads against the code](#how-the-model-reads-against-the-code)
- [Runs](#runs)
- [Findings](#findings)
- [Fairness](#fairness)
- [Proofs](#proofs)
- [What is not modelled](#what-is-not-modelled)
- [Plan](#plan)

## The system

| Component | State | Operations | What makes it correct |
|---|---|---|---|
| Event loop (`server.c`, `server_loop` and `push_*`) | the ring; per slot `last_event`, `buffer`, `client_fd` | one case per event of the slot a completion points at; accept, read, write, close and database-read submissions | a slot has one operation, the one `last_event` names; one accept is always pending; every peer is answered once and closed |
| Slots (`server.c`, `REQRES_POOL`) | 4096 `ReqRes`, free when `ring` is NULL | `init_reqres`, `deinit_reqres` | a slot is given back once, with nothing under way; the socket of one slot is never the socket of another |
| Pending queue (`server.c`, `first`, `last`) | a linked list of calloc'ed cells | `queu_push`, `queu_pop`, `free_queu` | no use of a freed cell; FIFO; nothing is lost |
| Connection pool (`server.c`, `DBCONNS_USED`) | 75 libpq connections and a flag each | `get_dbconn`, `release_dbconn`, used by `queu_dispatch` | a connection serves one request at a time and none leaks |
| Database access (`db.c`) | what libpq has in progress on a connection | `db_start_*` (send), `db_end_*` (wait, read, clear) | a request reads its own reply; a connection goes back idle; an error code says what happened |
| Handlers (`main.c`) | `db_request_sender`, `db_response_handler`, `db_data` of a slot | `controller`, `start_*_async`, `end_*_async` | `db_data` is used while allocated; the status answered tells the truth about the transaction |
| Parser (`request.c`) | none | `request_parser`, `parse_transacoes` | one meaning per request, numbers in range |
| Stored functions (`configs/init.pgsql`) | `clientes`, `transacoes` | `push_credito`, `push_debito`, `get_extrato` | balance = sum of transactions, never below the limit |
| SIGINT handler (`server.c`, `sigint_handler`) | whatever it finds | closes the ring and the connections, pops the queue empty, exits | ends the program, on top of any statement |
| picohttpparser (vendored) | `struct phr_chunked_decoder`; the caller's `last_len` | `phr_parse_request`, `_response`, `_headers`, `phr_decode_chunked` | the pieces a text arrives in make no difference; nothing but the protocol is accepted |
| cJSON (vendored) | items linked by `next`, `prev`, `child`; the strings they own | parse, print, minify, duplicate, compare; create, add, insert, detach, replace, delete | memory is freed once, also when an allocation fails; lists stay lists; print and parse are inverse |
| Containers (`docker-compose.yml`, `nginx.conf`) | running processes | restart: always; proxying | a restart leaves no wrong state behind |

The kernel, libpq, the PostgreSQL backends and the peers are the actors around
the process. The process itself is sequential: all the concurrency is between
its steps and what the others do in the meantime. A request travels like this:

    accept -> read -> controller -> (answer) ---------------------> write -> close
                          \-> queue -> connection -> send -> reply -/

Components share the slot (`ReqRes`) and the pool flags; the loop learns of the
kernel's progress only through completions, and a completion says nothing but
which slot it belongs to and whether it failed.

## What is hard, and where

`PROJECT.json` lists every hazard with its line and the properties that watch
it. In short: the meaning of a completion is read from mutable state
(`server.c:242`), operations fail half-way (submits, completions, lost
connections), connections and slots are recycled while the kernel and the
backends may still be using them, the queue keeps two pointers in step by hand,
and the process can die between the commit of a transaction and its answer. A
request is taken for whole after one read; the signal may come between two
statements of the queue; many sessions change the same row; the parsers trust
counts made in one pass (a length, a number of escapes, a number of bytes already
looked at) when they write in another.

## Modules

| Module | What it is |
|---|---|
| `LossyFifo` | Abstract: a FIFO that may forget what it was given, except its head. |
| `Walks` | What a loop along the links of a list meets: for the mapping of `RequestQueue` to `LossyFifo`. |
| `RequestQueue` | The linked list of `server.c`, one call a step; implements `LossyFifo`. |
| `QueueSignal` | The same list one *statement* a step, with the SIGINT handler on top; implements the calls of `RequestQueue`, and through them `LossyFifo`. |
| `Service` | Abstract: what a client of the API may rely on. |
| `Server` | One API process and everything around it; instantiates `RequestQueue` (as `Queue`) for its list and `Service` (as `Promise`) for what it should implement. |
| `MCServer` | Symmetry of the peers, and the busy start used by the liveness run. |
| `RequestQueueProofs` | The list never dangles, and is a lossy FIFO. |
| `QueueSignalProofs` | The statements implement the calls and the lossy FIFO, and the program ends cleanly outside `Torn`. |
| `ServerProofs` | Type correctness of `Server`; one operation per slot, one push per slot, soundness of the queue inside the server; ownership of connections and of answers. |
| `ServiceProofs` | Ownership of sockets, no idle connection, the server listens, nobody is left but by the queue; a transaction is applied once; `Server` implements `Service`. |
| `Ledger` | Abstract: balances and limits, one atomic call at a time. |
| `Postgres` | The functions of `init.pgsql` statement by statement in many sessions; implements `Ledger`. |
| `PostgresProofs` | `Postgres` implements `Ledger`; limits, balances, and what an extrato lists. |
| `MCPostgres` | One client with a small limit, one that does not exist, and their calls. |
| `Bytes` | Buffers and the tests on single bytes. |
| `HttpParser` | The three parsers of picohttpparser. |
| `ChunkedBody` | Reference: what a chunked body is, one byte after the other. |
| `ChunkedDecoder` | `phr_decode_chunked`. |
| `HttpStream` | A caller of both, whose bytes arrive in pieces. |
| `HttpStreamProofs` | The pieces make no difference: the heads are those of one read, the decoder follows `ChunkedBody`. |
| `MCHttpStream` | Texts for it, put together from usual and unusual parts. |
| `CJsonParser`, `CJsonPrinter` | Reading and writing JSON. |
| `CJsonItems` | Duplicating, comparing, minifying, the whole calls; over the two above. |
| `CJson` | A caller that parses, prints, parses again and copies, with memory that may run out. |
| `JsonLists` | Abstract: the children of an array are a sequence. |
| `CJsonList` | The functions that edit children, link by link and string by string; implements `JsonLists`. |
| `CJsonListProofs` | The links of the lists, who owns an item and its strings, and that the lists are sequences. |
| `DataProofs` | Least numbers, sums over finite sets, walks along links: what several modules of proofs need. |
| `MCCJsonTexts`, `MCCJson` | Documents; and one run for `CJson` and `CJsonList`, which share nothing. |
| `RequestParser` | `request_parser`, `controller` and the two senders from the bytes of a read to the call of the database, over `HttpParser` and `CJsonItems`. |
| `MCRequestParser` | Requests of every kind with what they ask for. |

    LossyFifo <- RequestQueue <- QueueSignal      Ledger <- Postgres     JsonLists <- CJsonList
                      |                                                        (implements: <-)
      Service <-   Server

          ChunkedBody <= ChunkedDecoder       (and Bytes <= ChunkedBody)
    Bytes <= HttpParser <= ChunkedDecoder <= HttpStream
      |          |
      |          +---------------------------+
      +<= CJsonParser <= CJsonPrinter <= CJsonItems <= CJson, RequestParser   (extends: <=)

The server and the parser meet in the kinds of request: `Server` takes the kind
as given, `RequestParser` computes the answer or the call from the bytes.
The server and the database meet in the reply: `Server` sees `ok`, `null` or
`error`, `Postgres` says when each is given.

Operators called `X_Something` right before `X` are mutants of `X`: the
definition as a plausible bug would have it. Each property of a passing run has
one that violates it.

## How the model reads against the code

### The server

`pc` is where the event loop is: `"down"` (no process), `"top"` (about to call
`queu_dispatch`), `"dispatch"` (inside its `while`), `"wait"` (in
`io_uring_wait_cqe`). Between two values of `pc` the process takes one step per
iteration of `queu_dispatch` and one step per completion, since nothing else of
the process runs in between; the kernel, the backends and the peers may step
anywhere.

| In the model | In the code |
|---|---|
| `pool[s]` | `REQRES_POOL[s]`; `ring` is whether the slot is taken |
| `used`, `dbconn` | `DBCONNS_USED`, the local variable of `queu_dispatch` |
| `first`, `last`, `next`, `heap` | the list of `QueueItem`; a cell is named by the slot it holds, `heap` is what is allocated |
| `sq`, `inflight`, `cq` | entries prepared but not submitted, operations in the kernel, completions not yet seen |
| `pg[d]` | libpq's state of connection `d` and the reply of its backend |
| `got[c]`, `commits[c]` | what was written to the socket of peer `c`; how often the database applied its transaction |
| `orphans` | queries whose connection is gone and that may still commit |

| Action | Code |
|---|---|
| `Boot`, `Exit`, `Crash` | `server()`; the end of `server_loop` with `sigint_handler`, or `FATAL3`; the container being killed |
| `DispatchStart` .. `DispatchFatal` | `queu_dispatch`: first `get_dbconn`; no connection; nothing queued; a sender that refuses the body; a sender that sends; `push_db_responding` ending the process |
| `OnError` | a completion with a negative result |
| `OnAccepted`, `OnAcceptedFull` | `EVENT_ACCEPTTING`: `push_reading` then `push_accepting`; no free slot |
| `OnReadAnswered`, `OnReadQueued`, `OnReadExit` | `EVENT_READING`: `controller` answers; installs a sender; `/exit` |
| `OnDbResponding` | `EVENT_DB_RESPONDING`: handler, `release_dbconn`, `push_writing` |
| `OnWritten`, `OnClosed` | `EVENT_WRITING`, `EVENT_CLOSING` |
| `CompleteX`, `CompleteError` | the kernel finishing an operation, in any order |
| `BackendRuns`, `OrphanRuns`, `CutLink`, `Connect` | a backend finishing its query; one whose connection is lost; the loss of a connection; a peer |

Decisions worth knowing when reading it:

- *Whole handlers.* `OnDbResponding` is enabled once `wait_db` would return:
  while it polls, the loop does nothing else, and neither does the model.
- *Failures that nobody notices.* `PQsendQuery` on a busy or closed connection
  changes nothing and the caller carries on, as `ret < 0` never holds for a
  result of 0. A failed submit leaves the entry in `sq` and the next successful
  one takes it along.
- *What a dead process leaves.* `Exit` takes the states of the connections at the
  end, so that a command sent just before `push_db_responding` gives up
  (`DispatchFatal`) is an orphan like those sent before.
- *Numbers that collide.* `db_get_result`, `db_end` and `end_async` go through
  the integers of `db.h`, so that the -1 of a failed `wait_db` is
  `TRANSACAO_INVALID` in the model because it is in the code.
- *Data.* A response is its status and the client it is about; a request is its
  kind, which stands for what `request_parser`, the tests of `controller` and
  `parse_transacoes` make of the text. One socket is one request, as in the
  code: every answer closes the connection.
- *`/exit`* may be written twice: once by the ring and once directly
  (`server.c:291`); both possibilities are in `OnReadExit`.

### The queue under a signal

A frame of `QueueSignal` (`main`, `handler`) is the line a call stands before and
its local variables; an action is one line of `queu_push`, `queu_pop` or
`sigint_handler`. `Signal` puts the handler's frame on top, once, before any
statement; the handler never returns to what it cut short. `server()` also calls
`sigint_handler` as a function when the loop ends, and a signal may come in the
middle of that call. Statements take effect in program order, one of the orders
a build can give them. A use of a freed cell, or closing what is closed, ends in
`"undefined"`. `settled` (history) is the list as the last completed call left it, as
long as no call was cut short: that is what has to behave like `RequestQueue`. It covers the
calls of the loop, and the pops of `free_queu` when the handler runs between two
calls. Once the signal has cut a call short `settled` does not change any more: what the
pops make of a list left half-way is the matter of `CleanExit`, not of the refinements.

`Torn` names the places where the code does not survive the signal, and
`CleanExit` says that there are no others: before `push:38` (`last` set, `first`
not: UNREACHABLE), before `pop:49` (`first` freed) and `pop:50` (`first` moved, `last`
not), and anywhere in `server()`'s own call of the handler, once
the ring is closed or while it pops.

### The database

Each statement of a function is an action of its session: `Update` (which finds
its row, and computes the CHECK), `Lock` (which waits for the session that holds
the row and then computes *again* from what that one committed, as READ COMMITTED
does), `Insert` (which may fail for want of memory or space), `Commit`, `Select`.
`PBegin` fixes `NOW()` and `LOCALTIMESTAMP`, the moment the transaction
starts. No two calls start at the same microsecond: time is a counter, and a tie in
`ORDER BY realizada_em` would have no defined order. `PCrash` empties the
UNLOGGED tables, clients included. `answered` and `knew` are history: whose answer
had been given when a call started.

`Ledger` knows an `extrato of nobody`: the SELECT of `get_extrato` gives a row also for a
client that does not exist, and `controller` passes the id 0 on (`main.c:122` asks for
`id >= 6` only).

### The parsers

Texts are sequences of bytes, numbers from 0 to 255, as the parsers look at them. A
number above 255 is a whole word that they only compare (`clientes`, `valor`,
`/transacoes`); the models of the requests use these, the models of
picohttpparser do not need any. Positions count from 1. A function that returns a
pointer or NULL returns a position or nothing; picohttpparser's results are
`Failed` (-1), `Partial` (-2) or a length.

A long function is cut where it may return: one operator for each stretch, which
passes what it has found to the next (`AfterBody`, `CheckMembers`, `Transacao` are
`parse_transacoes`; `AfterStatus`, `Message` are `parse_response`). The
loops that eat bytes are `Find`, or recursive functions of the number of turns
(`TwoNewlines`, `parse_headers`, `Loop`), so that they can be proved about; the
recursion of cJSON's parser and printer is that of recursive operators.

What the text of a head says, or whether a chunked body is well-formed, is known to a
wire and not to the parser. For a head it is `sent`, what the writer put in. For a body
it is `ChunkedBody`, a grammar that reads one byte at a time and knows nothing of
buffers, moves and calls; `WiresAssumption` makes a chunked wire agree with it.

Memory is a number of blocks: `blocks` says how many allocations succeed before
one fails, `live` counts what is allocated and not freed, `over` records a write beyond
the block it goes to. Lengths that a parser or a printer computes first and trusts
later are computed as the code does and compared when it writes.

Widths are scaled: `Id64Max`, `Int64Max` and `Int4Max` for the id's 2^64 - 1, the
amount's 2^63 - 1 and PostgreSQL's `int`, `Descricao` for 10 characters, `Padding` for
the zeros after what was read, `MaxHex` for the 16 digits of a chunk's size,
`OverheadLimit` for its 100 KB, `DefaultSize` for the printer's first 256 bytes,
`CJSON_NESTING_LIMIT` for 1000, `Latest` for the 10 transactions of an extrato.
`valuedouble` is in tenths, so that `1.5` can be told from `1`; exponents are left
out.

### cJSON's lists

`child`, `next`, `prev` are the pointers; `heap` what is allocated; `string`,
`constant`, `value`, `strings` the names and values an item owns or shares. The
caller keeps to the contract: it passes an item no list holds, or one of the list
it names. An item's `owner` and its place `pos` are history.

## Runs

| Run | Instance | Distinct states | Shows |
|---|---|---|---|
| `queue` | 4 items, the signal before any statement | 501,837 | As long as no call is cut short the statements are the calls of `RequestQueue` (`StatementsImplementCalls`) and a lossy FIFO (`StatementsImplementLossyFifo`); outside `Torn` the program ends with everything freed and closed (`CleanExit`), and it does end (`SignalEnds`). |
| `server_core` | 4 slots, 2 connections, 3 peers, `transacao` and `ping`, any reply, 1 kill | 1.4 M | `ConnExclusive`, `ReleasedIdle`, `OwnAnswer`, `Listening`, `NobodyLeftWaiting`, `NoIdleConnection`, and that `Server` implements `Service` (`KeepsPromise`) also when the process dies at any step and comes back |
| `server_faults` | 3 slots, 1 connection, 3 peers; refused bodies and `/exit`; 1 failed completion, 1 failed submit, 1 lost connection | 1.5 M | `TypeOK`, `OneOperation`, `PushedOnce`, `SocketOwnership`, `AppliedAtMostOnce`. Three slots for three peers and the accept: the pool runs out. |
| `server_live` | 4 slots, 1 connection, 3 peers already in the backlog, extratos that may fail and requests answered 400, fair | 155,184 | `Answered`: exactly one answer and a closed connection for each; `SlotsReturn` |
| `requests` | 67 requests, each cut anywhere, 0, 1, 5, 8 or 100 blocks of memory | 9,050 | `NeverMistaken`, `WholeIsUnderstood`, `AmountFits`, `BodyFreed` |
| `postgres` | 2 sessions, 4 calls, 1 crash | 153,998 | `Balanced`, `ExtratoKeepsOrder`, `ImplementsLedger`, `CallsEnd` |
| `http_stream` | texts with up to 2 unusual parts, 2 headers, 2 chunks, every way to cut | 70,366 | `TypeOK`, `OnlyWhatWasSent`, `NeverRefused`, `CompleteIsSeen`, `DataAsSent`, `EndsWhereTheBodyEnds` |
| `cjson` | documents of every kind with each allocation failing in turn; lists of up to 3 items | 27,433 | `NoLeak`, `NoOverrun`, `AsWritten`, `ReadsBack`, `CopyIsEqual`; `LinksOK`, `FreedOnce`, `ImplementsLists` |
| `lost_request` | 5 slots, 1 connection, 4 peers | | violates `NobodyLeftWaiting` |
| `crossed_answers` | 5 slots, 1 connection, 4 peers in the backlog, some with a body the sender refuses | | violates `OwnAnswer` |
| `rejected_but_applied` | 3 slots, 1 connection, 2 peers, 1 lost connection | | violates `UnprocessableMeansRejected` |
| `several_matches` | two requests in which a second pattern occurs | | violates `SeveralMatchesRefused` |

*The server.* The pools are small (1 or 2 connections for 75, 3 to 5 slots for
4096) because every rule of the code compares a pool with being empty or full. A
run needs more peers than connections for the queue to be used, `NConns + 2` for
two requests to wait at once, and one more, `NConns + 3`, to arrive after the pop of the
first of these two and be lost (finding 1). The passing runs that check that nobody is
forgotten stay at `NConns + 2` or below, and the finding shows what happens
beyond; that the queue is the only one to forget is proved (`OnlyTheQueueForgets`).
`MaxIoErrors`, `MaxSubmitErrors`, `MaxCuts` and `MaxCrashes` bound how
often each fault happens in a run; a peer sends one request.

*The queue.* Four items give lists in which `last` is one, two and more cells behind, so
that the list loses requests, which is where the handler could meet a cycle.

*The database.* Two sessions are enough for one to wait for the other; four calls for
an extrato (two rows long) after more transactions than it lists. The limit is 2, the
amounts 3 and 2, the largest integer 5: the calls reach the limit exactly, overstep it,
and overflow.

*The texts.* Two unusual parts at once: one bad part is found, whatever good one is beside it,
and two good unusual ones next to each other change what the text means (an empty
header block after a bare LF). Every text is cut in every way.
`MaxHeaders` 2 is reached by two headers and passed by three; `MaxHex` 2 by `48 49`
and passed by three digits. The budgets of 0 to 8 blocks fail each allocation of the
longest document in turn, and 100 none.

*Deadlock* is not checked (`CHECK_DEADLOCK FALSE`): when every peer has been served the
server may rest, and `NobodyLeftWaiting` says what must hold then; the database
rests when `MaxCalls` are done, the program after a signal has ended, and a text that has been
read to the end is done with. `SignalEnds`, `CallsEnd` and `Answered` say that what must
go on does.

*Symmetry* is used over the peers (`server_core`, `server_faults`, `lost_request`) and over
items and arrays (`cjson`): the code treats them alike and no definition orders them
(`MCServer!BusyInit` does, and the runs that start there use none). No run with a
liveness property uses it.

`KeepsPromise` is a safety refinement: the mapping reads `asked` from `kind`,
`applied` from `commits` and `answers` from `got`, where an answer is a success
when its status is 200 with a row. `Others` are the kinds answered without the
database. With a lost connection the refinement fails (that is
`rejected_but_applied`), which is why this run has no `CutLink`. `ImplementsLedger`
maps `clientes`, `transacoes` and `pending` to themselves and hides the statements: a push takes effect
at its commit, a refusal when the UPDATE or the lock found the balance, an extrato at its
SELECT. `ImplementsLists` maps a list to the items met along `next`. It says that each edit is
one edit of a sequence at *some* place, with the others in their order; that
the lookups (`get_array_item`, `get_object_item`) give the right place is not part of it.

## Findings

1. **`queu_pop` forgets requests** (`server.c:53`, run `lost_request`). A pop sets
   `last` to the second of the cells that are left, or to NULL when one is left,
   instead of leaving it on the final one. For `[b, c]`: the pop of `b` leaves `first = c`,
   `last = NULL`; a push of `d` while `c` still waits finds `last == NULL` and
   does not link it. `d` can never be popped, its client is never answered and its slot is
   never freed. Two requests that wait for a connection are enough, and a third that
   comes after the first of them got one: with `NConns` connections that is
   `NConns + 3` requests, counting those that hold them. A longer list loses
   one in another way: the pop of `[b, c, d, e]` leaves `last = d`, and the next push
   overwrites the link from `d` to `e`. (After a pop of `[b, c, d]` `last` is
   `d`, as it should be.)
2. **A refused body makes two requests share a connection**
   (`server.c:213-216`, run `crossed_answers`). The branch releases the
   connection and continues with it instead of taking another. A later
   request gets the same one while the first one's command is in progress; its
   own command is refused by libpq with 0, which is not noticed
   (`db.c:179`, `db.c:213`), and it reads the first one's result, or none.
3. **422 for a transaction that was applied** (`db.c:222`, run
   `rejected_but_applied`). A failed `wait_db` returns -1, the value of
   `TRANSACAO_INVALID`; `db.h` and `db.c:70` reserve it for a NULL from the
   function.
4. **Two matches are not refused** (`request.c:61`, run `several_matches`). A match
   counts as a second one when `matched_index > 0`, but the first pattern,
   `/clientes/[0-9]+/transacoes`, has index 0: any other pattern found after it takes
   its place. The patterns are searched in all that follows the method, the body
   included, so a `descricao` with `/ping` in it makes the server answer a
   transaction with 200 PONG and not apply it. The comment at that line says what
   is meant: "More than one match."

Differences met on the way that no test or comment of the repository decides, or that
the server cannot reach; the properties say what the code does:

- A signal at a `Torn` statement ends in the UNREACHABLE of `queu_pop` or frees twice.
- `phr_parse_headers` never sees an empty header block as complete when its two bytes
  come in two reads: `is_complete` asks for two line ends. A request or a response
  always has another line end before it. (`MCHttpStream!HeaderBlocks`)
- `phr_decode_chunked` refuses a body when less than a quarter of it is data; the comment
  at `picohttpparser.c:669` says 80%. (`NeverRefused`)
- `cJSON_Minify` takes the quote that ends a string for an escaped one when the last
  character is an escaped backslash (`cJSON.c:2840`). (`AsWritten`)
- `cJSON_Compare` finds an object with two members of the same name different from its copy
  when their values differ. (`CopyIsEqual`)
- `cJSON_AddItemReferenceToObject` loses the reference when the name cannot be
  copied (`cJSON.c:2081`). (`FreedOnce`)
- The id 0 passes the test for unknown clients (`main.c:122`).
- `sscanf` takes a sign (`request.c:79`) where the pattern has none, and the pattern may be found
  later in the path: `/clientes/-1/clientes/1/extrato` is a request for the client
  2^64 - 1, `/clientes/+3/clientes/1/extrato` one for client 3. (`RequestParser!ScanId`)

## Fairness

- `FairSpec` and `MCServer!BusySpec` assume weak fairness of `Boot` (restart:
  always), `QueuDispatch` and `ServerLoop` (the process is scheduled: it has no
  other thread and blocks only in `io_uring_wait_cqe`), of each sort of kernel
  completion (the kernel finishes what it was given), and of `BackendRuns` (a
  query finishes, which is `CallsEnd` of `Postgres`). Nothing is assumed of
  peers, faults and kills. There is no per-slot fairness and none is needed:
  completions are looked at in order, and each operation sort is one action over
  a finite set of slots whose operations nothing else can disable.
- `PSpec` assumes weak fairness of each session's `Step`: a backend that can run
  does. `Lock` is enabled as soon as nobody holds the row; weak fairness is enough
  because the number of calls is bounded, and so is how often it is taken away.
- `QueueSignal!Spec` assumes it of the next statement of each frame: a call that has
  begun goes on. The loop need not call anything, and the signal need not come.

## Proofs

All theorems hold for every value of the constants under the assumptions named
in the modules: pools not empty, `NULL` not a peer, slot or connection, `Kinds`
and `Outcomes` among the known ones (`PoolsAssumption`, `NoPeerAssumption`,
`KindsAssumption`, `OutcomesAssumption`; `NullAssumption` in `RequestQueue`;
`ListAssumption` and `NamesAssumption` in `CJsonList`: no item and no name is `NULL`;
in `Ledger` and `Postgres` limits between 0 and the largest integer, amounts that are
integers, moments enough for the calls, and an extrato of some length:
`LimiteAssumption`, `RequestsAssumption`, `CallsAssumption`, `LatestAssumption`; in
`HttpStream` and below sizes of at least one digit, limits that are numbers, and wires that
are sequences of bytes, chunked ones marked as `ChunkedBody` reads them and blocks of
headers not empty: `MaxHexAssumption`, `OverheadAssumption`, `MaxHeadersAssumption`,
`WiresAssumption`). No bound
on the faults is assumed, except where a
theorem of `ServiceProofs` names it (`NoIoErrors`, `Sound`).

- **`RequestQueueProofs`.** `NoDangling` is not inductive: `queu_pop` sets
  `first` and `last` from the `next` fields of cells, so these must be live too.
  `QInv` adds (`Linked`) that the successor of a live cell is NULL or live, that
  no two live cells share a successor, and that none points at the head. From it: `QueueTypes`,
  `QueueNeverDangles`.
  `Contents`, which the mapping to `LossyFifo` reads, is the one walk along `next`
  (`ContentsIs`), so that a call is described by the walk it leaves: a push that finds the
  tail in the walk cuts it behind the tail and appends (`PushWalks`, which is where
  requests are forgotten), any other push leaves the walk as it is, and a pop takes the
  head (`PopWalks`). From them: `ListIsLossyFifo`.
- **`QueueSignalProofs`.** `LineOK(r)` says how each line finds the queue, for the
  frame `r` that runs: `QInv` everywhere but between the two assignments that
  `Torn` names, where a weaker statement takes its place (`PushOK`, `PopOK`), and what
  is closed already. It is inductive on top of a call that was cut short, because a
  cell allocated but not linked, or linked but not yet `last`, leaves `QInv` true. That
  is the reason why `Torn` lists three lines and not eight. `Follows(r)` says how far the
  call has taken the queue from `settled`, so that the return is one call of
  `RequestQueue`. From them: `SignalsEndCleanly`, and, for the calls that nothing cuts
  short, `StatementsAreCalls`. `settled` then
  takes the steps of `RequestQueue`, so that `ListIsLossyFifo`, instantiated with it, gives
  `StatementsAreLossyFifo`.
- **`ServerProofs`.** `TypeInv` is `TypeOK` by owner of the variables, plus
  `HasConn` (a slot in `EVENT_DB_RESPONDING` has a connection), without which
  `release_dbconn(req->dbconn)` could not be typed. From it: `TypeCorrect`.
  `SlotInv` joins `OneOperation`, `PushedOnce`, the queue's
  `QInv` and `DownIsEmpty` (nothing of a dead process is left). The parts need each
  other: a pop gives the slot an operation, which is only sound because a
  queued slot had none; the queue's invariant survives a push only because a slot
  that has just completed a read cannot be queued. From it:
  `SlotsHaveOneOperation`, `SlotsPushedOnce`, `ServerQueueIsSound`.

  The second part is under `BodiesParse` (no body is refused; finding 2 shows
  that the assumption is needed). `ConnInv` says who owns each connection and that its
  command is the owner's: the only connections with a command or a reply
  are owned ones. `TextInv` says that every text in a buffer, from the read to
  the write, is about the client whose socket the slot holds, and that a
  completion carries what its event needs. `AnswerStep` shows both preserved, by
  the actor that steps. From them: `ConnectionsExclusive`,
  `ReleasedConnectionsAreIdle`, `ClientsGetTheirOwnAnswers`, which hold with failed
  operations, lost connections, `/exit` and kills, where the run has none.
- **`ServiceProofs`, peers.** Three invariants, each on top of `TypeInv` and `SlotInv`. `PeerInv`
  (any faults): a slot that is not listening holds the socket of one peer, which is open
  until its close is done; the socket in a completed accept is held by no slot yet;
  what a slot has read is the request of that peer. Without the completions not yet
  seen the invariant would not be inductive: a socket is the kernel's before it is a
  slot's. From it: `SocketsOwned`. `NoLeak` (any faults, refused bodies included): a
  connection marked used is that of a live slot or the dispatcher's. From it:
  `NoConnectionIdles`. `Progress`, under `NoIoErrors` (no completion fails; a slot whose
  operation failed is never used again, `server.c:245`): each slot in use has an
  operation, a completion or a place in the queue, and one listens. From all three:
  `ServerListens`, `OnlyTheQueueForgets`, and `NobodyIsLeft`, which also assumes `FewSlots`
  (`NSlots <= NConns + 2`: the list never holds a second cell). The last is no statement about the deployed sizes, 4096 and
  75: it is the exact size up to which `queu_pop` is harmless, as TLC finds a lost
  request with one slot more. `OnlyTheQueueForgets` is what holds for the deployed sizes.
- **`ServiceProofs`, answers.** `CommitInv` (any faults): a request that no backend has got is
  *fresh*, runs on one connection, is an orphan, or is done with, never two of them,
  and has not been applied in the first three cases. From it: `TransactionsAppliedOnce`.
  `PromiseInv` adds what the slots know: until the answer is written nothing was
  said to the peer, and what the buffer is about to say (`SlotTruth`) is what the
  database did. From it, step by step, `ServerImplementsService`, under `Sound`:
  bodies parse (finding 2), no connection to the database is lost (finding 3),
  and nobody asks for `/exit`, which is written twice (`server.c:291`). Failed
  operations, failed submits and kills are all in.

- **`CJsonListProofs`.** `LinksOK` for any number of arrays and items. `next` and
  `prev` that mirror each other are not enough for an induction: a ring beside the list
  would mirror too, and appending by way of `prev` of the first item could then
  write into it. `InOneRow` excludes it with the history `pos`: along `next`
  the place grows by one. `Loose` (an item outside the lists has no links) is what appending
  relies on when it leaves `next` of the new item alone. Five lemmas, one for each operator
  that writes links (append, insert, detach, replace, create); the actions are these
  operators with strings and memory around them, which `IInv` does not mention. From
  it: `LinksAlwaysOK`. `Mem` is about memory: an item with an owner is allocated, one
  that is allocated without owner is a lost reference, and `strings`, which the code
  counts call by call, is `Total`, the strings owned now. `OneItem` says how `Total`
  moves when one item comes, goes or changes its name or value; an action is one or two
  such changes (`ReplaceByNameMem`), or an array made of many items at once
  (`CreateArrayMem`, which also follows the calls that run out of memory half-way). A
  string freed twice, or copied and not freed, would leave `strings` and `Total` apart.
  From it: `EverythingFreedOnce`. `Rows` reads off the history what sequence each list
  is. By `LinksOK` no place before the last is empty (`PlacesTaken`), and walking along
  `next` gives that sequence and nothing else (`RowIsContents`; `Along` is a recursive
  function, and two such tables would have a first place where they part, `OneAlong`).
  What an edit does to the sequences then follows from what it does to the history, for
  one array (`EnterRows`, `LeaveRows`, `ReplaceRows`, `CreateRows`) and for the others
  (`OtherRows`), and each action is a step of `JsonLists` or none (`NextMaps`). From it:
  `ListsAreSequences`.

- **`DataProofs`.** The folds of the community modules take the elements of a set in
  the order `CHOOSE` gives, by a recursive function. `SumOver` is that function for
  sums. That the order does not matter (`SumWithout`) and how a sum changes with one
  element (`SumChange`) or is cut in two (`SumUnion`) is an induction over finite sets,
  done without the induction theorems: the subsets for which the fact fails would have a
  smallest one (`SmallestSet`), and without one of its elements the fact holds. In the
  same way two walks would part at a smallest place (`SmallestNumber`), so there is one
  (`OneWalk`), and `Walk` is it (`WalkIs`).

- **`PostgresProofs`.** That `Postgres` implements `Ledger`, and that no balance passes
  its limit or overflows, for any number of sessions and clients. `PInv` says what a session at each
  statement knows: which call it is in and since when (`CallOK`), that nothing is
  later than the clock (`ClockOK`), and (`RowOK`) that a session past its lock is alone
  with the row, so that what it is going to write is the balance of *now* plus its
  own amount, within the limit. Without the last part the commit would be no `Push` of
  `Ledger`: the balance could have moved since the CHECK. Each action has a lemma
  that it keeps `PInv` and is a step of `Ledger` or none. From them:
  `StatementsImplementLedger`, `LimitsHold`. The books are then kept on the steps of
  `Ledger` alone: `Booked` says that the rows on record have each a time of their own,
  which no call under way has, so that a commit adds one row that was not there and the
  sum moves by its amount (`SumAfterRow`). From it: `BooksBalance`. `Reads` is about the
  extratos: what a call knew of had ended before it began, so that no row that comes
  while its list is on the way back is one it should have listed (`ListStays`); rows are
  told apart by their times, so that there is one way to order them (`OrderExists`) and
  `Newest` picks the last ones (`NewestIs`). From it: `ExtratosAreInOrder`.

- **`HttpStreamProofs`, bodies.** `ChunksInv` (`Streamed`) says that after any number
  of calls on any pieces the decoder *stands where `ChunkedBody` does* after the same bytes:
  its state is the part that comes next, `bytes_left_in_chunk` and `_hex_count` are what is
  left of the chunk and the digits read so far, what was handed out is the data among the
  bytes, and the bytes that were neither are `_total_overhead`. `DataAsSent` alone is not
  inductive: it says nothing of where in a size or a trailer the decoder was interrupted.
  Each `case` of the loop moves the reference by the bytes it consumes (one lemma
  for each: `SizeStep`, `ExtStep`, `DataStep`, `CrlfStep`, `HeadStep`, `MiddleStep`). The
  loop stops, since each turn consumes a byte or leaves the size for the extension
  (`LoopEnds`); that is also why `Loop` takes as many turns as it does. From it
  `DecodeIs`: one call, for any decoder and any bytes. A reference that has read a
  piece and then another has read both (`StreamGoesOn`), and a body ends once
  (`EndsOnce`). From it: `DataAlwaysAsSent`, `AlwaysEndsWhereTheBodyEnds`, and the part of
  `AlwaysTypeOK` about `size_t`: what so many digits say is less than `Sizes` of them.
- **`HttpStreamProofs`, heads.** `HeadInv` says that a result is `Partial`, an error, or
  that of the whole text in one read, and that of a text that has a head it is `Partial`
  only while a byte of the head is missing, and never an error. Two facts carry it.
  `ParseSame`: a parser on the beginning of a text ends at the end of that
  beginning (`Partial`), or gives what it gives on the whole text. It goes scan by
  scan (`SearchSame`, `ScanToSame`, `LineSame`), then by lines of headers, of which
  the two parses read the same ones until the shorter text ends (`HeadersSame`).
  `HeadIs`: a head that is parsed ends with two line ends in a row, and every CR in it
  begins a line end. Hence the search of `is_complete`, which begins three bytes before what is new and so never after
  the first of those two, meets both once they are there, and no CR before them makes it
  fail (`NewlinesSeen`). From them: `AlwaysOnlyWhatWasSent`,
  `CompleteIsAlwaysSeen`, `TextsAreNeverRefused`, the head's part of `AlwaysTypeOK`.

  The first three are under `UnderstoodAtOnce`: in *one* read, a text gives what was
  written into it if it keeps to the protocol and nothing otherwise. That is a
  statement about single texts, which the run settles for its own: among the states of
  `http_stream` are those after one read of everything, in which `OnlyWhatWasSent` and
  `CompleteIsSeen` say just that. The theorems carry it over to every way of cutting. A
  block of headers that is empty is excluded by `WiresAssumption`, because
  `phr_parse_headers` does not see its end when it is cut (the list under `Findings`).

Proved and checked by a run: `TypeOK` (of `Server` and of `HttpStream`), `OneOperation`, `PushedOnce`,
`ConnExclusive`, `ReleasedIdle`, `OwnAnswer`, `SocketOwnership`, `NoIdleConnection`,
`Listening`, `NobodyLeftWaiting`, `AppliedAtMostOnce`,
`KeepsPromise`, `CleanExit`, `StatementsImplementCalls`, `StatementsImplementLossyFifo`,
`LinksOK`, `FreedOnce`, `ImplementsLists`, `ImplementsLedger`, `Balanced`,
`ExtratoKeepsOrder`, `OnlyWhatWasSent`, `NeverRefused`, `CompleteIsSeen`, `DataAsSent`,
`EndsWhereTheBodyEnds`.
Proved only: `QTypeOK`, `NoDangling`, `ImplementsLossyFifo`, `QueueIsSound`, `WithinLimit`.

Only model-checked: that texts mean what they should in one read (`UnderstoodAtOnce`, by
the texts of `http_stream`); `NeverMistaken`, `WholeIsUnderstood`, `AmountFits`, `BodyFreed` of
`requests` and `NoLeak`, `NoOverrun`, `AsWritten`, `ReadsBack`, `CopyIsEqual` of `cjson`, which
rest on the `RECURSIVE` operators of cJSON's parser and printer and are out of the
prover's reach; and liveness (`Answered`, `SlotsReturn`, `CallsEnd`, `SignalEnds`), which
the prover cannot express.

## What is not modelled

- `EINTR` from `io_uring_wait_cqe` (`server.c:235-240`): the loop calls
  `queu_dispatch` again, which changes nothing that a later turn would not.
- A full submission queue: the ring has as many entries as there are slots and a
  slot has one operation (`OneOperation`), so `io_uring_get_sqe` finds room.
- Peers that close early: the answer would be written to a closed socket, a failed
  completion like any other.
- The synchronous `db_push_transacao` and `db_get_extrato` with their helpers
  (`db.c:92-111`, `db.c:142-155`): nobody calls them.
- The test of the arguments in `main()`, the texts of the responses, logging.
- What the compiler makes of the layout of `TransacaoCliente`: whether the bytes
  after a `descricao` of 10 characters are zero (`transacao.h:9`).
- picohttpparser: `findchar_fast` (SSE4.2) and the unrolled loops are modelled
  as the plain loops they stand for.
- cJSON: exponents of numbers, `cJSON_SetValuestring` and `cJSON_SetNumberHelper`,
  `cJSON_InitHooks`, the children that `cJSON_CreateObjectReference` shares, the
  functions that only read a field. The server uses none of them.
- Ties of `realizada_em`, and the settings of `ALTER SYSTEM`
  (`init.pgsql:118-134`).
- nginx, health checks and resource limits: configuration of third-party programs. A
  request that nginx retries is a peer of its own.
- The load test and the scripts, which are clients.

## Plan

Done: `RequestQueue`, `Server` and their proofs; `QueueSignal`; `RequestParser`;
`Ledger` and `Postgres`; `HttpParser`, `ChunkedDecoder`, `HttpStream`; cJSON's texts and
lists; the proofs of the lists, their memory and their sequences, `Postgres` and its
books, the queue as a FIFO, sockets, commits and answers, and texts in pieces. Every
safety property of the queue, the server, the database, the lists and picohttpparser
that a run checks is proved.

Left:

1. `NoOverrun` of the printer: that what the second pass writes is what the first counted.
   It needs recursive functions over texts in place of the operators of `CJsonPrinter`, and
   a sum over the characters of a text.
2. `BodyFreed` and `NoLeak`: that a parse that fails frees what it allocated. The parser would
   have to be a function of the depth of the text for this.
