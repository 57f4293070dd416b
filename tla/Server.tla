------------------------------- MODULE Server -------------------------------
(***************************************************************************)
(* One API process: the single-threaded io_uring event loop of server.c,   *)
(* the handlers main.c installs in a ReqRes, the pool of ReqRes slots, the *)
(* pool of PostgreSQL connections, and what surrounds them: the kernel     *)
(* side of the ring, libpq with the backend of each connection, the peers  *)
(* that connect to the listening socket, and the container that restarts   *)
(* the process.                                                            *)
(***************************************************************************)
EXTENDS Integers, Sequences, FiniteSets

CONSTANTS
  NSlots,          \* REQRES_POOL_SIZE
  NConns,          \* DBCONNS_POOL_SIZE
  Clients,         \* the TCP connections peers open, each for one request
  Kinds,           \* the sorts of request the peers send, among AllKinds
  Outcomes,        \* how a call of a function of the database may end
  NULL,
  MaxIoErrors,     \* bound on completions with a negative result
  MaxSubmitErrors, \* bound on failed io_uring_submit calls
  MaxCuts,         \* bound on database connections lost
  MaxCrashes       \* bound on the process being killed from outside

Slots == 0 .. NSlots - 1
DBConns == 0 .. NConns - 1

\* What one read of the request amounts to: what request_parser and the tests
\* of controller() make of it and, for a POST to transacoes, whether
\* parse_transacoes will accept its body.
StaticAnswer ==
  [invalid |-> "UNPROCESSABLE", memory |-> "INTERNALERROR",
   notfound |-> "NOTFOUND", bad |-> "BADREQUEST",
   ping |-> "OK_PING", exit |-> "OK_EXIT"]
DBKinds == {"extrato", "transacao", "badbody"}
AllKinds == DOMAIN StaticAnswer \cup DBKinds

Statuses == {StaticAnswer[k] : k \in DOMAIN StaticAnswer} \cup {"OK"}
Events == {"ACCEPTTING", "READING", "WRITING", "CLOSING", "DB_RESPONDING"}
DBFuncs == {"extrato", "transacao", "none"}

ASSUME PoolsAssumption == NSlots \in Nat \ {0} /\ NConns \in Nat \ {0}
ASSUME KindsAssumption == Kinds \subseteq AllKinds
ASSUME OutcomesAssumption == Outcomes \subseteq {"ok", "null", "error"}
ASSUME NoPeerAssumption ==
  NULL \notin Clients /\ NULL \notin Slots /\ NULL \notin DBConns

VARIABLES
  pool,       \* REQRES_POOL
  used,       \* DBCONNS_USED
  dbconn,     \* the local variable of queu_dispatch
  pc,         \* where the event loop is
  first, last, next, heap,  \* the queue of requests waiting for a connection
  sq,         \* entries prepared but not taken by a successful submit
  inflight,   \* operations the kernel is working on
  cq,         \* completions not yet seen by the loop, oldest first
  pg,         \* per connection: libpq's state and the backend's reply
  backlog,    \* the peers waiting to be accepted, oldest first
  peer,       \* per client: where its TCP connection is
  kind,       \* per client: what it asked for
  got,        \* per client: the responses written to its socket
  orphans,    \* clients whose query runs on a connection nobody reads
  commits,    \* per client: how often the database applied its transaction
  faults      \* how many faults of each sort have happened

serverVars == <<pool, used, dbconn, pc>>
queueVars == <<first, last, next, heap>>
ringVars == <<sq, inflight, cq>>
dbVars == <<pg, orphans, commits>>
peerVars == <<backlog, peer, kind, got>>
vars == <<serverVars, queueVars, ringVars, dbVars, peerVars, faults>>

Queue == INSTANCE RequestQueue WITH Items <- Slots
-----------------------------------------------------------------------------
(***************************************************************************)
(* Data.  The single buffer of a ReqRes holds nothing, the request text of *)
(* a client (status "request") or a response; about is the client whose    *)
(* request produced the text.                                              *)
(***************************************************************************)
Text(status, c) == [status |-> status, about |-> c]
Buffers == [status : Statuses \cup {"empty", "request"},
            about : Clients \cup {NULL}]

\* db_data: the RequestData that controller() allocates and the sender frees.
ReqRes ==
  [ring : BOOLEAN, last_event : Events, buffer : Buffers,
   client_fd : Clients \cup {NULL},
   db_request_sender : DBFuncs, db_response_handler : DBFuncs,
   db_data : {"none", "allocated", "freed"},
   dbconn : DBConns \cup {NULL}]

\* deinit_reqres clears the whole structure; EVENT_ACCEPTTING is 0.
Zeroed ==
  [ring |-> FALSE, last_event |-> "ACCEPTTING", buffer |-> Text("empty", NULL),
   client_fd |-> NULL,
   db_request_sender |-> "none", db_response_handler |-> "none",
   db_data |-> "none", dbconn |-> NULL]

\* init_reqres followed by the assignments of push_accepting.
Accepting == [Zeroed EXCEPT !.ring = TRUE]

FreshPg == [link |-> "up", query |-> NULL, reply |-> "none"]

Pgs == [link : {"up", "cut", "closed"}, query : Clients \cup {NULL},
        reply : {"none", "ok", "null", "error"}]

Ops == [op : {"accept", "read", "write", "close", "dbread"}, slot : Slots]
Cqes == [slot : Slots, failed : BOOLEAN, fd : Clients \cup {NULL}]
Op(op, s) == [op |-> op, slot |-> s]
Cqe(s, failed, fd) == [slot |-> s, failed |-> failed, fd |-> fd]

TypeOK ==
  /\ pool \in [Slots -> ReqRes]
  /\ used \in [DBConns -> BOOLEAN]
  /\ dbconn \in DBConns \cup {NULL}
  /\ pc \in {"down", "top", "dispatch", "wait"}
  /\ first \in Slots \cup {NULL}
  /\ last \in Slots \cup {NULL}
  /\ next \in [Slots -> Slots \cup {NULL}]
  /\ heap \subseteq Slots
  /\ sq \subseteq Ops
  /\ inflight \subseteq Ops
  /\ cq \in Seq(Cqes)
  /\ pg \in [DBConns -> Pgs]
  /\ backlog \in Seq(Clients)
  /\ peer \in [Clients -> {"idle", "backlog", "open", "closed"}]
  /\ kind \in [Clients -> Kinds \cup {"none"}]
  /\ got \in [Clients -> Seq(Buffers)]
  /\ orphans \subseteq Clients
  /\ commits \in [Clients -> Nat]
  /\ faults \in [io : Nat, submit : Nat, cut : Nat, crash : Nat]

Init ==
  /\ pool = [s \in Slots |-> Zeroed]
  /\ used = [d \in DBConns |-> FALSE]
  /\ dbconn = NULL
  /\ pc = "down"
  /\ Queue!QInit
  /\ sq = {} /\ inflight = {} /\ cq = <<>>
  /\ pg = [d \in DBConns |-> FreshPg]
  /\ backlog = <<>>
  /\ peer = [c \in Clients |-> "idle"]
  /\ kind = [c \in Clients |-> "none"]
  /\ got = [c \in Clients |-> <<>>]
  /\ orphans = {}
  /\ commits = [c \in Clients |-> 0]
  /\ faults = [io |-> 0, submit |-> 0, cut |-> 0, crash |-> 0]

-----------------------------------------------------------------------------
(***************************************************************************)
(* The process.                                                            *)
(***************************************************************************)

\* server(): connect the pool, listen, set the ring up, push the first accept.
\* A start that fails exits and is a start the container tries again.
Boot ==
  /\ pc = "down"
  /\ pool' = [pool EXCEPT ![0] = Accepting]
  /\ inflight' = {Op("accept", 0)}
  /\ pc' = "top"
  /\ UNCHANGED <<used, dbconn, queueVars, sq, cq, dbVars, peerVars, faults>>

\* The clients whose query a backend has received and not finished, when the
\* connections are in the states links.
Running(links) ==
  {c \in Clients : \E d \in DBConns :
     links[d].link = "up" /\ links[d].query = c /\ links[d].reply = "none"}

\* The end of the process, whatever ended it: its memory and its ring are
\* gone, its sockets are closed, and a query already sent is left to the
\* backend, which will not find anybody to answer.  answered and links are the
\* responses written and the states of the connections at that moment.
Exit(answered, links) ==
  /\ pc' = "down"
  /\ pool' = [s \in Slots |-> Zeroed]
  /\ used' = [d \in DBConns |-> FALSE]
  /\ dbconn' = NULL
  /\ first' = NULL /\ last' = NULL
  /\ next' = [s \in Slots |-> NULL] /\ heap' = {}
  /\ sq' = {} /\ inflight' = {} /\ cq' = <<>>
  /\ pg' = [d \in DBConns |-> FreshPg]
  /\ orphans' = orphans \cup Running(links)
  /\ backlog' = <<>>
  /\ peer' = [c \in Clients |-> IF peer[c] = "idle" THEN "idle" ELSE "closed"]
  /\ got' = answered
  /\ UNCHANGED <<kind, commits>>

\* Killed from outside: out of its memory limit, or the container stopped.
Crash ==
  /\ pc # "down"
  /\ faults.crash < MaxCrashes
  /\ faults' = [faults EXCEPT !.crash = @ + 1]
  /\ Exit(got, pg)
-----------------------------------------------------------------------------
(***************************************************************************)
(* io_uring, seen from the loop.  A submit that fails leaves the prepared  *)
(* entries in the submission queue; the next submit takes them along.      *)
(***************************************************************************)
Submitted(ops) ==
  /\ inflight' = inflight \cup sq \cup ops
  /\ sq' = {}
  /\ UNCHANGED faults

SubmitFailed == faults.submit < MaxSubmitErrors
                /\ faults' = [faults EXCEPT !.submit = @ + 1]

NotSubmitted(ops) ==
  /\ SubmitFailed
  /\ sq' = sq \cup ops
  /\ UNCHANGED inflight

Submit(op) == Submitted({op}) \/ NotSubmitted({op})

\* push_writing on a slot whose buffer was just given the text t.
Writing(r, t) == [r EXCEPT !.last_event = "WRITING", !.buffer = t]
-----------------------------------------------------------------------------
(***************************************************************************)
(* The pool of database connections and libpq.                             *)
(***************************************************************************)
Least(d, free) == d \in free /\ \A e \in free : d <= e

\* Mutant of get_dbconn: the search runs one past the end of the pool.
get_dbconn_PastEnd ==
  \E d \in DBConns \cup {NConns} :
    /\ Least(d, {e \in DBConns : ~ used[e]} \cup {NConns})
    /\ dbconn' = d
    /\ used' = [used EXCEPT ![d] = TRUE]

\* Mutant of get_dbconn: the connection is not marked as used.
get_dbconn_NoMark ==
  LET free == {d \in DBConns : ~ used[d]}
  IN  /\ dbconn' = IF free = {} THEN NULL ELSE CHOOSE d \in free : Least(d, free)
      /\ UNCHANGED used

\* get_dbconn, whose result goes to the variable dbconn.
get_dbconn ==
  LET free == {d \in DBConns : ~ used[d]}
  IN  \/ /\ free = {}
         /\ dbconn' = NULL
         /\ UNCHANGED used
      \/ \E d \in free :
           /\ Least(d, free)
           /\ dbconn' = d
           /\ used' = [used EXCEPT ![d] = TRUE]

release_dbconn(d) == used' = [used EXCEPT ![d] = FALSE]

\* PQsendQuery: refused, with result 0, on a closed connection and while
\* another command is in progress.  db_start_extrato and db_start_transacao
\* test for a negative result, so the caller never learns of it.
Sent(d, c) == IF pg[d].link # "closed" /\ pg[d].query = NULL
              THEN [pg EXCEPT ![d].query = c] ELSE pg

PQsendQuery(d, c) == pg' = Sent(d, c)

\* The result of wait_db and PQgetResult on connection d for the handler of a
\* slot: "fail" when PQconsumeInput fails, "nothing" when no command is in
\* progress, otherwise the reply of the backend, whoever sent the command.
\* While a command is in progress and its reply is not there, wait_db polls.
Result(d) ==
  CASE pg[d].link = "closed" -> "fail"
    [] pg[d].link # "closed" /\ pg[d].reply # "none" -> pg[d].reply
    [] pg[d].link = "cut" /\ pg[d].reply = "none" -> "fail"
    [] pg[d].link = "up" /\ pg[d].query = NULL -> "nothing"
    [] OTHER -> "polling"

\* TransacaoError (db.h).
TRANSACAO_INVALID == -1
TRANSACAO_DB_ERROR == -2

\* Mutant of db_get_result: a NULL from the database is not told from a row.
db_get_result_NoNullTest(handler, r) ==
  IF r \in {"ok", "null"} THEN 1 ELSE TRANSACAO_DB_ERROR

\* db_get_result_transacao and db_get_result_extrato on the result r: the bytes
\* copied from its row (1 stands for any number), or an error.
db_get_result(handler, r) ==
  CASE r = "ok" -> 1
    [] r # "ok" /\ handler = "extrato" -> -1
    [] r = "null" /\ handler # "extrato" -> TRANSACAO_INVALID
    [] OTHER -> TRANSACAO_DB_ERROR

\* db_end_transacao and db_end_extrato.
db_end(handler, r) == IF r = "fail" THEN -1 ELSE db_get_result(handler, r)

\* end_transacao_async and end_extrato_async: the response to client c when the
\* result of the connection is r.  Its text is about client q, whose command
\* the result answers, or about c when there is no result.
end_async(handler, r, c, q) ==
  LET n == db_end(handler, r)
      status == IF n >= 0 THEN "OK"
                ELSE IF handler = "transacao" /\ n = TRANSACAO_INVALID
                     THEN "UNPROCESSABLE" ELSE "INTERNALERROR"
  IN  Text(status, IF r \in {"ok", "null", "error"} THEN q ELSE c)

\* Mutant of Cleared: the end of the command is not read.
Cleared_OneResult(d) == [pg[d] EXCEPT !.reply = "none"]

\* clear_dbconn reads every result, so the connection is idle again; after a
\* failed read libpq has closed the socket and the handler returned early.
Cleared(d) == IF Result(d) = "fail" THEN [FreshPg EXCEPT !.link = "closed"]
              ELSE [pg[d] EXCEPT !.query = NULL, !.reply = "none"]
-----------------------------------------------------------------------------
(***************************************************************************)
(* queu_dispatch, one iteration of its loop per step.                      *)
(***************************************************************************)
DispatchStart ==
  /\ pc = "top"
  /\ get_dbconn
  /\ pc' = "dispatch"
  /\ UNCHANGED <<pool, queueVars, ringVars, dbVars, peerVars, faults>>

\* No connection is free: whatever is queued waits for the next event.
DispatchNoConn ==
  /\ pc = "dispatch"
  /\ dbconn = NULL
  /\ pc' = "wait"
  /\ UNCHANGED <<pool, used, dbconn, queueVars, ringVars, dbVars, peerVars, faults>>

\* Mutant of DispatchEmpty: the connection is not given back.
DispatchEmpty_NoRelease ==
  /\ pc = "dispatch"
  /\ dbconn # NULL
  /\ first = NULL
  /\ dbconn' = NULL
  /\ pc' = "wait"
  /\ UNCHANGED <<pool, used, queueVars, ringVars, dbVars, peerVars, faults>>

\* Nothing is queued: the connection goes back to the pool.
DispatchEmpty ==
  /\ pc = "dispatch"
  /\ dbconn # NULL
  /\ first = NULL
  /\ release_dbconn(dbconn)
  /\ dbconn' = NULL
  /\ pc' = "wait"
  /\ UNCHANGED <<pool, queueVars, ringVars, dbVars, peerVars, faults>>

\* Whether the sender of slot s will refuse the body of its request.
BadBody(s) ==
  /\ pool[s].db_request_sender = "transacao"
  /\ kind[pool[s].buffer.about] = "badbody"

\* start_transacao_async refuses the body and installs no handler.  The
\* connection is released and the loop CONTINUES with it.
DispatchRefuse ==
  /\ pc = "dispatch"
  /\ dbconn # NULL
  /\ \E s \in Slots :
       /\ Queue!queu_pop(s)
       /\ BadBody(s)
       /\ pool' = [pool EXCEPT ![s] =
                     Writing([@ EXCEPT !.dbconn = dbconn, !.db_data = "freed"],
                             Text("UNPROCESSABLE", pool[s].buffer.about))]
       /\ release_dbconn(dbconn)
       /\ Submit(Op("write", s))
  /\ UNCHANGED <<dbconn, pc, cq, dbVars, peerVars>>

\* Mutant of DispatchSend: the loop goes on with the connection just used.
DispatchSend_SameConn ==
  /\ pc = "dispatch"
  /\ dbconn # NULL
  /\ \E s \in Slots :
       /\ Queue!queu_pop(s)
       /\ PQsendQuery(dbconn, pool[s].buffer.about)
       /\ pool' = [pool EXCEPT ![s].dbconn = dbconn, ![s].db_data = "freed",
                   ![s].db_response_handler = pool[s].db_request_sender,
                   ![s].last_event = "DB_RESPONDING"]
       /\ Submitted({Op("dbread", s)})
  /\ UNCHANGED <<used, dbconn, pc, cq, orphans, commits, peerVars>>

\* The sender sends its command (or fails to, unnoticed) and installs its
\* handler; the slot then waits for the socket and the loop takes the next
\* connection.
DispatchSend ==
  /\ pc = "dispatch"
  /\ dbconn # NULL
  /\ \E s \in Slots :
       /\ Queue!queu_pop(s)
       /\ ~ BadBody(s)
       /\ pg[dbconn].link # "closed"
       /\ PQsendQuery(dbconn, pool[s].buffer.about)
       /\ pool' = [pool EXCEPT ![s] =
                     [@ EXCEPT !.dbconn = dbconn, !.db_data = "freed",
                               !.db_response_handler = pool[s].db_request_sender,
                               !.last_event = "DB_RESPONDING"]]
       /\ Submitted({Op("dbread", s)})
       /\ get_dbconn
  /\ UNCHANGED <<pc, cq, orphans, commits, peerVars>>

\* push_db_responding ends the process when libpq has no socket for the
\* connection, and when the submit fails; by then the sender has run, and the
\* backend may have its command.
DispatchFatal ==
  /\ pc = "dispatch"
  /\ dbconn # NULL
  /\ first # NULL
  /\ ~ BadBody(first)
  /\ \/ pg[dbconn].link = "closed" /\ UNCHANGED faults
     \/ pg[dbconn].link # "closed" /\ SubmitFailed
  /\ Exit(got, Sent(dbconn, pool[first].buffer.about))

QueuDispatch ==
  \/ DispatchStart \/ DispatchNoConn \/ DispatchEmpty
  \/ DispatchRefuse \/ DispatchSend \/ DispatchFatal
-----------------------------------------------------------------------------
(***************************************************************************)
(* server_loop: one completion, from the switch to io_uring_cqe_seen.      *)
(***************************************************************************)

\* Mutant of Seen: no queu_dispatch after the answer of the database.
Seen_NoDispatch(s, e) ==
  /\ pc = "wait"
  /\ cq # <<>>
  /\ s = Head(cq).slot
  /\ ~ Head(cq).failed
  /\ pool[s].last_event = e
  /\ pc' = IF e = "DB_RESPONDING" THEN "wait" ELSE "top"
  /\ cq' = Tail(cq)

\* The loop looks at the oldest completion, of slot s, with no error, and
\* finds the slot in event e.
Seen(s, e) ==
  /\ pc = "wait"
  /\ cq # <<>>
  /\ s = Head(cq).slot
  /\ ~ Head(cq).failed
  /\ pool[s].last_event = e
  /\ pc' = "top"
  /\ cq' = Tail(cq)

\* A negative result is logged and the completion dropped; nobody looks at
\* the slot again.
OnError ==
  /\ pc = "wait"
  /\ cq # <<>>
  /\ Head(cq).failed
  /\ pc' = "top"
  /\ cq' = Tail(cq)
  /\ UNCHANGED <<pool, used, dbconn, queueVars, sq, inflight, dbVars, peerVars, faults>>

FreeSlots == {t \in Slots : ~ pool[t].ring}

\* Mutant of OnAccepted: no new accept is pushed.
OnAccepted_NoAccept ==
  /\ \E s \in Slots :
       /\ Seen(s, "ACCEPTTING")
       /\ pool' = [pool EXCEPT ![s].client_fd = Head(cq).fd, ![s].last_event = "READING"]
       /\ Submit(Op("read", s))
  /\ UNCHANGED <<used, dbconn, queueVars, dbVars, peerVars>>

\* push_reading, then push_accepting on the first free slot.
OnAccepted ==
  /\ \E s, t \in Slots :
       LET r == Op("read", s)
           a == Op("accept", t)
       IN  /\ Seen(s, "ACCEPTTING")
           /\ Least(t, FreeSlots)
           /\ pool' = [pool EXCEPT
                ![s] = [@ EXCEPT !.client_fd = Head(cq).fd, !.last_event = "READING"],
                ![t] = Accepting]
           /\ \/ Submitted({r, a})
              \/ NotSubmitted({r, a})
              \/ SubmitFailed /\ inflight' = inflight \cup sq \cup {r} /\ sq' = {a}
  /\ UNCHANGED <<used, dbconn, queueVars, dbVars, peerVars>>

\* push_accepting ends the process when every slot is taken.
OnAcceptedFull ==
  /\ pc = "wait"
  /\ cq # <<>>
  /\ ~ Head(cq).failed
  /\ pool[Head(cq).slot].last_event = "ACCEPTTING"
  /\ FreeSlots = {}
  /\ Exit(got, pg)
  /\ UNCHANGED faults

\* The request that slot s has read.
Request(s) == kind[pool[s].buffer.about]

\* controller() answers by itself.
OnReadAnswered ==
  /\ \E s \in Slots :
       /\ Seen(s, "READING")
       /\ Request(s) \in DOMAIN StaticAnswer \ {"exit"}
       /\ pool' = [pool EXCEPT ![s] =
                     Writing(@, Text(StaticAnswer[Request(s)], @.buffer.about))]
       /\ Submit(Op("write", s))
  /\ UNCHANGED <<used, dbconn, queueVars, dbVars, peerVars>>

\* Mutant of OnReadQueued: the request is queued and answered too.
OnReadQueued_NoElse ==
  /\ \E s \in Slots :
       /\ Seen(s, "READING")
       /\ Request(s) \in DBKinds
       /\ pool' = [pool EXCEPT ![s].db_data = "allocated",
                   ![s].db_request_sender = "transacao", ![s].last_event = "WRITING"]
       /\ Queue!queu_push(s)
       /\ Submit(Op("write", s))
  /\ UNCHANGED <<used, dbconn, dbVars, peerVars>>

\* controller() installs a sender; the request waits for a connection.
OnReadQueued ==
  /\ \E s \in Slots :
       /\ Seen(s, "READING")
       /\ Request(s) \in DBKinds
       /\ pool' = [pool EXCEPT ![s] = [@ EXCEPT
                     !.db_data = "allocated",
                     !.db_request_sender =
                        IF Request(s) = "extrato" THEN "extrato" ELSE "transacao"]]
       /\ Queue!queu_push(s)
  /\ UNCHANGED <<used, dbconn, sq, inflight, dbVars, peerVars, faults>>

\* /exit: the answer is pushed to the ring and written to the socket as well,
\* then every socket is closed and the process ends.
OnReadExit ==
  /\ \E s \in Slots, copies \in {1, 2} :
       /\ pc = "wait"
       /\ cq # <<>>
       /\ s = Head(cq).slot
       /\ ~ Head(cq).failed
       /\ pool[s].last_event = "READING"
       /\ Request(s) = "exit"
       /\ LET c == pool[s].buffer.about
          IN  Exit([got EXCEPT ![c] = @ \o [i \in 1 .. copies |-> Text("OK_EXIT", c)]], pg)
  /\ UNCHANGED faults

\* Mutant of OnDbResponding: a lost connection is opened again and the request
\* that was on it goes back to the queue.
OnDbResponding_Retry ==
  /\ \E s \in Slots :
       LET d == pool[s].dbconn
       IN  /\ Seen(s, "DB_RESPONDING")
           /\ Result(d) = "fail"
           /\ pool' = [pool EXCEPT ![s].last_event = "READING", ![s].db_data = "allocated"]
           /\ pg' = [pg EXCEPT ![d] = FreshPg]
           /\ release_dbconn(d)
           /\ Queue!queu_push(s)
  /\ UNCHANGED <<dbconn, sq, inflight, orphans, commits, peerVars, faults>>

\* The handler runs to its end inside this completion: while wait_db polls,
\* no other completion is looked at.
OnDbResponding ==
  /\ \E s \in Slots :
       LET d == pool[s].dbconn
       IN  /\ Seen(s, "DB_RESPONDING")
           /\ Result(d) # "polling"
           /\ pool' = [pool EXCEPT ![s] = Writing(@,
                end_async(@.db_response_handler, Result(d), @.client_fd, pg[d].query))]
           /\ pg' = [pg EXCEPT ![d] = Cleared(d)]
           /\ release_dbconn(d)
           /\ Submit(Op("write", s))
  /\ UNCHANGED <<dbconn, queueVars, orphans, commits, peerVars>>

\* Mutant of OnWritten: the slot is given back when its close is pushed.
OnWritten_EarlyDeinit ==
  /\ \E s \in Slots :
       /\ Seen(s, "WRITING")
       /\ pool' = [pool EXCEPT ![s] = Zeroed]
       /\ Submit(Op("close", s))
  /\ UNCHANGED <<used, dbconn, queueVars, dbVars, peerVars>>

\* Mutant of OnWritten: last_event is not moved on.
OnWritten_NoEvent ==
  /\ \E s \in Slots :
       /\ Seen(s, "WRITING")
       /\ UNCHANGED pool
       /\ Submit(Op("close", s))
  /\ UNCHANGED <<used, dbconn, queueVars, dbVars, peerVars>>

\* push_close_connection.
OnWritten ==
  /\ \E s \in Slots :
       /\ Seen(s, "WRITING")
       /\ pool' = [pool EXCEPT ![s].last_event = "CLOSING"]
       /\ Submit(Op("close", s))
  /\ UNCHANGED <<used, dbconn, queueVars, dbVars, peerVars>>

\* Mutant of OnClosed: the slot is not cleared.
OnClosed_NoDeinit ==
  /\ \E s \in Slots : Seen(s, "CLOSING")
  /\ UNCHANGED <<pool, used, dbconn, queueVars, sq, inflight, dbVars, peerVars, faults>>

\* deinit_reqres.
OnClosed ==
  /\ \E s \in Slots :
       /\ Seen(s, "CLOSING")
       /\ pool' = [pool EXCEPT ![s] = Zeroed]
  /\ UNCHANGED <<used, dbconn, queueVars, sq, inflight, dbVars, peerVars, faults>>

ServerLoop ==
  \/ OnError \/ OnAccepted \/ OnAcceptedFull \/ OnReadAnswered \/ OnReadQueued
  \/ OnReadExit \/ OnDbResponding \/ OnWritten \/ OnClosed
-----------------------------------------------------------------------------
(***************************************************************************)
(* The kernel performs the submitted operations in any order, at any time. *)
(***************************************************************************)
Complete(o, cqe) == /\ inflight' = inflight \ {o}
                    /\ cq' = Append(cq, cqe)

CompleteAccept ==
  /\ backlog # <<>>
  /\ backlog' = Tail(backlog)
  /\ peer' = [peer EXCEPT ![Head(backlog)] = "open"]
  /\ \E o \in inflight :
       /\ o.op = "accept"
       /\ Complete(o, Cqe(o.slot, FALSE, Head(backlog)))
  /\ UNCHANGED <<serverVars, queueVars, sq, dbVars, kind, got, faults>>

\* The text the peer has sent lands in the buffer of the slot.
CompleteRead ==
  /\ \E o \in inflight :
       LET c == pool[o.slot].client_fd
       IN  /\ o.op = "read"
           /\ pool' = [pool EXCEPT ![o.slot].buffer = Text("request", c)]
           /\ Complete(o, Cqe(o.slot, FALSE, NULL))
  /\ UNCHANGED <<used, dbconn, pc, queueVars, sq, dbVars, peerVars, faults>>

CompleteWrite ==
  /\ \E o \in inflight :
       /\ o.op = "write"
       /\ got' = [got EXCEPT ![pool[o.slot].client_fd] = Append(@, pool[o.slot].buffer)]
       /\ Complete(o, Cqe(o.slot, FALSE, NULL))
  /\ UNCHANGED <<serverVars, queueVars, sq, dbVars, backlog, peer, kind, faults>>

CompleteClose ==
  /\ \E o \in inflight :
       /\ o.op = "close"
       /\ peer' = [peer EXCEPT ![pool[o.slot].client_fd] = "closed"]
       /\ Complete(o, Cqe(o.slot, FALSE, NULL))
  /\ UNCHANGED <<serverVars, queueVars, sq, dbVars, backlog, kind, got, faults>>

\* A read of no bytes returns at once, whether or not the backend answered.
CompleteDbRead ==
  /\ \E o \in inflight :
       /\ o.op = "dbread"
       /\ Complete(o, Cqe(o.slot, FALSE, NULL))
  /\ UNCHANGED <<serverVars, queueVars, sq, dbVars, peerVars, faults>>

CompleteError ==
  /\ faults.io < MaxIoErrors
  /\ \E o \in inflight : Complete(o, Cqe(o.slot, TRUE, NULL))
  /\ faults' = [faults EXCEPT !.io = @ + 1]
  /\ UNCHANGED <<serverVars, queueVars, sq, dbVars, peerVars>>

Kernel ==
  \/ CompleteAccept \/ CompleteRead \/ CompleteWrite \/ CompleteClose
  \/ CompleteDbRead \/ CompleteError
-----------------------------------------------------------------------------
(***************************************************************************)
(* The database and the peers.                                             *)
(***************************************************************************)

\* What the function called for client c may reply, and what it leaves behind:
\* any call may fail (db.c:114), get_extrato never returns NULL, and a
\* transaction that returns a row has changed the balance.
Replies(c) == IF kind[c] = "extrato" THEN {"ok"} \cup (Outcomes \ {"null"}) ELSE Outcomes

Applied(c, r) ==
  commits' = IF r = "ok" /\ kind[c] # "extrato"
             THEN [commits EXCEPT ![c] = @ + 1] ELSE commits

BackendRuns ==
  /\ \E d \in DBConns :
       /\ pg[d].link = "up"
       /\ pg[d].query # NULL
       /\ pg[d].reply = "none"
       /\ \E r \in Replies(pg[d].query) :
            /\ pg' = [pg EXCEPT ![d].reply = r]
            /\ Applied(pg[d].query, r)
  /\ UNCHANGED <<serverVars, queueVars, ringVars, orphans, peerVars, faults>>

\* A query whose connection is lost may still run to its commit.
OrphanRuns ==
  /\ \E c \in orphans :
       /\ orphans' = orphans \ {c}
       /\ \E r \in Replies(c) : Applied(c, r)
  /\ UNCHANGED <<serverVars, queueVars, ringVars, pg, peerVars, faults>>

\* The connection is lost; a reply already sent may be lost with it.
CutLink ==
  /\ faults.cut < MaxCuts
  /\ faults' = [faults EXCEPT !.cut = @ + 1]
  /\ \E d \in DBConns :
       /\ pg[d].link = "up"
       /\ \E r \in {pg[d].reply, "none"} :
            pg' = [pg EXCEPT ![d].link = "cut", ![d].reply = r]
       /\ orphans' = IF pg[d].reply = "none" THEN orphans \cup ({pg[d].query} \ {NULL})
                     ELSE orphans
  /\ UNCHANGED <<serverVars, queueVars, ringVars, commits, peerVars>>

Connect ==
  /\ pc # "down"
  /\ \E c \in Clients, k \in Kinds :
       /\ peer[c] = "idle"
       /\ peer' = [peer EXCEPT ![c] = "backlog"]
       /\ backlog' = Append(backlog, c)
       /\ kind' = [kind EXCEPT ![c] = k]
  /\ UNCHANGED <<serverVars, queueVars, ringVars, dbVars, got, faults>>

World == BackendRuns \/ OrphanRuns \/ CutLink \/ Connect
-----------------------------------------------------------------------------
Next == Boot \/ Crash \/ QueuDispatch \/ ServerLoop \/ Kernel \/ World

Spec == Init /\ [][Next]_vars

(***************************************************************************)
(* The process is scheduled, the kernel completes what it was given, a     *)
(* backend finishes its query, and the container restarts the process      *)
(* (docker-compose.yml, restart: always).  Peers are free not to come.     *)
(***************************************************************************)
Fairness ==
  /\ WF_vars(Boot)
  /\ WF_vars(QueuDispatch)
  /\ WF_vars(ServerLoop)
  /\ WF_vars(CompleteAccept) /\ WF_vars(CompleteRead) /\ WF_vars(CompleteWrite)
  /\ WF_vars(CompleteClose) /\ WF_vars(CompleteDbRead)
  /\ WF_vars(BackendRuns)

FairSpec == Spec /\ Fairness
-----------------------------------------------------------------------------
(***************************************************************************)
(* Properties.                                                             *)
(***************************************************************************)

\* The operation a slot waits for in each event.
OpOf ==
  [ACCEPTTING |-> "accept", READING |-> "read", WRITING |-> "write",
   CLOSING |-> "close", DB_RESPONDING |-> "dbread"]

Completed(s) == \E i \in DOMAIN cq : cq[i].slot = s
Waiting(s) == Completed(s) \/ \E o \in sq \cup inflight : o.slot = s

\* The loop keeps no table of operations: it finds what a completion means in
\* last_event of the slot that user_data points at (server.c:242-248).  So a
\* slot never has two operations under way, prepared, in flight or completed;
\* the one it has is the one last_event names; and no operation is left on a
\* slot that deinit_reqres gave back.
OneOperation ==
  /\ sq \cap inflight = {}
  /\ \A o, p \in sq \cup inflight : o.slot = p.slot => o = p
  /\ \A i, j \in DOMAIN cq : cq[i].slot = cq[j].slot => i = j
  /\ \A o \in sq \cup inflight :
       /\ pool[o.slot].ring
       /\ o.op = OpOf[pool[o.slot].last_event]
       /\ ~ Completed(o.slot)
  /\ \A i \in DOMAIN cq : pool[cq[i].slot].ring

\* A request in the pending queue has been read, waits for nothing else, knows
\* its sender, and its RequestData is allocated and not yet freed: the sender
\* of main.c copies and frees it without a check.  A slot is never pushed a
\* second time while its cell is in the list.
PushedOnce ==
  \A s \in heap :
    /\ pool[s].ring
    /\ pool[s].last_event = "READING"
    /\ pool[s].db_request_sender # "none"
    /\ pool[s].db_data = "allocated"
    /\ ~ Waiting(s)

\* The test of server.c:29 and server.c:42 (UNREACHABLE) never fires, and the
\* head and the tail of the list are live cells whenever the loop uses them.
QueueIsSound == Queue!NoDangling

\* Two live slots never hold the same socket, and a slot holds its socket open
\* until its close is done: the kernel gives a descriptor to a new peer only
\* after that, so no write and no close reaches another peer's connection.
SocketOwnership ==
  \A s, t \in Slots :
    /\ pool[s].client_fd # NULL /\ pool[s].client_fd = pool[t].client_fd => s = t
    /\ pool[s].client_fd # NULL /\ pool[s].last_event # "CLOSING"
         => peer[pool[s].client_fd] = "open"

\* No wake-up is missed: when the loop goes to sleep, a request is left in the
\* queue only if every database connection is taken.
NoIdleConnection ==
  pc = "wait" /\ first # NULL => \A d \in DBConns : used[d]

\* A transaction is applied at most once, also when the process that sent it
\* dies or loses its connection and its clients get no answer.
AppliedAtMostOnce == \A c \in Clients : commits[c] <= 1

Owners(d) == {s \in Slots : pool[s].last_event = "DB_RESPONDING" /\ pool[s].dbconn = d}

\* A database connection belongs to at most one request, or to queu_dispatch,
\* and DBCONNS_USED says so exactly: none is shared and none leaks.  (Not so
\* when a sender refuses a body.)
ConnExclusive ==
  \A d \in DBConns :
    /\ \A s, t \in Owners(d) : s = t
    /\ dbconn = d => Owners(d) = {}
    /\ used[d] <=> dbconn = d \/ Owners(d) # {}

\* Every answer a client receives was made from its own request.
OwnAnswer == \A c \in Clients : \A i \in DOMAIN got[c] : got[c][i].about = c

\* 422 means that the transaction was rejected, so it has changed no balance.
UnprocessableMeansRejected ==
  \A c \in Clients : \A i \in DOMAIN got[c] :
    got[c][i].status = "UNPROCESSABLE" => commits[c] = 0

\* While the process runs, one slot, and only one, is waiting for the next peer:
\* a server that serves stays reachable.  (Not so once a completion has failed.)
Listening ==
  pc # "down" =>
    \E s \in Slots : /\ Waiting(s)
                     /\ \A t \in Slots : pool[t].ring /\ pool[t].last_event = "ACCEPTTING" <=> t = s

\* Nothing is under way: the loop sleeps, and only a new peer can wake it up.
AtRest ==
  /\ pc = "wait"
  /\ cq = <<>> /\ sq = {} /\ backlog = <<>>
  /\ \A o \in inflight : o.op = "accept"

\* When the server comes to rest nobody is left behind: no peer holds an open
\* connection for an answer that nothing will ever produce.
NobodyLeftWaiting == AtRest => \A c \in Clients : peer[c] # "open"

\* Whoever is left behind is in a cell of the queue that no pop will find: none
\* is lost in a slot, on a connection or on a missed wake-up (server.c:53 is the
\* one place that forgets a request).
LeftAreForgotten ==
  AtRest => /\ first = NULL
            /\ \A c \in Clients : peer[c] = "open" => \E s \in heap : pool[s].client_fd = c

\* A connection that goes back to the pool is idle: the next request to use it
\* does not meet the command, or the reply, of the last one.
ReleasedIdle ==
  \A d \in DBConns : ~ used[d] /\ pg[d].link = "up" => pg[d].query = NULL /\ pg[d].reply = "none"

\* The API as its clients see it.
Promise == INSTANCE Service WITH
  Changes <- {"transacao"},
  Reads <- {"extrato"},
  Others <- AllKinds \ {"transacao", "extrato"},
  asked <- kind,
  applied <- commits,
  answers <- [c \in Clients |->
                [i \in DOMAIN got[c] |->
                   [about |-> got[c][i].about, done |-> got[c][i].status = "OK"]]]

\* With connections that stay up and bodies that parse, the API keeps what
\* Service promises, also across restarts.
KeepsPromise == Promise!Spec

\* Every peer that connects gets exactly one answer and its connection closed.
Answered ==
  \A c \in Clients :
    peer[c] = "backlog" ~> peer[c] = "closed" /\ Len(got[c]) = 1

\* Every slot but the one accepting is given back in the end, however many
\* requests came: the pool does not wear out.
SlotsReturn ==
  \A s \in Slots : pool[s].client_fd # NULL ~> pool[s].client_fd = NULL

=============================================================================
