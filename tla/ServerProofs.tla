----------------------------- MODULE ServerProofs -----------------------------
(***************************************************************************)
(* The types of the server's state and the discipline of its event loop,   *)
(* for every size of the pools, every set of peers and any number of       *)
(* faults: a slot has at most one operation under way, the one its         *)
(* last_event names; the queue holds each slot at most once and never      *)
(* dangles; and, when every body parses, no database connection is shared  *)
(* and every client gets the answer to its own request.                    *)
(***************************************************************************)
EXTENDS Server, SequenceTheorems, TLAPS


\* A slot that waits for the database has a connection: with it the types are
\* inductive.
HasConn == \A s \in Slots : pool[s].last_event = "DB_RESPONDING" => pool[s].dbconn \in DBConns

ServerTypes ==
  /\ pool \in [Slots -> ReqRes]
  /\ used \in [DBConns -> BOOLEAN]
  /\ dbconn \in DBConns \cup {NULL}
  /\ pc \in {"down", "top", "dispatch", "wait"}

QueueTypes ==
  /\ first \in Slots \cup {NULL}
  /\ last \in Slots \cup {NULL}
  /\ next \in [Slots -> Slots \cup {NULL}]
  /\ heap \subseteq Slots

RingTypes == sq \subseteq Ops /\ inflight \subseteq Ops /\ cq \in Seq(Cqes)

DbTypes ==
  /\ pg \in [DBConns -> Pgs]
  /\ orphans \subseteq Clients
  /\ commits \in [Clients -> Nat]

PeerTypes ==
  /\ backlog \in Seq(Clients)
  /\ peer \in [Clients -> {"idle", "backlog", "open", "closed"}]
  /\ kind \in [Clients -> Kinds \cup {"none"}]
  /\ got \in [Clients -> Seq(Buffers)]

FaultTypes == faults \in [io : Nat, submit : Nat, cut : Nat, crash : Nat]

TypeInv ==
  /\ ServerTypes /\ QueueTypes /\ RingTypes /\ DbTypes /\ PeerTypes /\ FaultTypes
  /\ HasConn

\* TypeOK, by the part of the system that owns the variables.
LEMMA TypeInvTypeOK == TypeInv => TypeOK
  BY DEF TypeInv, TypeOK, ServerTypes, QueueTypes, RingTypes, DbTypes, PeerTypes, FaultTypes

LEMMA SlotsNonEmpty == 0 \in Slots
  BY PoolsAssumption DEF Slots

LEMMA EventsDef == Events = {"ACCEPTTING", "READING", "WRITING", "CLOSING", "DB_RESPONDING"}
  BY DEF Events

LEMMA TextType ==
  ASSUME NEW st \in Statuses \cup {"empty", "request"}, NEW c \in Clients \cup {NULL}
  PROVE  Text(st, c) \in Buffers
  BY DEF Text, Buffers

LEMMA ZeroedType == Zeroed \in ReqRes /\ Accepting \in ReqRes
  BY DEF Zeroed, Accepting, ReqRes, Text, Buffers, Events, DBFuncs

LEMMA StatusNames ==
  /\ {"OK", "UNPROCESSABLE", "INTERNALERROR", "OK_EXIT"} \subseteq Statuses
  /\ \A k \in DOMAIN StaticAnswer : StaticAnswer[k] \in Statuses
<1>1. StaticAnswer["invalid"] = "UNPROCESSABLE" /\ "invalid" \in DOMAIN StaticAnswer
  BY DEF StaticAnswer
<1>2. StaticAnswer["memory"] = "INTERNALERROR" /\ "memory" \in DOMAIN StaticAnswer
  BY DEF StaticAnswer
<1>3. StaticAnswer["exit"] = "OK_EXIT" /\ "exit" \in DOMAIN StaticAnswer
  BY DEF StaticAnswer
<1> QED BY <1>1, <1>2, <1>3 DEF Statuses

\* Any end of the process leaves well-typed state behind.
LEMMA ExitTypes ==
  ASSUME TypeInv, NEW answered \in [Clients -> Seq(Buffers)], NEW links, Exit(answered, links)
  PROVE  /\ ServerTypes' /\ QueueTypes' /\ RingTypes' /\ DbTypes' /\ PeerTypes'
         /\ HasConn'
<1> USE DEF TypeInv
<1>1. ServerTypes' /\ HasConn'
  BY ZeroedType DEF Exit, ServerTypes, HasConn, Zeroed
<1>2. QueueTypes'
  BY DEF Exit, QueueTypes
<1>3. RingTypes'
  BY DEF Exit, RingTypes
<1>4. DbTypes'
  BY DEF Exit, DbTypes, FreshPg, Pgs, Running
<1>5. PeerTypes'
  BY DEF Exit, PeerTypes
<1> QED BY <1>1, <1>2, <1>3, <1>4, <1>5

\* The started process has its type.
THEOREM TypeInit == Init => TypeInv
<1> SUFFICES ASSUME Init PROVE TypeInv
  OBVIOUS
<1>1. ServerTypes /\ HasConn
  BY ZeroedType DEF Init, ServerTypes, HasConn, Zeroed
<1>2. QueueTypes
  BY DEF Init, QueueTypes, Queue!QInit
<1>3. RingTypes
  BY DEF Init, RingTypes
<1>4. DbTypes
  BY DEF Init, DbTypes, FreshPg, Pgs
<1>5. PeerTypes
  BY DEF Init, PeerTypes
<1>6. FaultTypes
  BY DEF Init, FaultTypes
<1> QED BY <1>1, <1>2, <1>3, <1>4, <1>5, <1>6 DEF TypeInv

\* What queu_push and queu_pop do to the types of the list.
LEMMA QueueOpTypes ==
  ASSUME QueueTypes, NEW s \in Slots, Queue!queu_push(s) \/ Queue!queu_pop(s)
  PROVE  QueueTypes'
  BY DEF QueueTypes, Queue!queu_push, Queue!queu_pop

LEMMA OpType ==
  ASSUME NEW s \in Slots, NEW op \in {"accept", "read", "write", "close", "dbread"}
  PROVE  Op(op, s) \in Ops
  BY DEF Op, Ops

\* Whatever becomes of a submit, only the operations it was given appear.
LEMMA SubmitTypes ==
  ASSUME RingTypes, FaultTypes, NEW ops \in SUBSET Ops,
         Submitted(ops) \/ NotSubmitted(ops)
  PROVE  sq' \subseteq Ops /\ inflight' \subseteq Ops /\ FaultTypes'
  BY DEF RingTypes, FaultTypes, Submitted, NotSubmitted, SubmitFailed

LEMMA GetConnTypes ==
  ASSUME used \in [DBConns -> BOOLEAN], get_dbconn
  PROVE  used' \in [DBConns -> BOOLEAN] /\ dbconn' \in DBConns \cup {NULL}
<1> DEFINE free == {d \in DBConns : ~ used[d]}
<1>1. CASE free = {} /\ dbconn' = NULL /\ UNCHANGED used
  BY <1>1
<1>2. CASE \E d \in free : dbconn' = d /\ used' = [used EXCEPT ![d] = TRUE]
  BY <1>2
<1> QED BY <1>1, <1>2 DEF get_dbconn

LEMMA SeenTypes ==
  ASSUME TypeInv, cq # <<>>
  PROVE  Head(cq) \in Cqes /\ Tail(cq) \in Seq(Cqes)
  BY HeadTailProperties DEF TypeInv, RingTypes

\* A slot whose new content is well typed keeps the types of the process.
LEMMA SlotTypes ==
  ASSUME TypeInv, NEW s \in Slots, NEW r \in ReqRes,
         pool' = [pool EXCEPT ![s] = r],
         r.last_event = "DB_RESPONDING" => r.dbconn \in DBConns
  PROVE  pool' \in [Slots -> ReqRes] /\ HasConn'
  BY DEF TypeInv, ServerTypes, HasConn

LEMMA WritingType ==
  ASSUME NEW r \in ReqRes, NEW t \in Buffers
  PROVE  /\ Writing(r, t) \in ReqRes
         /\ Writing(r, t).last_event = "WRITING"
  BY DEF Writing, ReqRes, Events

LEMMA DispatchTypes ==
  ASSUME TypeInv, QueuDispatch
  PROVE  TypeInv'
<1> USE DEF TypeInv
<1>1. CASE DispatchStart
  BY <1>1, GetConnTypes DEF DispatchStart, ServerTypes, QueueTypes, RingTypes, DbTypes,
     PeerTypes, FaultTypes, HasConn, queueVars, ringVars, dbVars, peerVars
<1>2. CASE DispatchNoConn
  BY <1>2 DEF DispatchNoConn, ServerTypes, QueueTypes, RingTypes, DbTypes,
     PeerTypes, FaultTypes, HasConn, queueVars, ringVars, dbVars, peerVars
<1>3. CASE DispatchEmpty
  BY <1>3 DEF DispatchEmpty, release_dbconn, ServerTypes, QueueTypes, RingTypes, DbTypes,
     PeerTypes, FaultTypes, HasConn, queueVars, ringVars, dbVars, peerVars
<1>4. CASE DispatchRefuse
  <2> PICK s \in Slots :
        /\ Queue!queu_pop(s)
        /\ pool' = [pool EXCEPT ![s] =
                     Writing([@ EXCEPT !.dbconn = dbconn, !.db_data = "freed"],
                             Text("UNPROCESSABLE", pool[s].buffer.about))]
        /\ release_dbconn(dbconn)
        /\ Submit(Op("write", s))
    BY <1>4 DEF DispatchRefuse
  <2>1. Text("UNPROCESSABLE", pool[s].buffer.about) \in Buffers
    BY TextType, StatusNames DEF ServerTypes, ReqRes, Buffers
  <2> DEFINE r == [pool[s] EXCEPT !.dbconn = dbconn, !.db_data = "freed"]
             w == Writing(r, Text("UNPROCESSABLE", pool[s].buffer.about))
  <2>5. r \in ReqRes
    BY DEF ServerTypes, ReqRes
  <2>6. w \in ReqRes /\ w.last_event = "WRITING"
    BY <2>1, <2>5, WritingType
  <2>2. ServerTypes' /\ HasConn'
    <3>1. pool' = [pool EXCEPT ![s] = w]
      OBVIOUS
    <3>2. pool' \in [Slots -> ReqRes] /\ HasConn'
      BY <2>6, <3>1, SlotTypes
    <3> QED BY <1>4, <3>2 DEF DispatchRefuse, release_dbconn, ServerTypes
  <2>3. sq' \subseteq Ops /\ inflight' \subseteq Ops /\ FaultTypes'
    BY SubmitTypes, OpType DEF Submit
  <2> QED BY <1>4, <2>2, <2>3, QueueOpTypes DEF DispatchRefuse, RingTypes, DbTypes, PeerTypes, dbVars, peerVars
<1>5. CASE DispatchSend
  <2> PICK s \in Slots :
        /\ Queue!queu_pop(s)
        /\ PQsendQuery(dbconn, pool[s].buffer.about)
        /\ pool' = [pool EXCEPT ![s] =
                     [@ EXCEPT !.dbconn = dbconn, !.db_data = "freed",
                               !.db_response_handler = pool[s].db_request_sender,
                               !.last_event = "DB_RESPONDING"]]
        /\ Submitted({Op("dbread", s)})
        /\ get_dbconn
    BY <1>5 DEF DispatchSend
  <2>1. dbconn \in DBConns
    BY <1>5 DEF DispatchSend, ServerTypes
  <2>2. pool[s] \in ReqRes /\ pool[s].buffer.about \in Clients \cup {NULL}
    BY DEF ServerTypes, ReqRes, Buffers
  <2>3. [pool[s] EXCEPT !.dbconn = dbconn, !.db_data = "freed",
                        !.db_response_handler = pool[s].db_request_sender,
                        !.last_event = "DB_RESPONDING"] \in ReqRes
    BY <2>1, <2>2 DEF ReqRes, Events
  <2>4. ServerTypes' /\ HasConn'
    BY <1>5, <2>1, <2>2, <2>3, GetConnTypes DEF DispatchSend, ServerTypes, HasConn, ReqRes
  <2>5. pg' \in [DBConns -> Pgs]
    BY <2>2 DEF PQsendQuery, Sent, DbTypes, Pgs
  <2>6. sq' \subseteq Ops /\ inflight' \subseteq Ops /\ FaultTypes'
    BY SubmitTypes, OpType
  <2> QED BY <1>5, <2>4, <2>5, <2>6, QueueOpTypes
          DEF DispatchSend, RingTypes, DbTypes, PeerTypes, peerVars
<1>6. CASE DispatchFatal
  <2>1. Exit(got, Sent(dbconn, pool[first].buffer.about)) /\ FaultTypes'
    BY <1>6 DEF DispatchFatal, SubmitFailed, FaultTypes
  <2> QED BY <2>1, ExitTypes DEF PeerTypes
<1> QED BY <1>1, <1>2, <1>3, <1>4, <1>5, <1>6 DEF QueuDispatch


\* What a well-typed slot is.
LEMMA SlotFields ==
  ASSUME TypeInv, NEW s \in Slots
  PROVE  /\ pool[s] \in ReqRes
         /\ pool[s].buffer \in Buffers
         /\ pool[s].buffer.about \in Clients \cup {NULL}
         /\ pool[s].client_fd \in Clients \cup {NULL}
         /\ pool[s].dbconn \in DBConns \cup {NULL}
  BY DEF TypeInv, ServerTypes, ReqRes, Buffers

\* The response of a handler is a response, about some client.
LEMMA EndAsyncType ==
  ASSUME NEW h \in DBFuncs, NEW r, NEW c \in Clients \cup {NULL}, NEW q \in Clients \cup {NULL}
  PROVE  end_async(h, r, c, q) \in Buffers
<1>1. end_async(h, r, c, q) \in
        {Text(st, x) : st \in {"OK", "UNPROCESSABLE", "INTERNALERROR"}, x \in {c, q}}
  BY DEF end_async
<1> QED BY <1>1, TextType, StatusNames

LEMMA ClearedType ==
  ASSUME TypeInv, NEW d \in DBConns
  PROVE  Cleared(d) \in Pgs
<1>1. pg[d] \in Pgs /\ FreshPg \in Pgs
  BY DEF TypeInv, DbTypes, Pgs, FreshPg
<1>2. [FreshPg EXCEPT !.link = "closed"] \in Pgs
  BY <1>1 DEF Pgs
<1>3. [pg[d] EXCEPT !.query = NULL, !.reply = "none"] \in Pgs
  BY <1>1 DEF Pgs
<1> QED BY <1>2, <1>3 DEF Cleared

LEMMA LoopTypes ==
  ASSUME TypeInv, ServerLoop
  PROVE  TypeInv'
<1> USE DEF TypeInv
<1>1. CASE OnError
  BY <1>1, SeenTypes DEF OnError, ServerTypes, QueueTypes, RingTypes, DbTypes, PeerTypes,
     FaultTypes, HasConn, queueVars, dbVars, peerVars
<1>2. CASE OnAccepted
  <2> PICK s \in Slots, t \in Slots :
        /\ Seen(s, "ACCEPTTING")
        /\ pool' = [pool EXCEPT
             ![s] = [@ EXCEPT !.client_fd = Head(cq).fd, !.last_event = "READING"],
             ![t] = Accepting]
        /\ \/ Submitted({Op("read", s), Op("accept", t)})
           \/ NotSubmitted({Op("read", s), Op("accept", t)})
           \/ /\ SubmitFailed
              /\ inflight' = inflight \cup sq \cup {Op("read", s)}
              /\ sq' = {Op("accept", t)}
    BY <1>2 DEF OnAccepted
  <2> DEFINE r == [pool[s] EXCEPT !.client_fd = Head(cq).fd, !.last_event = "READING"]
  <2>1. Head(cq) \in Cqes /\ cq' \in Seq(Cqes)
    BY SeenTypes DEF Seen
  <2>2. r \in ReqRes /\ r.last_event = "READING"
    <3> DEFINE fd == Head(cq).fd
    <3>1. fd \in Clients \cup {NULL}
      BY <2>1 DEF Cqes
    <3> HIDE DEF fd
    <3>2. /\ [pool[s] EXCEPT !.client_fd = fd, !.last_event = "READING"] \in ReqRes
          /\ [pool[s] EXCEPT !.client_fd = fd, !.last_event = "READING"].last_event = "READING"
      BY <3>1, SlotFields DEF ReqRes, Events
    <3> QED BY <3>2 DEF fd
  <2>3. Accepting.last_event = "ACCEPTTING"
    BY DEF Accepting, Zeroed
  <2>4. pool' = [[pool EXCEPT ![s] = r] EXCEPT ![t] = Accepting]
    OBVIOUS
  <2>5. ServerTypes' /\ HasConn'
    <3> HIDE DEF r
    <3>1. [pool EXCEPT ![s] = r] \in [Slots -> ReqRes]
      BY <2>2 DEF ServerTypes
    <3>2. pool' \in [Slots -> ReqRes]
      BY <2>4, <3>1, ZeroedType
    <3>3. \A x \in Slots : pool'[x] = IF x = t THEN Accepting ELSE IF x = s THEN r ELSE pool[x]
      BY <2>4 DEF ServerTypes
    <3>4. HasConn'
      BY <2>2, <2>3, <3>3 DEF HasConn
    <3> QED BY <1>2, <3>2, <3>4 DEF OnAccepted, Seen, ServerTypes
  <2>6. Op("read", s) \in Ops /\ Op("accept", t) \in Ops
    BY OpType
  <2>7. sq' \subseteq Ops /\ inflight' \subseteq Ops /\ FaultTypes'
    BY <2>6, SubmitTypes DEF RingTypes, SubmitFailed, FaultTypes
  <2> QED BY <1>2, <2>1, <2>5, <2>7
          DEF OnAccepted, QueueTypes, RingTypes, DbTypes, PeerTypes, queueVars, dbVars, peerVars
<1>3. CASE OnAcceptedFull
  BY <1>3, ExitTypes DEF OnAcceptedFull, FaultTypes, PeerTypes
<1>4. CASE OnReadAnswered
  <2> PICK s \in Slots :
        /\ Seen(s, "READING")
        /\ Request(s) \in DOMAIN StaticAnswer \ {"exit"}
        /\ pool' = [pool EXCEPT ![s] =
                      Writing(@, Text(StaticAnswer[Request(s)], @.buffer.about))]
        /\ Submit(Op("write", s))
    BY <1>4 DEF OnReadAnswered
  <2> DEFINE w == Writing(pool[s], Text(StaticAnswer[Request(s)], pool[s].buffer.about))
  <2>1. Text(StaticAnswer[Request(s)], pool[s].buffer.about) \in Buffers
    BY TextType, StatusNames, SlotFields
  <2>2. w \in ReqRes /\ w.last_event = "WRITING"
    BY <2>1, WritingType, SlotFields
  <2>3. pool' = [pool EXCEPT ![s] = w]
    OBVIOUS
  <2>4. pool' \in [Slots -> ReqRes] /\ HasConn'
    BY <2>2, <2>3, SlotTypes
  <2>5. sq' \subseteq Ops /\ inflight' \subseteq Ops /\ FaultTypes'
    BY SubmitTypes, OpType DEF Submit
  <2>6. cq' \in Seq(Cqes) /\ pc' = "top"
    BY SeenTypes DEF Seen
  <2> QED BY <1>4, <2>4, <2>5, <2>6
          DEF OnReadAnswered, ServerTypes, QueueTypes, RingTypes, DbTypes, PeerTypes,
              queueVars, dbVars, peerVars
<1>5. CASE OnReadQueued
  <2> PICK s \in Slots :
        /\ Seen(s, "READING")
        /\ pool' = [pool EXCEPT ![s] = [@ EXCEPT
                      !.db_data = "allocated",
                      !.db_request_sender =
                         IF Request(s) = "extrato" THEN "extrato" ELSE "transacao"]]
        /\ Queue!queu_push(s)
    BY <1>5 DEF OnReadQueued
  <2> DEFINE sender == IF Request(s) = "extrato" THEN "extrato" ELSE "transacao"
             r == [pool[s] EXCEPT !.db_data = "allocated", !.db_request_sender = sender]
  <2>1. r \in ReqRes /\ r.last_event = "READING"
    <3>1. sender \in DBFuncs
      BY DEF DBFuncs
    <3> HIDE DEF sender
    <3> QED BY <3>1, SlotFields DEF ReqRes, Seen
  <2>2. pool' = [pool EXCEPT ![s] = r]
    OBVIOUS
  <2>3. pool' \in [Slots -> ReqRes] /\ HasConn'
    BY <2>1, <2>2, SlotTypes
  <2>4. cq' \in Seq(Cqes) /\ pc' = "top"
    BY SeenTypes DEF Seen
  <2> QED BY <1>5, <2>3, <2>4, QueueOpTypes
          DEF OnReadQueued, ServerTypes, RingTypes, DbTypes, PeerTypes, FaultTypes, dbVars, peerVars
<1>6. CASE OnReadExit
  <2> PICK s \in Slots, copies \in {1, 2} :
        LET c == pool[s].buffer.about
        IN  Exit([got EXCEPT ![c] = @ \o [i \in 1 .. copies |-> Text("OK_EXIT", c)]], pg)
    BY <1>6 DEF OnReadExit
  <2> DEFINE c == pool[s].buffer.about
             more == [i \in 1 .. copies |-> Text("OK_EXIT", c)]
             answered == [got EXCEPT ![c] = @ \o more]
  <2>1. more \in Seq(Buffers)
    <3>1. Text("OK_EXIT", c) \in Buffers
      BY TextType, StatusNames, SlotFields
    <3>2. copies \in Nat
      OBVIOUS
    <3> QED BY <3>1, <3>2, IsASeq
  <2>2. \A x \in Clients : got[x] \o more \in Seq(Buffers)
    BY <2>1, ConcatProperties DEF PeerTypes
  <2>3. answered \in [Clients -> Seq(Buffers)]
    BY <2>2 DEF PeerTypes
  <2>4. Exit(answered, pg)
    OBVIOUS
  <2> HIDE DEF answered
  <2> QED BY <1>6, <2>3, <2>4, ExitTypes DEF OnReadExit, FaultTypes
<1>7. CASE OnDbResponding
  <2> PICK s \in Slots :
        /\ Seen(s, "DB_RESPONDING")
        /\ pool' = [pool EXCEPT ![s] = Writing(@,
             end_async(@.db_response_handler, Result(pool[s].dbconn), @.client_fd,
                       pg[pool[s].dbconn].query))]
        /\ pg' = [pg EXCEPT ![pool[s].dbconn] = Cleared(pool[s].dbconn)]
        /\ release_dbconn(pool[s].dbconn)
        /\ Submit(Op("write", s))
    BY <1>7 DEF OnDbResponding
  <2> DEFINE d == pool[s].dbconn
             a == end_async(pool[s].db_response_handler, Result(d), pool[s].client_fd, pg[d].query)
             w == Writing(pool[s], a)
  <2>1. d \in DBConns
    BY DEF HasConn, Seen
  <2>2. a \in Buffers
    <3>1. pg[d].query \in Clients \cup {NULL}
      BY <2>1 DEF DbTypes, Pgs
    <3>2. pool[s].db_response_handler \in DBFuncs
      BY SlotFields DEF ReqRes
    <3> QED BY <3>1, <3>2, SlotFields, EndAsyncType
  <2>3. w \in ReqRes /\ w.last_event = "WRITING"
    BY <2>2, WritingType, SlotFields
  <2>4. pool' = [pool EXCEPT ![s] = w]
    OBVIOUS
  <2>5. pool' \in [Slots -> ReqRes] /\ HasConn'
    BY <2>3, <2>4, SlotTypes
  <2>6. pg' \in [DBConns -> Pgs]
    BY <2>1, ClearedType DEF DbTypes
  <2>7. sq' \subseteq Ops /\ inflight' \subseteq Ops /\ FaultTypes'
    BY SubmitTypes, OpType DEF Submit
  <2>8. cq' \in Seq(Cqes) /\ pc' = "top"
    BY SeenTypes DEF Seen
  <2>9. used' \in [DBConns -> BOOLEAN]
    BY DEF release_dbconn, ServerTypes
  <2> QED BY <1>7, <2>5, <2>6, <2>7, <2>8, <2>9
          DEF OnDbResponding, ServerTypes, QueueTypes, RingTypes, DbTypes, PeerTypes,
              queueVars, peerVars
<1>8. CASE OnWritten
  <2> PICK s \in Slots : /\ Seen(s, "WRITING")
                         /\ pool' = [pool EXCEPT ![s].last_event = "CLOSING"]
                         /\ Submit(Op("close", s))
    BY <1>8 DEF OnWritten
  <2> DEFINE r == [pool[s] EXCEPT !.last_event = "CLOSING"]
  <2>1. r \in ReqRes /\ r.last_event = "CLOSING"
    BY SlotFields DEF ReqRes, Events
  <2>2. pool' = [pool EXCEPT ![s] = r]
    OBVIOUS
  <2>3. pool' \in [Slots -> ReqRes] /\ HasConn'
    BY <2>1, <2>2, SlotTypes
  <2>4. sq' \subseteq Ops /\ inflight' \subseteq Ops /\ FaultTypes'
    BY SubmitTypes, OpType DEF Submit
  <2>5. cq' \in Seq(Cqes) /\ pc' = "top"
    BY SeenTypes DEF Seen
  <2> QED BY <1>8, <2>3, <2>4, <2>5
          DEF OnWritten, ServerTypes, QueueTypes, RingTypes, DbTypes, PeerTypes,
              queueVars, dbVars, peerVars
<1>9. CASE OnClosed
  <2> PICK s \in Slots : Seen(s, "CLOSING") /\ pool' = [pool EXCEPT ![s] = Zeroed]
    BY <1>9 DEF OnClosed
  <2>1. Zeroed.last_event = "ACCEPTTING"
    BY DEF Zeroed
  <2>2. pool' \in [Slots -> ReqRes] /\ HasConn'
    BY <2>1, SlotTypes, ZeroedType
  <2>3. cq' \in Seq(Cqes) /\ pc' = "top"
    BY SeenTypes DEF Seen
  <2> QED BY <1>9, <2>2, <2>3
          DEF OnClosed, ServerTypes, QueueTypes, RingTypes, DbTypes, PeerTypes, FaultTypes,
              queueVars, dbVars, peerVars
<1> QED BY <1>1, <1>2, <1>3, <1>4, <1>5, <1>6, <1>7, <1>8, <1>9 DEF ServerLoop

LEMMA CqeType ==
  ASSUME NEW s \in Slots, NEW failed \in BOOLEAN, NEW fd \in Clients \cup {NULL}
  PROVE  Cqe(s, failed, fd) \in Cqes
  BY DEF Cqe, Cqes

\* A completion moves one operation to the end of the completion queue.
LEMMA CompleteTypes ==
  ASSUME RingTypes, NEW o \in inflight, NEW cqe \in Cqes, Complete(o, cqe), UNCHANGED sq
  PROVE  RingTypes'
  BY AppendProperties DEF RingTypes, Complete

LEMMA OpSlot == ASSUME NEW o \in Ops PROVE o.slot \in Slots
  BY DEF Ops

LEMMA KernelTypes ==
  ASSUME TypeInv, Kernel
  PROVE  TypeInv'
<1> USE DEF TypeInv
<1>1. CASE CompleteAccept
  <2> PICK o \in inflight : Complete(o, Cqe(o.slot, FALSE, Head(backlog)))
    BY <1>1 DEF CompleteAccept
  <2>1. Head(backlog) \in Clients /\ Tail(backlog) \in Seq(Clients)
    BY <1>1, HeadTailProperties DEF CompleteAccept, PeerTypes
  <2>2. Cqe(o.slot, FALSE, Head(backlog)) \in Cqes
    BY <2>1, OpSlot, CqeType DEF RingTypes
  <2>3. RingTypes'
    BY <1>1, <2>2, CompleteTypes DEF CompleteAccept
  <2> QED BY <1>1, <2>1, <2>3
          DEF CompleteAccept, ServerTypes, QueueTypes, DbTypes, PeerTypes, FaultTypes, HasConn,
              serverVars, queueVars, dbVars
<1>2. CASE CompleteRead
  <2> PICK o \in inflight :
        /\ pool' = [pool EXCEPT ![o.slot].buffer = Text("request", pool[o.slot].client_fd)]
        /\ Complete(o, Cqe(o.slot, FALSE, NULL))
    BY <1>2 DEF CompleteRead
  <2> DEFINE t == Text("request", pool[o.slot].client_fd)
             r == [pool[o.slot] EXCEPT !.buffer = t]
  <2>1. o.slot \in Slots
    BY OpSlot DEF RingTypes
  <2>2. t \in Buffers
    BY <2>1, SlotFields, TextType
  <2>3. /\ r \in ReqRes
        /\ r.last_event = pool[o.slot].last_event /\ r.dbconn = pool[o.slot].dbconn
    <3> HIDE DEF t
    <3> QED BY <2>1, <2>2, SlotFields DEF ReqRes
  <2>4. pool' = [pool EXCEPT ![o.slot] = r]
    OBVIOUS
  <2>5. pool' \in [Slots -> ReqRes] /\ HasConn'
    BY <2>1, <2>3, <2>4, SlotTypes DEF HasConn
  <2>6. RingTypes'
    BY <1>2, <2>1, CqeType, CompleteTypes DEF CompleteRead
  <2> QED BY <1>2, <2>5, <2>6
          DEF CompleteRead, ServerTypes, QueueTypes, DbTypes, PeerTypes, FaultTypes,
              queueVars, dbVars, peerVars
<1>3. CASE CompleteWrite
  <2> PICK o \in inflight :
        /\ got' = [got EXCEPT ![pool[o.slot].client_fd] = Append(@, pool[o.slot].buffer)]
        /\ Complete(o, Cqe(o.slot, FALSE, NULL))
    BY <1>3 DEF CompleteWrite
  <2>1. o.slot \in Slots
    BY OpSlot DEF RingTypes
  <2>2. \A c \in Clients : Append(got[c], pool[o.slot].buffer) \in Seq(Buffers)
    BY <2>1, SlotFields, AppendProperties DEF PeerTypes
  <2>3. got' \in [Clients -> Seq(Buffers)]
    BY <2>2 DEF PeerTypes
  <2>4. RingTypes'
    BY <1>3, <2>1, CqeType, CompleteTypes DEF CompleteWrite
  <2> QED BY <1>3, <2>3, <2>4
          DEF CompleteWrite, ServerTypes, QueueTypes, DbTypes, PeerTypes, FaultTypes, HasConn,
              serverVars, queueVars, dbVars
<1>4. CASE CompleteClose
  <2> PICK o \in inflight :
        /\ peer' = [peer EXCEPT ![pool[o.slot].client_fd] = "closed"]
        /\ Complete(o, Cqe(o.slot, FALSE, NULL))
    BY <1>4 DEF CompleteClose
  <2>1. RingTypes'
    BY <1>4, OpSlot, CqeType, CompleteTypes DEF CompleteClose, RingTypes
  <2> QED BY <1>4, <2>1
          DEF CompleteClose, ServerTypes, QueueTypes, DbTypes, PeerTypes, FaultTypes, HasConn,
              serverVars, queueVars, dbVars
<1>5. CASE CompleteDbRead
  <2> PICK o \in inflight : Complete(o, Cqe(o.slot, FALSE, NULL))
    BY <1>5 DEF CompleteDbRead
  <2>1. RingTypes'
    BY <1>5, OpSlot, CqeType, CompleteTypes DEF CompleteDbRead, RingTypes
  <2> QED BY <1>5, <2>1
          DEF CompleteDbRead, ServerTypes, QueueTypes, DbTypes, PeerTypes, FaultTypes, HasConn,
              serverVars, queueVars, dbVars, peerVars
<1>6. CASE CompleteError
  <2> PICK o \in inflight : Complete(o, Cqe(o.slot, TRUE, NULL))
    BY <1>6 DEF CompleteError
  <2>1. RingTypes'
    BY <1>6, OpSlot, CqeType, CompleteTypes DEF CompleteError, RingTypes
  <2>2. FaultTypes'
    BY <1>6 DEF CompleteError, FaultTypes
  <2> QED BY <1>6, <2>1, <2>2
          DEF CompleteError, ServerTypes, QueueTypes, DbTypes, PeerTypes, HasConn,
              serverVars, queueVars, dbVars, peerVars
<1> QED BY <1>1, <1>2, <1>3, <1>4, <1>5, <1>6 DEF Kernel

LEMMA WorldTypes ==
  ASSUME TypeInv, World
  PROVE  TypeInv'
<1> USE DEF TypeInv
<1>1. ASSUME NEW c, NEW r, Applied(c, r) PROVE commits' \in [Clients -> Nat]
  <2>1. \A x \in Clients : commits[x] + 1 \in Nat
    BY DEF DbTypes
  <2>2. [commits EXCEPT ![c] = @ + 1] \in [Clients -> Nat]
    BY <2>1 DEF DbTypes
  <2> QED BY <1>1, <2>2 DEF Applied, DbTypes
<1>2. \A c : Replies(c) \subseteq {"ok", "null", "error"}
  BY OutcomesAssumption DEF Replies
<1>3. CASE BackendRuns
  <2> PICK d \in DBConns : \E r \in Replies(pg[d].query) :
        pg' = [pg EXCEPT ![d].reply = r] /\ Applied(pg[d].query, r)
    BY <1>3 DEF BackendRuns
  <2>1. pg' \in [DBConns -> Pgs]
    BY <1>2 DEF DbTypes, Pgs
  <2> QED BY <1>1, <1>3, <2>1
          DEF BackendRuns, ServerTypes, QueueTypes, RingTypes, DbTypes, PeerTypes, FaultTypes,
              HasConn, serverVars, queueVars, ringVars, peerVars
<1>4. CASE OrphanRuns
  <2> PICK c \in orphans : orphans' = orphans \ {c} /\ \E r \in Replies(c) : Applied(c, r)
    BY <1>4 DEF OrphanRuns
  <2> QED BY <1>1, <1>4
          DEF OrphanRuns, ServerTypes, QueueTypes, RingTypes, DbTypes, PeerTypes, FaultTypes,
              HasConn, serverVars, queueVars, ringVars, peerVars
<1>5. CASE CutLink
  <2> PICK d \in DBConns : \E r \in {pg[d].reply, "none"} :
        /\ pg' = [pg EXCEPT ![d].link = "cut", ![d].reply = r]
        /\ orphans' = IF pg[d].reply = "none" THEN orphans \cup ({pg[d].query} \ {NULL})
                      ELSE orphans
    BY <1>5 DEF CutLink
  <2>1. pg' \in [DBConns -> Pgs]
    <3> PICK r \in {pg[d].reply, "none"} : pg' = [pg EXCEPT ![d].link = "cut", ![d].reply = r]
      OBVIOUS
    <3>1. pg[d] \in Pgs /\ r \in {"none", "ok", "null", "error"}
      BY DEF DbTypes, Pgs
    <3>2. [pg[d] EXCEPT !.link = "cut", !.reply = r] \in Pgs
      BY <3>1 DEF Pgs
    <3>3. pg' = [pg EXCEPT ![d] = [pg[d] EXCEPT !.link = "cut", !.reply = r]]
      BY DEF DbTypes
    <3> QED BY <3>2, <3>3 DEF DbTypes
  <2>3. orphans' \subseteq Clients
    BY DEF DbTypes, Pgs
  <2>2. FaultTypes'
    BY <1>5 DEF CutLink, FaultTypes
  <2> QED BY <1>5, <2>1, <2>2, <2>3
          DEF CutLink, ServerTypes, QueueTypes, RingTypes, DbTypes, PeerTypes,
              HasConn, serverVars, queueVars, ringVars, peerVars
<1>6. CASE Connect
  <2> PICK c \in Clients, k \in Kinds :
        /\ peer' = [peer EXCEPT ![c] = "backlog"]
        /\ backlog' = Append(backlog, c)
        /\ kind' = [kind EXCEPT ![c] = k]
    BY <1>6 DEF Connect
  <2>1. PeerTypes'
    BY <1>6, AppendProperties DEF Connect, PeerTypes
  <2> QED BY <1>6, <2>1
          DEF Connect, ServerTypes, QueueTypes, RingTypes, DbTypes, FaultTypes,
              HasConn, serverVars, queueVars, ringVars, dbVars
<1> QED BY <1>3, <1>4, <1>5, <1>6 DEF World

\* Every step of the process and of its surroundings keeps the types.
LEMMA TypeStep == TypeInv /\ [Next]_vars => TypeInv'
<1> SUFFICES ASSUME TypeInv, [Next]_vars PROVE TypeInv'
  OBVIOUS
<1>1. CASE Boot
  <2>1. ServerTypes' /\ HasConn'
    BY <1>1, SlotsNonEmpty, ZeroedType
       DEF Boot, TypeInv, ServerTypes, HasConn, Accepting, Zeroed
  <2>2. RingTypes'
    BY <1>1, SlotsNonEmpty, OpType DEF Boot, TypeInv, RingTypes
  <2> QED BY <1>1, <2>1, <2>2
          DEF Boot, TypeInv, QueueTypes, DbTypes, PeerTypes, FaultTypes, queueVars, dbVars, peerVars
<1>2. CASE Crash
  <2>1. FaultTypes'
    BY <1>2 DEF Crash, TypeInv, FaultTypes
  <2> QED BY <1>2, <2>1, ExitTypes DEF Crash, TypeInv, PeerTypes
<1>3. CASE UNCHANGED vars
  BY <1>3 DEF vars, TypeInv, ServerTypes, QueueTypes, RingTypes, DbTypes, PeerTypes, FaultTypes,
     HasConn, serverVars, queueVars, ringVars, dbVars, peerVars
<1> QED BY <1>1, <1>2, <1>3, DispatchTypes, LoopTypes, KernelTypes, WorldTypes DEF Next

\* Every step of the program, the kernel and the world keeps the types.
THEOREM TypeInvariant == Spec => []TypeInv
  BY TypeInit, TypeStep, PTL DEF Spec

\* Every variable of the server, of the ring, of libpq and of the peers keeps
\* its type, whatever faults happen.
THEOREM TypeCorrect == Spec => []TypeOK
  BY TypeInvariant, TypeInvTypeOK, PTL
-----------------------------------------------------------------------------
QP == INSTANCE RequestQueueProofs WITH Items <- Slots

\* The queue of the server is the one RequestQueueProofs is about.
LEMMA PushSound ==
  ASSUME QP!QInv, NEW s \in Slots, Queue!queu_push(s)
  PROVE  QP!QInv'
<1>1. QP!queu_push(s)
  BY DEF Queue!queu_push, QP!queu_push
<1> QED BY <1>1, QP!PushInv, NoPeerAssumption DEF QP!NullAssumption

LEMMA PopSound ==
  ASSUME QP!QInv, NEW s \in Slots, Queue!queu_pop(s)
  PROVE  QP!QInv'
<1>1. QP!queu_pop(s)
  BY DEF Queue!queu_pop, QP!queu_pop
<1> QED BY <1>1, QP!PopInv, NoPeerAssumption DEF QP!NullAssumption

-----------------------------------------------------------------------------
\* Nothing survives the end of the process.
DownIsEmpty ==
  pc = "down" => sq = {} /\ inflight = {} /\ cq = <<>> /\ heap = {}

SlotInv == OneOperation /\ PushedOnce /\ QP!QInv /\ DownIsEmpty

HasOp(s) == \E o \in sq \cup inflight : o.slot = s

LEMMA OpFields ==
  ASSUME NEW s, NEW op
  PROVE  Op(op, s).slot = s /\ Op(op, s).op = op
  BY DEF Op

\* The completion queue after the loop has seen its head.
LEMMA CqTail ==
  ASSUME cq \in Seq(Cqes), cq # <<>>, cq' = Tail(cq),
         \A i, j \in DOMAIN cq : cq[i].slot = cq[j].slot => i = j
  PROVE  /\ \A i, j \in DOMAIN cq' : cq'[i].slot = cq'[j].slot => i = j
         /\ \A s : Completed(s)' => Completed(s) /\ s # Head(cq).slot
         /\ Completed(Head(cq).slot)
<1>1. Len(cq) \in Nat /\ Len(cq) > 0 /\ DOMAIN cq = 1 .. Len(cq)
  BY EmptySeq, LenProperties
<1>2. /\ Len(cq') = Len(cq) - 1 /\ cq' \in Seq(Cqes)
      /\ \A i \in 1 .. Len(cq) - 1 : cq'[i] = cq[i + 1]
      /\ Head(cq) = cq[1]
  BY <1>1, HeadTailProperties
<1>3. DOMAIN cq' = 1 .. Len(cq) - 1
  BY <1>2, LenProperties
<1>4. ASSUME NEW i \in DOMAIN cq', NEW j \in DOMAIN cq', cq'[i].slot = cq'[j].slot
      PROVE  i = j
  <2>1. i + 1 \in DOMAIN cq /\ j + 1 \in DOMAIN cq /\ i \in Int /\ j \in Int
    BY <1>1, <1>3
  <2>2. cq[i + 1].slot = cq[j + 1].slot
    BY <1>2, <1>3, <1>4
  <2>3. i + 1 = j + 1
    BY <2>1, <2>2
  <2> QED BY <2>1, <2>3
<1>5. ASSUME NEW s, NEW i \in DOMAIN cq', cq'[i].slot = s
      PROVE  Completed(s) /\ s # Head(cq).slot
  <2>1. i + 1 \in DOMAIN cq /\ 1 \in DOMAIN cq /\ i + 1 # 1
    BY <1>1, <1>3
  <2>2. cq[i + 1].slot = s
    BY <1>2, <1>3, <1>5
  <2>3. s # cq[1].slot
    BY <2>1, <2>2
  <2> QED BY <1>2, <2>1, <2>2, <2>3 DEF Completed
<1>6. Completed(Head(cq).slot)
  BY <1>1, <1>2 DEF Completed
<1> QED BY <1>4, <1>5, <1>6 DEF Completed

\* The completion queue after the kernel has finished an operation.
LEMMA CqAppend ==
  ASSUME cq \in Seq(Cqes), NEW e \in Cqes, cq' = Append(cq, e), ~ Completed(e.slot),
         \A i, j \in DOMAIN cq : cq[i].slot = cq[j].slot => i = j
  PROVE  /\ \A i, j \in DOMAIN cq' : cq'[i].slot = cq'[j].slot => i = j
         /\ \A s : Completed(s)' <=> Completed(s) \/ s = e.slot
<1>1. Len(cq) \in Nat /\ DOMAIN cq = 1 .. Len(cq)
  BY LenProperties
<1>2. /\ Len(cq') = Len(cq) + 1
      /\ \A i \in 1 .. Len(cq) : cq'[i] = cq[i]
      /\ cq'[Len(cq) + 1] = e
      /\ cq' \in Seq(Cqes)
  BY <1>1, AppendProperties
<1>3. DOMAIN cq' = 1 .. Len(cq) + 1
  BY <1>2, LenProperties
<1>4. \A i \in DOMAIN cq : cq[i].slot # e.slot
  BY DEF Completed
<1>5. \A i \in DOMAIN cq' : i \in DOMAIN cq \/ i = Len(cq) + 1
  BY <1>1, <1>3
<1>6. \A i, j \in DOMAIN cq' : cq'[i].slot = cq'[j].slot => i = j
  BY <1>1, <1>2, <1>4, <1>5
<1>7. \A s : Completed(s)' <=> Completed(s) \/ s = e.slot
  BY <1>1, <1>2, <1>3, <1>5 DEF Completed
<1> QED BY <1>6, <1>7

\* The entries of the completion queue belong to slots in use.
LEMMA CompletedRing ==
  ASSUME OneOperation, NEW s, Completed(s)
  PROVE  pool[s].ring /\ ~ HasOp(s)
  BY DEF OneOperation, Completed, HasOp

\* Submitting, whether it works or not, adds the operations and nothing else.
LEMMA SubmitOps ==
  ASSUME sq \cap inflight = {}, NEW ops, ops \cap (sq \cup inflight) = {},
         Submitted(ops) \/ NotSubmitted(ops)
  PROVE  sq' \cap inflight' = {} /\ sq' \cup inflight' = sq \cup inflight \cup ops
  BY DEF Submitted, NotSubmitted

LEMMA CompletedSlot ==
  ASSUME TypeInv, NEW s, Completed(s)
  PROVE  s \in Slots
<1>1. PICK i \in DOMAIN cq : cq[i].slot = s
  BY DEF Completed
<1>2. cq[i] \in Cqes
  BY ElementOfSeq, LenProperties DEF TypeInv, RingTypes
<1> QED BY <1>1, <1>2 DEF Cqes

LEMMA OpsSlots ==
  ASSUME TypeInv, NEW o \in sq \cup inflight
  PROVE  o.slot \in Slots /\ o \in Ops
  BY OpSlot DEF TypeInv, RingTypes

LEMMA WaitingParts == \A s : Waiting(s) <=> Completed(s) \/ HasOp(s)
  BY DEF Waiting, HasOp

\* The loop gives a slot with nothing under way one new operation.
LEMMA StartOne ==
  ASSUME TypeInv, OneOperation,
         NEW s \in Slots, NEW op,
         ~ HasOp(s), ~ Completed(s)',
         \A x : Completed(x)' => Completed(x),
         \A i, j \in DOMAIN cq' : cq'[i].slot = cq'[j].slot => i = j,
         sq' \cap inflight' = {},
         sq' \cup inflight' = sq \cup inflight \cup {Op(op, s)},
         pool'[s].ring, OpOf[pool'[s].last_event] = op,
         \A x \in Slots : x # s => /\ pool'[x].ring = pool[x].ring
                                   /\ pool'[x].last_event = pool[x].last_event
  PROVE  /\ OneOperation'
         /\ \A x : HasOp(x)' <=> HasOp(x) \/ x = s
<1>1. \A o \in sq' \cup inflight' : o = Op(op, s) \/ o \in sq \cup inflight
  OBVIOUS
<1>2. \A o \in sq \cup inflight : o.slot # s /\ o.slot \in Slots
  BY OpsSlots DEF HasOp
<1>3. \A o, p \in sq' \cup inflight' : o.slot = p.slot => o = p
  BY <1>1, <1>2, OpFields DEF OneOperation
<1>4. \A o \in sq' \cup inflight' :
        /\ pool'[o.slot].ring
        /\ o.op = OpOf[pool'[o.slot].last_event]
        /\ ~ Completed(o.slot)'
  <2> TAKE o \in sq' \cup inflight'
  <2>1. CASE o = Op(op, s)
    BY <2>1, OpFields DEF Completed
  <2>2. CASE o \in sq \cup inflight
    BY <1>2, <2>2 DEF OneOperation, Completed
  <2> QED BY <1>1, <2>1, <2>2
<1>5. \A i \in DOMAIN cq' : pool'[cq'[i].slot].ring
  <2> SUFFICES ASSUME NEW i \in DOMAIN cq', NEW x, x = cq'[i].slot
               PROVE  pool'[x].ring
    OBVIOUS
  <2>1. Completed(x)'
    BY DEF Completed
  <2>2. Completed(x) /\ x # s
    BY <2>1
  <2>3. x \in Slots
    BY <2>2, CompletedSlot
  <2> QED BY <2>2, <2>3, CompletedRing
<1>6. OneOperation'
  BY <1>3, <1>4, <1>5 DEF OneOperation
<1>7. \A x : HasOp(x)' <=> HasOp(x) \/ x = s
  BY <1>1, OpFields DEF HasOp
<1> QED BY <1>6, <1>7

\* Queued slots that are left alone stay in order.
LEMMA QueueKept ==
  ASSUME PushedOnce, heap' \subseteq heap,
         \A x \in heap' : pool'[x] = pool[x] /\ ~ Completed(x)' /\ ~ HasOp(x)'
  PROVE  PushedOnce'
  BY DEF PushedOnce, Waiting, HasOp

LEMMA SlotInit == Init => SlotInv
<1> SUFFICES ASSUME Init PROVE SlotInv
  OBVIOUS
<1>1. sq = {} /\ inflight = {} /\ cq = <<>> /\ heap = {}
  BY DEF Init, Queue!QInit
<1>2. OneOperation /\ PushedOnce /\ DownIsEmpty
  BY <1>1 DEF OneOperation, PushedOnce, DownIsEmpty, Completed
<1>3. QP!QInv
  <2>1. QP!QInit
    BY DEF Init, Queue!QInit, QP!QInit
  <2> QED BY <2>1, QP!QInitInv, NoPeerAssumption DEF QP!NullAssumption
<1> QED BY <1>2, <1>3 DEF SlotInv

\* The end of the process, and a start, leave nothing to be confused about.
LEMMA ExitSlots ==
  ASSUME NEW answered, NEW links, Exit(answered, links)
  PROVE  SlotInv'
<1>1. /\ sq' = {} /\ inflight' = {} /\ cq' = <<>> /\ heap' = {}
      /\ first' = NULL /\ last' = NULL /\ next' = [s \in Slots |-> NULL]
  BY DEF Exit
<1>2. OneOperation' /\ PushedOnce' /\ DownIsEmpty'
  BY <1>1 DEF OneOperation, PushedOnce, DownIsEmpty, Completed
<1>3. QP!QInv'
  BY <1>1 DEF QP!QInv, QP!QTypeOK, QP!NoDangling, QP!Linked
<1> QED BY <1>2, <1>3 DEF SlotInv

LEMMA BootSlots ==
  ASSUME TypeInv, SlotInv, Boot
  PROVE  SlotInv'
<1>1. /\ sq' = {} /\ inflight' = {Op("accept", 0)} /\ cq' = <<>> /\ heap' = {}
      /\ pool'[0] = Accepting /\ pc' = "top"
  BY SlotsNonEmpty DEF Boot, SlotInv, DownIsEmpty, queueVars, TypeInv, ServerTypes
<1>2. Accepting.ring /\ Accepting.last_event = "ACCEPTTING" /\ OpOf["ACCEPTTING"] = "accept"
  BY DEF Accepting, Zeroed, OpOf
<1>3. OneOperation' /\ PushedOnce' /\ DownIsEmpty'
  BY <1>1, <1>2, OpFields DEF OneOperation, PushedOnce, DownIsEmpty, Completed
<1>4. QP!QInv'
  BY DEF Boot, queueVars, SlotInv, QP!QInv, QP!QTypeOK, QP!NoDangling, QP!Linked
<1> QED BY <1>3, <1>4 DEF SlotInv

\* Taking the oldest completion off the queue, for slot s in event e.
LEMMA SeenSlot ==
  ASSUME TypeInv, OneOperation, PushedOnce, NEW s \in Slots, NEW e, Seen(s, e)
  PROVE  /\ pool[s].ring /\ pool[s].last_event = e
         /\ ~ HasOp(s) /\ s \notin heap
         /\ ~ Completed(s)'
         /\ \A x : Completed(x)' => Completed(x)
         /\ \A i, j \in DOMAIN cq' : cq'[i].slot = cq'[j].slot => i = j
         /\ pc' = "top"
<1>1. /\ cq \in Seq(Cqes) /\ cq # <<>> /\ cq' = Tail(cq) /\ s = Head(cq).slot
      /\ pool[s].last_event = e /\ pc' = "top"
  BY DEF Seen, TypeInv, RingTypes
<1>2. \A i, j \in DOMAIN cq : cq[i].slot = cq[j].slot => i = j
  BY DEF OneOperation
<1>3. /\ Completed(s)
      /\ \A x : Completed(x)' => Completed(x) /\ x # s
      /\ \A i, j \in DOMAIN cq' : cq'[i].slot = cq'[j].slot => i = j
  BY <1>1, <1>2, CqTail
<1>4. s \notin heap
  BY <1>3 DEF PushedOnce, Waiting
<1> QED BY <1>1, <1>3, <1>4, CompletedRing

\* The slots that a step of the loop on slot s does not touch.
LEMMA OtherSlots ==
  ASSUME TypeInv, NEW s \in Slots, NEW r, pool' = [pool EXCEPT ![s] = r]
  PROVE  /\ pool'[s] = r
         /\ \A x \in Slots : x # s => pool'[x] = pool[x]
  BY DEF TypeInv, ServerTypes

\* One completion that turns into the next operation of the same slot: a
\* response to write, or a socket to close.
LEMMA NextOperation ==
  ASSUME TypeInv, SlotInv,
         NEW s \in Slots, NEW e, Seen(s, e), NEW op, NEW r,
         pool' = [pool EXCEPT ![s] = r],
         r.ring, OpOf[r.last_event] = op,
         Submit(Op(op, s)), UNCHANGED queueVars
  PROVE  SlotInv'
<1> USE DEF SlotInv
<1>1. /\ ~ HasOp(s) /\ s \notin heap /\ ~ Completed(s)' /\ pc' = "top"
      /\ \A x : Completed(x)' => Completed(x)
      /\ \A i, j \in DOMAIN cq' : cq'[i].slot = cq'[j].slot => i = j
  BY SeenSlot
<1>2. {Op(op, s)} \cap (sq \cup inflight) = {}
  BY <1>1, OpFields DEF HasOp
<1>3. /\ sq' \cap inflight' = {}
      /\ sq' \cup inflight' = sq \cup inflight \cup {Op(op, s)}
  BY <1>2, SubmitOps DEF Submit, OneOperation
<1>4. /\ OneOperation'
      /\ \A x : HasOp(x)' <=> HasOp(x) \/ x = s
  <2>1. /\ pool'[s].ring /\ OpOf[pool'[s].last_event] = op
        /\ \A x \in Slots : x # s => /\ pool'[x].ring = pool[x].ring
                                  /\ pool'[x].last_event = pool[x].last_event
    BY OtherSlots
  <2> QED BY <1>1, <1>3, <2>1, StartOne
<1>5. heap' = heap /\ QP!QInv'
  BY DEF queueVars, QP!QInv, QP!QTypeOK, QP!NoDangling, QP!Linked
<1>6. \A x \in heap' : pool'[x] = pool[x] /\ ~ Completed(x)' /\ ~ HasOp(x)'
  <2> TAKE x \in heap'
  <2>1. x \in heap /\ x # s /\ x \in Slots
    BY <1>1, <1>5 DEF TypeInv, QueueTypes
  <2>2. ~ Completed(x) /\ ~ HasOp(x)
    BY <2>1, WaitingParts DEF PushedOnce
  <2> QED BY <1>1, <1>4, <2>1, <2>2, OtherSlots
<1>7. PushedOnce'
  BY <1>5, <1>6, QueueKept
<1>8. DownIsEmpty'
  BY <1>1 DEF DownIsEmpty
<1> QED BY <1>4, <1>5, <1>7, <1>8

LEMMA OpNames ==
  /\ OpOf["ACCEPTTING"] = "accept" /\ OpOf["READING"] = "read"
  /\ OpOf["WRITING"] = "write" /\ OpOf["CLOSING"] = "close"
  /\ OpOf["DB_RESPONDING"] = "dbread"
  BY DEF OpOf

LEMMA WritingFields ==
  ASSUME NEW r \in ReqRes, NEW t
  PROVE  Writing(r, t).ring = r.ring /\ Writing(r, t).last_event = "WRITING"
  BY DEF Writing, ReqRes

LEMMA LoopSlots ==
  ASSUME TypeInv, SlotInv, ServerLoop
  PROVE  SlotInv'
<1> USE DEF SlotInv
<1>1. CASE OnError
  <2>1. cq # <<>> /\ cq' = Tail(cq) /\ pc' = "top"
    BY <1>1 DEF OnError
  <2>2. /\ pool' = pool /\ sq' = sq /\ inflight' = inflight /\ heap' = heap
        /\ first' = first /\ last' = last /\ next' = next
    BY <1>1 DEF OnError, queueVars
  <2>3. /\ \A x : Completed(x)' => Completed(x)
        /\ \A i, j \in DOMAIN cq' : cq'[i].slot = cq'[j].slot => i = j
    BY <2>1, CqTail DEF TypeInv, RingTypes, OneOperation
  <2>4. \A x : HasOp(x)' <=> HasOp(x)
    BY <2>2 DEF HasOp
  <2>5. \A i \in DOMAIN cq' : pool'[cq'[i].slot].ring
    <3> SUFFICES ASSUME NEW i \in DOMAIN cq', NEW x, x = cq'[i].slot
                 PROVE  pool[x].ring
      BY <2>2
    <3>1. Completed(x)'
      BY DEF Completed
    <3> QED BY <2>3, <3>1, CompletedRing
  <2>6. OneOperation'
    <3>1. \A o \in sq \cup inflight : ~ Completed(o.slot)'
      BY <2>3 DEF OneOperation
    <3>2. \A o \in sq' \cup inflight' : ~ Completed(o.slot)'
      BY <2>2, <3>1
    <3> QED BY <2>2, <2>3, <2>5, <3>2 DEF OneOperation
  <2>7. PushedOnce'
    BY <2>2, <2>3, <2>4, WaitingParts, QueueKept DEF PushedOnce
  <2>8. QP!QInv'
    BY <2>2 DEF QP!QInv, QP!QTypeOK, QP!NoDangling, QP!Linked
  <2> QED BY <2>1, <2>6, <2>7, <2>8 DEF DownIsEmpty
<1>2. CASE OnAccepted
  <2> PICK s \in Slots, t \in Slots :
        /\ Seen(s, "ACCEPTTING")
        /\ Least(t, FreeSlots)
        /\ pool' = [pool EXCEPT
             ![s] = [@ EXCEPT !.client_fd = Head(cq).fd, !.last_event = "READING"],
             ![t] = Accepting]
        /\ \/ Submitted({Op("read", s), Op("accept", t)})
           \/ NotSubmitted({Op("read", s), Op("accept", t)})
           \/ /\ inflight' = inflight \cup sq \cup {Op("read", s)}
              /\ sq' = {Op("accept", t)}
    BY <1>2 DEF OnAccepted
  <2> DEFINE a == Op("accept", t)
             b == Op("read", s)
             r == [pool[s] EXCEPT !.client_fd = Head(cq).fd, !.last_event = "READING"]
  <2>1. /\ pool[s].ring /\ ~ HasOp(s) /\ s \notin heap /\ ~ Completed(s)' /\ pc' = "top"
        /\ \A x : Completed(x)' => Completed(x)
        /\ \A i, j \in DOMAIN cq' : cq'[i].slot = cq'[j].slot => i = j
    BY SeenSlot
  <2>2. /\ ~ pool[t].ring /\ t # s /\ ~ HasOp(t) /\ t \notin heap /\ ~ Completed(t)'
    <3>1. ~ pool[t].ring
      BY DEF Least, FreeSlots
    <3>2. ~ HasOp(t) /\ ~ Completed(t)
      BY <3>1, CompletedRing DEF OneOperation, HasOp
    <3> QED BY <2>1, <3>1, <3>2 DEF PushedOnce
  <2>3. /\ r.ring /\ r.last_event = "READING"
        /\ Accepting.ring /\ Accepting.last_event = "ACCEPTTING"
    BY <2>1, SlotFields DEF ReqRes, Accepting, Zeroed
  <2>4. pool' = [[pool EXCEPT ![s] = r] EXCEPT ![t] = Accepting]
    OBVIOUS
  <2>5. a.slot = t /\ a.op = "accept" /\ b.slot = s /\ b.op = "read"
    BY OpFields
  <2> HIDE DEF a, b, r
  <2>6. /\ pool'[s] = r /\ pool'[t] = Accepting
        /\ \A x \in Slots : x # s /\ x # t => pool'[x] = pool[x]
    BY <2>2, <2>4 DEF TypeInv, ServerTypes
  <2>7. /\ sq' \cap inflight' = {}
        /\ sq' \cup inflight' = sq \cup inflight \cup {a, b}
    <3>1. a \notin sq \cup inflight /\ b \notin sq \cup inflight /\ a # b
      BY <2>1, <2>2, <2>5 DEF HasOp
    <3>2. \/ Submitted({b, a}) \/ NotSubmitted({b, a})
          \/ inflight' = inflight \cup sq \cup {b} /\ sq' = {a}
      BY DEF a, b
    <3>3. CASE Submitted({b, a}) \/ NotSubmitted({b, a})
      BY <3>1, <3>3 DEF Submitted, NotSubmitted, OneOperation
    <3>4. CASE inflight' = inflight \cup sq \cup {b} /\ sq' = {a}
      BY <3>1, <3>4
    <3> QED BY <3>2, <3>3, <3>4
  <2>8. \A x : HasOp(x)' <=> HasOp(x) \/ x = s \/ x = t
    BY <2>5, <2>7 DEF HasOp
  <2>9. \A i \in DOMAIN cq' : pool'[cq'[i].slot].ring
    <3> SUFFICES ASSUME NEW i \in DOMAIN cq', NEW x, x = cq'[i].slot
                 PROVE  pool'[x].ring
      OBVIOUS
    <3>1. Completed(x)'
      BY DEF Completed
    <3>2. x \in Slots /\ pool[x].ring
      BY <2>1, <3>1, CompletedRing, CompletedSlot
    <3> QED BY <2>3, <2>6, <3>2
  <2>10. OneOperation'
    <3>1. \A o \in sq \cup inflight :
            /\ o.slot # s /\ o.slot # t /\ o.slot \in Slots /\ ~ Completed(o.slot)'
            /\ pool[o.slot].ring /\ o.op = OpOf[pool[o.slot].last_event]
      BY <2>1, <2>2, OpsSlots DEF OneOperation, HasOp
    <3>2. \A o \in {a, b} :
            /\ ~ Completed(o.slot)'
            /\ pool'[o.slot].ring /\ o.op = OpOf[pool'[o.slot].last_event]
      <4>1. /\ ~ Completed(a.slot)'
            /\ pool'[a.slot].ring /\ a.op = OpOf[pool'[a.slot].last_event]
        BY <2>2, <2>3, <2>5, <2>6, OpNames DEF Completed
      <4>2. /\ ~ Completed(b.slot)'
            /\ pool'[b.slot].ring /\ b.op = OpOf[pool'[b.slot].last_event]
        BY <2>1, <2>3, <2>5, <2>6, OpNames DEF Completed
      <4> QED BY <4>1, <4>2 DEF Completed
    <3>3. \A o \in sq' \cup inflight' :
            /\ ~ Completed(o.slot)'
            /\ pool'[o.slot].ring /\ o.op = OpOf[pool'[o.slot].last_event]
      BY <2>6, <2>7, <3>1, <3>2
    <3>4. \A o, p \in sq' \cup inflight' : o.slot = p.slot => o = p
      BY <2>2, <2>5, <2>7, <3>1 DEF OneOperation
    <3> QED BY <2>1, <2>7, <2>9, <3>3, <3>4 DEF OneOperation
  <2>11. heap' = heap /\ first' = first /\ last' = last /\ next' = next
    BY <1>2 DEF OnAccepted, queueVars
  <2>12. PushedOnce'
    <3>1. ASSUME NEW x \in heap
          PROVE  pool'[x] = pool[x] /\ ~ Completed(x)' /\ ~ HasOp(x)'
      <4>1. x # s /\ x # t /\ x \in Slots
        BY <2>1, <2>2 DEF TypeInv, QueueTypes
      <4>2. ~ Completed(x) /\ ~ HasOp(x)
        BY WaitingParts DEF PushedOnce
      <4> QED BY <2>1, <2>6, <2>8, <4>1, <4>2
    <3> QED BY <2>11, <3>1, QueueKept
  <2>13. QP!QInv' /\ DownIsEmpty'
    BY <2>1, <2>11 DEF QP!QInv, QP!QTypeOK, QP!NoDangling, QP!Linked, DownIsEmpty
  <2> QED BY <2>10, <2>12, <2>13
<1>3. CASE OnAcceptedFull
  BY <1>3, ExitSlots DEF OnAcceptedFull
<1>4. CASE OnReadAnswered
  <2> PICK s \in Slots :
        /\ Seen(s, "READING")
        /\ pool' = [pool EXCEPT ![s] =
                      Writing(@, Text(StaticAnswer[Request(s)], @.buffer.about))]
        /\ Submit(Op("write", s))
    BY <1>4 DEF OnReadAnswered
  <2> DEFINE w == Writing(pool[s], Text(StaticAnswer[Request(s)], pool[s].buffer.about))
  <2>1. w.ring /\ OpOf[w.last_event] = "write"
    BY SeenSlot, SlotFields, WritingFields, OpNames
  <2>2. pool' = [pool EXCEPT ![s] = w] /\ UNCHANGED queueVars
    BY <1>4 DEF OnReadAnswered
  <2> HIDE DEF w
  <2> QED BY <2>1, <2>2, NextOperation
<1>5. CASE OnReadQueued
  <2> PICK s \in Slots :
        /\ Seen(s, "READING")
        /\ pool' = [pool EXCEPT ![s] = [@ EXCEPT
                      !.db_data = "allocated",
                      !.db_request_sender =
                         IF Request(s) = "extrato" THEN "extrato" ELSE "transacao"]]
        /\ Queue!queu_push(s)
    BY <1>5 DEF OnReadQueued
  <2> DEFINE sender == IF Request(s) = "extrato" THEN "extrato" ELSE "transacao"
             r == [pool[s] EXCEPT !.db_data = "allocated", !.db_request_sender = sender]
  <2>1. /\ pool[s].ring /\ ~ HasOp(s) /\ s \notin heap /\ ~ Completed(s)' /\ pc' = "top"
        /\ \A x : Completed(x)' => Completed(x)
        /\ \A i, j \in DOMAIN cq' : cq'[i].slot = cq'[j].slot => i = j
        /\ pool[s].last_event = "READING"
    BY SeenSlot
  <2>2. /\ r.ring = pool[s].ring /\ r.last_event = pool[s].last_event
        /\ r.db_data = "allocated" /\ r.db_request_sender # "none"
    <3>1. sender # "none"
      OBVIOUS
    <3> HIDE DEF sender
    <3> QED BY <3>1, SlotFields DEF ReqRes
  <2>3. pool' = [pool EXCEPT ![s] = r]
    OBVIOUS
  <2> HIDE DEF r
  <2>4. /\ pool'[s] = r
        /\ \A x \in Slots : x # s => pool'[x] = pool[x]
    BY <2>3, OtherSlots
  <2>5. sq' = sq /\ inflight' = inflight /\ heap' = heap \cup {s}
    BY <1>5 DEF OnReadQueued, Queue!queu_push
  <2>6. \A x : HasOp(x)' <=> HasOp(x)
    BY <2>5 DEF HasOp
  <2>7. \A i \in DOMAIN cq' : pool'[cq'[i].slot].ring
    <3> SUFFICES ASSUME NEW i \in DOMAIN cq', NEW x, x = cq'[i].slot
                 PROVE  pool'[x].ring
      OBVIOUS
    <3>1. Completed(x)'
      BY DEF Completed
    <3>2. Completed(x) /\ x \in Slots /\ pool[x].ring
      BY <2>1, <3>1, CompletedRing, CompletedSlot
    <3> QED BY <2>2, <2>4, <3>2
  <2>8. OneOperation'
    <3>1. \A o \in sq \cup inflight :
            /\ o.slot # s /\ o.slot \in Slots /\ ~ Completed(o.slot)'
            /\ pool[o.slot].ring /\ o.op = OpOf[pool[o.slot].last_event]
      BY <2>1, OpsSlots DEF OneOperation, HasOp
    <3>2. \A o \in sq' \cup inflight' :
            /\ ~ Completed(o.slot)'
            /\ pool'[o.slot].ring /\ o.op = OpOf[pool'[o.slot].last_event]
      BY <2>4, <2>5, <3>1
    <3> QED BY <2>1, <2>5, <2>7, <3>2 DEF OneOperation
  <2>9. PushedOnce'
    <3>1. ASSUME NEW x \in heap
          PROVE  pool'[x] = pool[x] /\ ~ Completed(x)' /\ ~ HasOp(x)'
      <4>1. x # s /\ x \in Slots
        BY <2>1 DEF TypeInv, QueueTypes
      <4>2. ~ Completed(x) /\ ~ HasOp(x)
        BY WaitingParts DEF PushedOnce
      <4> QED BY <2>1, <2>4, <2>6, <4>1, <4>2
    <3>2. \A x \in heap : ~ Waiting(x)'
      BY <3>1 DEF Waiting, HasOp
    <3>3. ~ Waiting(s)'
      BY <2>1, <2>6 DEF Waiting, HasOp
    <3> QED BY <2>1, <2>2, <2>4, <2>5, <3>1, <3>2, <3>3 DEF PushedOnce
  <2>10. QP!QInv' /\ DownIsEmpty'
    BY <2>1, PushSound DEF DownIsEmpty
  <2> QED BY <2>8, <2>9, <2>10
<1>6. CASE OnReadExit
  BY <1>6, ExitSlots DEF OnReadExit
<1>7. CASE OnDbResponding
  <2> PICK s \in Slots :
        /\ Seen(s, "DB_RESPONDING")
        /\ pool' = [pool EXCEPT ![s] = Writing(@,
             end_async(@.db_response_handler, Result(pool[s].dbconn), @.client_fd,
                       pg[pool[s].dbconn].query))]
        /\ Submit(Op("write", s))
    BY <1>7 DEF OnDbResponding
  <2> DEFINE w == Writing(pool[s],
             end_async(pool[s].db_response_handler, Result(pool[s].dbconn), pool[s].client_fd,
                       pg[pool[s].dbconn].query))
  <2>1. w.ring /\ OpOf[w.last_event] = "write"
    BY SeenSlot, SlotFields, WritingFields, OpNames
  <2>2. pool' = [pool EXCEPT ![s] = w] /\ UNCHANGED queueVars
    BY <1>7 DEF OnDbResponding
  <2> HIDE DEF w
  <2> QED BY <2>1, <2>2, NextOperation
<1>8. CASE OnWritten
  <2> PICK s \in Slots : /\ Seen(s, "WRITING")
                         /\ pool' = [pool EXCEPT ![s].last_event = "CLOSING"]
                         /\ Submit(Op("close", s))
    BY <1>8 DEF OnWritten
  <2> DEFINE r == [pool[s] EXCEPT !.last_event = "CLOSING"]
  <2>1. r.ring /\ OpOf[r.last_event] = "close"
    BY SeenSlot, SlotFields, OpNames DEF ReqRes
  <2>2. pool' = [pool EXCEPT ![s] = r] /\ UNCHANGED queueVars
    BY <1>8 DEF OnWritten
  <2> HIDE DEF r
  <2> QED BY <2>1, <2>2, NextOperation
<1>9. CASE OnClosed
  <2> PICK s \in Slots : Seen(s, "CLOSING") /\ pool' = [pool EXCEPT ![s] = Zeroed]
    BY <1>9 DEF OnClosed
  <2>1. /\ ~ HasOp(s) /\ s \notin heap /\ ~ Completed(s)' /\ pc' = "top"
        /\ \A x : Completed(x)' => Completed(x)
        /\ \A i, j \in DOMAIN cq' : cq'[i].slot = cq'[j].slot => i = j
    BY SeenSlot
  <2>2. \A x \in Slots : x # s => pool'[x] = pool[x]
    BY OtherSlots
  <2>3. /\ sq' = sq /\ inflight' = inflight /\ heap' = heap
        /\ first' = first /\ last' = last /\ next' = next
    BY <1>9 DEF OnClosed, queueVars
  <2>4. \A x : HasOp(x)' <=> HasOp(x)
    BY <2>3 DEF HasOp
  <2>5. \A i \in DOMAIN cq' : pool'[cq'[i].slot].ring
    <3> SUFFICES ASSUME NEW i \in DOMAIN cq', NEW x, x = cq'[i].slot
                 PROVE  pool'[x].ring
      OBVIOUS
    <3>1. Completed(x)'
      BY DEF Completed
    <3>2. x # s
      BY <2>1, <3>1
    <3>3. x \in Slots /\ pool[x].ring
      BY <2>1, <3>1, CompletedRing, CompletedSlot
    <3> QED BY <2>2, <3>2, <3>3
  <2>6. OneOperation'
    <3>1. \A o \in sq \cup inflight :
            /\ o.slot # s /\ o.slot \in Slots /\ ~ Completed(o.slot)'
            /\ pool[o.slot].ring /\ o.op = OpOf[pool[o.slot].last_event]
      BY <2>1, OpsSlots DEF OneOperation, HasOp
    <3>2. \A o \in sq' \cup inflight' :
            /\ ~ Completed(o.slot)'
            /\ pool'[o.slot].ring /\ o.op = OpOf[pool'[o.slot].last_event]
      BY <2>2, <2>3, <3>1
    <3> QED BY <2>1, <2>3, <2>5, <3>2 DEF OneOperation
  <2>7. PushedOnce'
    <3>1. ASSUME NEW x \in heap
          PROVE  pool'[x] = pool[x] /\ ~ Completed(x)' /\ ~ HasOp(x)'
      <4>1. x # s /\ x \in Slots
        BY <2>1 DEF TypeInv, QueueTypes
      <4>2. ~ Completed(x) /\ ~ HasOp(x)
        BY WaitingParts DEF PushedOnce
      <4> QED BY <2>1, <2>2, <2>4, <4>1, <4>2
    <3> QED BY <2>3, <3>1, QueueKept
  <2>8. QP!QInv' /\ DownIsEmpty'
    BY <2>1, <2>3 DEF QP!QInv, QP!QTypeOK, QP!NoDangling, QP!Linked, DownIsEmpty
  <2> QED BY <2>6, <2>7, <2>8
<1> QED BY <1>1, <1>2, <1>3, <1>4, <1>5, <1>6, <1>7, <1>8, <1>9 DEF ServerLoop

\* queu_dispatch takes slot s from the queue and gives it an operation.
LEMMA PoppedOperation ==
  ASSUME TypeInv, SlotInv,
         NEW s \in Slots, Queue!queu_pop(s), NEW op, NEW r,
         pool' = [pool EXCEPT ![s] = r],
         pool[s].ring => r.ring, OpOf[r.last_event] = op,
         Submit(Op(op, s)), cq' = cq, pc' # "down"
  PROVE  SlotInv'
<1> USE DEF SlotInv
<1>1. s \in heap /\ heap' = heap \ {s} /\ QP!QInv'
  BY PopSound DEF Queue!queu_pop, QP!QInv, QP!NoDangling
<1>2. pool[s].ring /\ ~ Completed(s) /\ ~ HasOp(s)
  BY <1>1, WaitingParts DEF PushedOnce
<1>3. {Op(op, s)} \cap (sq \cup inflight) = {}
  BY <1>2, OpFields DEF HasOp
<1>4. /\ sq' \cap inflight' = {}
      /\ sq' \cup inflight' = sq \cup inflight \cup {Op(op, s)}
  BY <1>3, SubmitOps DEF Submit, OneOperation
<1>5. /\ \A x : Completed(x)' <=> Completed(x)
      /\ \A i, j \in DOMAIN cq' : cq'[i].slot = cq'[j].slot => i = j
  BY DEF Completed, OneOperation
<1>6. /\ pool'[s].ring /\ OpOf[pool'[s].last_event] = op
      /\ \A x \in Slots : x # s => pool'[x] = pool[x]
  BY <1>2, OtherSlots
<1>7. /\ OneOperation'
      /\ \A x : HasOp(x)' <=> HasOp(x) \/ x = s
  BY <1>2, <1>4, <1>5, <1>6, StartOne
<1>8. ASSUME NEW x \in heap'
      PROVE  pool'[x] = pool[x] /\ ~ Completed(x)' /\ ~ HasOp(x)'
  <2>1. x \in heap /\ x # s /\ x \in Slots
    BY <1>1 DEF TypeInv, QueueTypes
  <2>2. ~ Completed(x) /\ ~ HasOp(x)
    BY <2>1, WaitingParts DEF PushedOnce
  <2> QED BY <1>5, <1>6, <1>7, <2>1, <2>2
<1>9. PushedOnce'
  BY <1>1, <1>8, QueueKept
<1> QED BY <1>1, <1>7, <1>9 DEF DownIsEmpty

\* A step that leaves slots, queue and operations alone.
LEMMA SlotsUnchanged ==
  ASSUME SlotInv, pool' = pool, UNCHANGED queueVars, UNCHANGED ringVars,
         pc' = "down" => pc = "down"
  PROVE  SlotInv'
  BY DEF SlotInv, OneOperation, PushedOnce, Waiting, Completed, DownIsEmpty, queueVars, ringVars,
     QP!QInv, QP!QTypeOK, QP!NoDangling, QP!Linked

LEMMA DispatchSlots ==
  ASSUME TypeInv, SlotInv, QueuDispatch
  PROVE  SlotInv'
<1>1. CASE DispatchStart \/ DispatchNoConn \/ DispatchEmpty
  BY <1>1, SlotsUnchanged DEF DispatchStart, DispatchNoConn, DispatchEmpty
<1>2. CASE DispatchRefuse
  <2> PICK s \in Slots :
        /\ Queue!queu_pop(s)
        /\ pool' = [pool EXCEPT ![s] =
                     Writing([@ EXCEPT !.dbconn = dbconn, !.db_data = "freed"],
                             Text("UNPROCESSABLE", pool[s].buffer.about))]
        /\ Submit(Op("write", s))
    BY <1>2 DEF DispatchRefuse
  <2> DEFINE q == [pool[s] EXCEPT !.dbconn = dbconn, !.db_data = "freed"]
             w == Writing(q, Text("UNPROCESSABLE", pool[s].buffer.about))
  <2>1. q \in ReqRes /\ q.ring = pool[s].ring
    BY SlotFields DEF ReqRes, TypeInv, ServerTypes
  <2>2. w.ring = pool[s].ring /\ OpOf[w.last_event] = "write"
    <3> HIDE DEF q
    <3> QED BY <2>1, WritingFields, OpNames
  <2>3. pool' = [pool EXCEPT ![s] = w] /\ cq' = cq /\ pc' # "down"
    BY <1>2 DEF DispatchRefuse
  <2> HIDE DEF w
  <2> QED BY <2>2, <2>3, PoppedOperation
<1>3. CASE DispatchSend
  <2> PICK s \in Slots :
        /\ Queue!queu_pop(s)
        /\ pool' = [pool EXCEPT ![s] =
                     [@ EXCEPT !.dbconn = dbconn, !.db_data = "freed",
                               !.db_response_handler = pool[s].db_request_sender,
                               !.last_event = "DB_RESPONDING"]]
        /\ Submitted({Op("dbread", s)})
    BY <1>3 DEF DispatchSend
  <2> DEFINE r == [pool[s] EXCEPT !.dbconn = dbconn, !.db_data = "freed",
                               !.db_response_handler = pool[s].db_request_sender,
                               !.last_event = "DB_RESPONDING"]
  <2>1. r.ring = pool[s].ring /\ OpOf[r.last_event] = "dbread"
    BY SlotFields, OpNames DEF ReqRes
  <2>2. pool' = [pool EXCEPT ![s] = r] /\ cq' = cq /\ pc' # "down" /\ Submit(Op("dbread", s))
    BY <1>3 DEF DispatchSend, Submit
  <2> HIDE DEF r
  <2> QED BY <2>1, <2>2, PoppedOperation
<1>4. CASE DispatchFatal
  BY <1>4, ExitSlots DEF DispatchFatal
<1> QED BY <1>1, <1>2, <1>3, <1>4 DEF QueuDispatch

\* The kernel finishes operation o; the read of a request also fills a buffer.
LEMMA CompletionSlots ==
  ASSUME TypeInv, SlotInv, NEW o \in inflight, NEW e \in Cqes, e.slot = o.slot,
         Complete(o, e), sq' = sq, UNCHANGED queueVars, pc' = pc,
         \A x \in Slots : /\ pool'[x].ring = pool[x].ring
                          /\ pool'[x].last_event = pool[x].last_event
                          /\ x # o.slot => pool'[x] = pool[x]
  PROVE  SlotInv'
<1> USE DEF SlotInv
<1>1. /\ inflight' = inflight \ {o} /\ cq' = Append(cq, e) /\ o.slot \in Slots
      /\ o.slot \notin heap /\ pool[o.slot].ring /\ ~ Completed(o.slot)
  BY OpsSlots DEF Complete, OneOperation, PushedOnce, Waiting
<1>2. /\ \A i, j \in DOMAIN cq' : cq'[i].slot = cq'[j].slot => i = j
      /\ \A x : Completed(x)' <=> Completed(x) \/ x = o.slot
  BY <1>1, CqAppend DEF OneOperation, TypeInv, RingTypes
<1>3. \A p \in sq' \cup inflight' :
        /\ p \in sq \cup inflight /\ p.slot # o.slot /\ p.slot \in Slots
        /\ ~ Completed(p.slot) /\ pool[p.slot].ring /\ p.op = OpOf[pool[p.slot].last_event]
  BY <1>1, OpsSlots DEF OneOperation
<1>4. \A p \in sq' \cup inflight' :
        /\ pool'[p.slot].ring /\ p.op = OpOf[pool'[p.slot].last_event]
        /\ ~ Completed(p.slot)'
  BY <1>2, <1>3
<1>5. \A i \in DOMAIN cq' : pool'[cq'[i].slot].ring
  <2> SUFFICES ASSUME NEW i \in DOMAIN cq', NEW x, x = cq'[i].slot
               PROVE  pool'[x].ring
    OBVIOUS
  <2>1. Completed(x)'
    BY DEF Completed
  <2>2. CASE x = o.slot
    BY <1>1, <2>2
  <2>3. CASE Completed(x)
    BY <2>3, CompletedRing, CompletedSlot
  <2> QED BY <1>2, <2>1, <2>2, <2>3
<1>6. sq' \cap inflight' = {} /\ \A p, q \in sq' \cup inflight' : p.slot = q.slot => p = q
  BY <1>1 DEF OneOperation
<1>7. OneOperation'
  BY <1>2, <1>4, <1>5, <1>6 DEF OneOperation
<1>8. heap' = heap /\ first' = first /\ last' = last /\ next' = next
  BY DEF queueVars
<1>9. ASSUME NEW x \in heap
      PROVE  pool'[x] = pool[x] /\ ~ Completed(x)' /\ ~ HasOp(x)'
  <2>1. x # o.slot /\ x \in Slots
    BY <1>1 DEF TypeInv, QueueTypes
  <2>2. ~ Completed(x) /\ ~ HasOp(x)
    BY WaitingParts DEF PushedOnce
  <2>3. ~ HasOp(x)'
    BY <1>3, <2>2 DEF HasOp
  <2> QED BY <1>2, <2>1, <2>2, <2>3
<1>10. PushedOnce'
  BY <1>8, <1>9, QueueKept
<1>11. QP!QInv' /\ DownIsEmpty'
  BY <1>8 DEF QP!QInv, QP!QTypeOK, QP!NoDangling, QP!Linked, DownIsEmpty
<1> QED BY <1>7, <1>10, <1>11

LEMMA KernelSlots ==
  ASSUME TypeInv, SlotInv, Kernel
  PROVE  SlotInv'
<1>1. ASSUME NEW o \in inflight, NEW f \in BOOLEAN, NEW fd \in Clients \cup {NULL}
      PROVE  Cqe(o.slot, f, fd) \in Cqes /\ Cqe(o.slot, f, fd).slot = o.slot
  BY OpsSlots, CqeType DEF Cqe
<1>2. CASE CompleteAccept
  <2> PICK o \in inflight : Complete(o, Cqe(o.slot, FALSE, Head(backlog)))
    BY <1>2 DEF CompleteAccept
  <2>1. Head(backlog) \in Clients
    BY <1>2, HeadTailProperties DEF CompleteAccept, TypeInv, PeerTypes
  <2> QED BY <1>1, <1>2, <2>1, CompletionSlots DEF CompleteAccept, serverVars
<1>3. CASE CompleteRead
  <2> PICK o \in inflight :
        /\ pool' = [pool EXCEPT ![o.slot].buffer = Text("request", pool[o.slot].client_fd)]
        /\ Complete(o, Cqe(o.slot, FALSE, NULL))
    BY <1>3 DEF CompleteRead
  <2> DEFINE r == [pool[o.slot] EXCEPT !.buffer = Text("request", pool[o.slot].client_fd)]
  <2>1. o.slot \in Slots
    BY OpsSlots
  <2>2. r.ring = pool[o.slot].ring /\ r.last_event = pool[o.slot].last_event
    BY <2>1, SlotFields DEF ReqRes
  <2>3. pool' = [pool EXCEPT ![o.slot] = r]
    OBVIOUS
  <2> HIDE DEF r
  <2>4. \A x \in Slots : /\ pool'[x].ring = pool[x].ring
                         /\ pool'[x].last_event = pool[x].last_event
                         /\ x # o.slot => pool'[x] = pool[x]
    BY <2>1, <2>2, <2>3, OtherSlots
  <2> QED BY <1>1, <1>3, <2>4, CompletionSlots DEF CompleteRead
<1>4. CASE CompleteWrite
  <2> PICK o \in inflight : Complete(o, Cqe(o.slot, FALSE, NULL))
    BY <1>4 DEF CompleteWrite
  <2> QED BY <1>1, <1>4, CompletionSlots DEF CompleteWrite, serverVars
<1>5. CASE CompleteClose
  <2> PICK o \in inflight : Complete(o, Cqe(o.slot, FALSE, NULL))
    BY <1>5 DEF CompleteClose
  <2> QED BY <1>1, <1>5, CompletionSlots DEF CompleteClose, serverVars
<1>6. CASE CompleteDbRead
  <2> PICK o \in inflight : Complete(o, Cqe(o.slot, FALSE, NULL))
    BY <1>6 DEF CompleteDbRead
  <2> QED BY <1>1, <1>6, CompletionSlots DEF CompleteDbRead, serverVars
<1>7. CASE CompleteError
  <2> PICK o \in inflight : Complete(o, Cqe(o.slot, TRUE, NULL))
    BY <1>7 DEF CompleteError
  <2> QED BY <1>1, <1>7, CompletionSlots DEF CompleteError, serverVars
<1> QED BY <1>2, <1>3, <1>4, <1>5, <1>6, <1>7 DEF Kernel

\* Every step keeps the discipline.
LEMMA SlotStep == TypeInv /\ SlotInv /\ [Next]_vars => SlotInv'
<1> SUFFICES ASSUME TypeInv, SlotInv, [Next]_vars PROVE SlotInv'
  OBVIOUS
<1>1. CASE Crash
  BY <1>1, ExitSlots DEF Crash
<1>2. CASE World
  <2>1. UNCHANGED serverVars /\ UNCHANGED queueVars /\ UNCHANGED ringVars
    BY <1>2 DEF World, BackendRuns, OrphanRuns, CutLink, Connect
  <2> QED BY <2>1, SlotsUnchanged DEF serverVars
<1>3. CASE UNCHANGED vars
  BY <1>3, SlotsUnchanged DEF vars, serverVars
<1> QED BY <1>1, <1>2, <1>3, BootSlots, DispatchSlots, LoopSlots, KernelSlots DEF Next

\* The slots, the queue of pending requests and the ring agree in every state
\* (server.c:27-137): the inductive invariant of this module.
THEOREM SlotInvariant == Spec => []SlotInv
  BY SlotInit, SlotStep, TypeInvariant, PTL DEF Spec

\* A slot never has two operations under way, and the one it has is the one
\* its last_event names, so every completion is understood as what it is:
\* for any number of slots and peers, through failed operations, failed
\* submits, lost connections, /exit and restarts.
THEOREM SlotsHaveOneOperation == Spec => []OneOperation
<1>1. SlotInv => OneOperation
  BY DEF SlotInv
<1> QED BY <1>1, SlotInvariant, PTL

\* A slot is never queued twice, and a queued request is ready for its sender.
THEOREM SlotsPushedOnce == Spec => []PushedOnce
<1>1. SlotInv => PushedOnce
  BY DEF SlotInv
<1> QED BY <1>1, SlotInvariant, PTL

\* The queue of the running server never dangles and never trips its own
\* UNREACHABLE assertion.
THEOREM ServerQueueIsSound == Spec => []QueueIsSound
<1>1. SlotInv => QueueIsSound
  BY DEF SlotInv, QueueIsSound, Queue!NoDangling, QP!QInv, QP!NoDangling
<1> QED BY <1>1, SlotInvariant, PTL
-----------------------------------------------------------------------------
(***************************************************************************)
(* The connections and the answers.  When every body that reaches a sender *)
(* parses, a database connection is never shared and every client gets the *)
(* answer to its own request.  The assumption is the one the code needs: a *)
(* sender that refuses a body makes queu_dispatch use a connection it has  *)
(* released.                                                               *)
(***************************************************************************)
BodiesParse == "badbody" \notin Kinds

Responding(s) == pool[s].last_event = "DB_RESPONDING"
Owns(s, d) == Responding(s) /\ pool[s].dbconn = d

\* The accounts of DBCONNS_USED, and what libpq is doing on each connection.
ConnInv ==
  /\ pc # "dispatch" => dbconn = NULL
  /\ pc = "down" => \A s \in Slots : ~ Responding(s)
  /\ \A s, t \in Slots : Responding(s) /\ Responding(t) /\ pool[s].dbconn = pool[t].dbconn => s = t
  /\ \A s \in Slots : Responding(s) => /\ pool[s].ring
                                       /\ pool[s].dbconn # dbconn /\ used[pool[s].dbconn]
  /\ dbconn # NULL => used[dbconn]
  /\ \A d \in DBConns : used[d] => dbconn = d \/ \E s \in Slots : Owns(s, d)
  /\ \A s \in Slots : Responding(s) => /\ pg[pool[s].dbconn].query = pool[s].client_fd
                                       /\ pg[pool[s].dbconn].link # "closed"
  /\ \A d \in DBConns : (\A s \in Slots : ~ Owns(s, d)) => pg[d].query = NULL /\ pg[d].reply = "none"

\* A completion carries what its event needs.
EntryOK(e) ==
  ~ e.failed => /\ pool[e.slot].last_event = "ACCEPTTING" => e.fd \in Clients
                /\ pool[e.slot].last_event = "READING" => pool[e.slot].buffer.about = pool[e.slot].client_fd

\* Every text is about the client whose socket the slot holds.
TextInv ==
  /\ \A s \in Slots : pool[s].last_event # "ACCEPTTING" => pool[s].client_fd \in Clients
  /\ \A s \in Slots : s \in heap \/ pool[s].last_event \in {"DB_RESPONDING", "WRITING"}
                        => pool[s].buffer.about = pool[s].client_fd
  /\ \A i \in DOMAIN cq : EntryOK(cq[i])
  /\ OwnAnswer

AnswerInv == ConnInv /\ TextInv
-----------------------------------------------------------------------------
LEMMA AnswerInit == Init => AnswerInv
<1> SUFFICES ASSUME Init PROVE AnswerInv
  OBVIOUS
<1>1. /\ \A s \in Slots : pool[s] = Zeroed
      /\ \A d \in DBConns : ~ used[d] /\ pg[d] = FreshPg
      /\ dbconn = NULL /\ pc = "down" /\ cq = <<>> /\ heap = {}
      /\ got = [c \in Clients |-> <<>>]
  BY DEF Init, Queue!QInit
<1>2. Zeroed.last_event = "ACCEPTTING" /\ FreshPg.query = NULL /\ FreshPg.reply = "none"
  BY DEF Zeroed, FreshPg
<1>3. ConnInv
  BY <1>1, <1>2 DEF ConnInv, Responding, Owns
<1>4. TextInv
  BY <1>1, <1>2 DEF TextInv, OwnAnswer
<1> QED BY <1>3, <1>4 DEF AnswerInv

\* The end of the process returns every connection.
LEMMA ExitAnswers ==
  ASSUME NEW answered, NEW links, Exit(answered, links),
         \A c \in Clients : \A i \in DOMAIN answered[c] : answered[c][i].about = c
  PROVE  AnswerInv'
<1>1. /\ \A s \in Slots : pool'[s] = Zeroed
      /\ \A d \in DBConns : ~ used'[d] /\ pg'[d] = FreshPg
      /\ dbconn' = NULL /\ pc' = "down" /\ cq' = <<>> /\ heap' = {}
      /\ got' = answered
  BY DEF Exit
<1>2. Zeroed.last_event = "ACCEPTTING" /\ FreshPg.query = NULL /\ FreshPg.reply = "none"
  BY DEF Zeroed, FreshPg
<1>3. ConnInv'
  BY <1>1, <1>2 DEF ConnInv, Responding, Owns
<1>4. TextInv'
  BY <1>1, <1>2 DEF TextInv, OwnAnswer
<1> QED BY <1>3, <1>4 DEF AnswerInv

LEMMA BootAnswers ==
  ASSUME TypeInv, SlotInv, AnswerInv, Boot
  PROVE  AnswerInv'
<1>1. /\ pool' = [pool EXCEPT ![0] = Accepting] /\ 0 \in Slots
      /\ pc = "down" /\ pc' = "top" /\ cq' = cq /\ heap' = heap /\ cq = <<>> /\ heap = {}
      /\ used' = used /\ dbconn' = dbconn /\ pg' = pg /\ got' = got
  BY SlotsNonEmpty DEF Boot, queueVars, dbVars, peerVars, SlotInv, DownIsEmpty
<1>2. pool'[0] = Accepting /\ \A x \in Slots : x # 0 => pool'[x] = pool[x]
  BY <1>1, OtherSlots
<1>3. Accepting.last_event = "ACCEPTTING"
  BY DEF Accepting, Zeroed
<1>4. \A s \in Slots : ~ Responding(s)
  BY <1>1 DEF AnswerInv, ConnInv
<1>5. \A s \in Slots : ~ Responding(s)'
  BY <1>2, <1>3, <1>4 DEF Responding
<1>6. ConnInv'
  BY <1>1, <1>4, <1>5 DEF AnswerInv, ConnInv, Owns
<1>7. TextInv'
  BY <1>1, <1>2, <1>3 DEF AnswerInv, TextInv, OwnAnswer
<1> QED BY <1>6, <1>7 DEF AnswerInv
-----------------------------------------------------------------------------
\* What get_dbconn may do.
LEMMA GetConn ==
  ASSUME TypeInv, get_dbconn
  PROVE  \/ dbconn' = NULL /\ used' = used
         \/ \E d \in DBConns : ~ used[d] /\ dbconn' = d /\ used' = [used EXCEPT ![d] = TRUE]
<1> DEFINE free == {d \in DBConns : ~ used[d]}
<1>1. \/ free = {} /\ dbconn' = NULL /\ UNCHANGED used
      \/ \E d \in free : dbconn' = d /\ used' = [used EXCEPT ![d] = TRUE]
  BY DEF get_dbconn
<1> QED BY <1>1

\* The entries left when the loop has seen the oldest completion.
LEMMA TailEntries ==
  ASSUME TypeInv, OneOperation, cq # <<>>, cq' = Tail(cq)
  PROVE  \A i \in DOMAIN cq' : \E j \in DOMAIN cq : cq'[i] = cq[j] /\ cq[j].slot # Head(cq).slot
<1>1. cq \in Seq(Cqes) /\ Len(cq) \in Nat /\ Len(cq) > 0 /\ DOMAIN cq = 1 .. Len(cq)
  BY EmptySeq, LenProperties DEF TypeInv, RingTypes
<1>2. /\ Len(cq') = Len(cq) - 1 /\ cq' \in Seq(Cqes)
      /\ \A i \in 1 .. Len(cq) - 1 : cq'[i] = cq[i + 1]
      /\ Head(cq) = cq[1]
  BY <1>1, HeadTailProperties
<1>3. DOMAIN cq' = 1 .. Len(cq) - 1
  BY <1>2, LenProperties
<1> SUFFICES ASSUME NEW i \in DOMAIN cq'
             PROVE  cq'[i] = cq[i + 1] /\ i + 1 \in DOMAIN cq /\ cq[i + 1].slot # cq[1].slot
  BY <1>2
<1>4. i + 1 \in DOMAIN cq /\ 1 \in DOMAIN cq /\ i + 1 # 1
  BY <1>1, <1>3
<1> QED BY <1>2, <1>3, <1>4 DEF OneOperation

LEMMA HeadEntry ==
  ASSUME TypeInv, cq # <<>>
  PROVE  \E i \in DOMAIN cq : Head(cq) = cq[i]
<1>1. cq \in Seq(Cqes) /\ Len(cq) \in Nat /\ Len(cq) > 0 /\ DOMAIN cq = 1 .. Len(cq)
  BY EmptySeq, LenProperties DEF TypeInv, RingTypes
<1> QED BY <1>1, HeadTailProperties

\* An entry of the queue belongs to a completed slot.
LEMMA EntrySlot ==
  ASSUME TypeInv, NEW i \in DOMAIN cq
  PROVE  Completed(cq[i].slot) /\ cq[i].slot \in Slots
  BY CompletedSlot DEF Completed

\* What the loop knows about the slot of the completion it looks at.
LEMMA SeenText ==
  ASSUME TypeInv, TextInv, NEW s \in Slots, NEW e, Seen(s, e)
  PROVE  /\ e = "ACCEPTTING" => Head(cq).fd \in Clients
         /\ e = "READING" => pool[s].buffer.about = pool[s].client_fd
<1>1. cq # <<>> /\ s = Head(cq).slot /\ ~ Head(cq).failed /\ pool[s].last_event = e
  BY DEF Seen
<1>2. EntryOK(Head(cq))
  BY <1>1, HeadEntry DEF TextInv
<1> QED BY <1>1, <1>2 DEF EntryOK

\* A step of the loop on slot s that writes to no socket.
LEMMA LoopText ==
  ASSUME TypeInv, SlotInv, TextInv,
         NEW s \in Slots, NEW e, Seen(s, e), NEW r,
         pool' = [pool EXCEPT ![s] = r], got' = got, heap' \subseteq heap \cup {s},
         r.last_event # "ACCEPTTING" => r.client_fd \in Clients,
         s \in heap' \/ r.last_event \in {"DB_RESPONDING", "WRITING"}
           => r.buffer.about = r.client_fd
  PROVE  TextInv'
<1>1. pool'[s] = r /\ \A x \in Slots : x # s => pool'[x] = pool[x]
  BY OtherSlots
<1>2. cq # <<>> /\ cq' = Tail(cq) /\ s = Head(cq).slot
  BY DEF Seen
<1>3. \A i \in DOMAIN cq' : \E j \in DOMAIN cq : cq'[i] = cq[j] /\ cq[j].slot # s
  BY <1>2, TailEntries DEF SlotInv
<1>4. \A j \in DOMAIN cq : cq[j].slot # s => pool'[cq[j].slot] = pool[cq[j].slot]
  BY <1>1, EntrySlot
<1>5. (\A i \in DOMAIN cq : EntryOK(cq[i]))'
  <2> SUFFICES ASSUME NEW i \in DOMAIN cq', NEW x, x = cq'[i]
               PROVE  ~ x.failed =>
                        /\ pool'[x.slot].last_event = "ACCEPTTING" => x.fd \in Clients
                        /\ pool'[x.slot].last_event = "READING"
                             => pool'[x.slot].buffer.about = pool'[x.slot].client_fd
    BY DEF EntryOK
  <2> PICK j \in DOMAIN cq : x = cq[j] /\ cq[j].slot # s
    BY <1>3
  <2>1. EntryOK(x) /\ pool'[x.slot] = pool[x.slot]
    BY <1>4 DEF TextInv
  <2> QED BY <2>1 DEF EntryOK
<1> QED BY <1>1, <1>5 DEF TextInv, OwnAnswer

\* A step that has nothing to do with the database.
LEMMA ConnKept ==
  ASSUME ConnInv, used' = used, dbconn' = dbconn, pg' = pg,
         pc' # "dispatch" => dbconn' = NULL, pc' = "down" => pc = "down",
         \A x \in Slots : /\ Responding(x)' <=> Responding(x)
                          /\ Responding(x) => pool'[x] = pool[x]
  PROVE  ConnInv'
<1>1. \A x \in Slots, d \in DBConns : Owns(x, d)' <=> Owns(x, d)
  BY DEF Owns
<1> QED BY <1>1 DEF ConnInv

\* Such a step of the loop, on one slot.
LEMMA LoopConn ==
  ASSUME TypeInv, ConnInv,
         NEW s \in Slots, NEW e, Seen(s, e), e # "DB_RESPONDING", NEW r,
         pool' = [pool EXCEPT ![s] = r], r.last_event # "DB_RESPONDING",
         used' = used, dbconn' = dbconn, pg' = pg
  PROVE  ConnInv'
<1>1. pool'[s] = r /\ \A x \in Slots : x # s => pool'[x] = pool[x]
  BY OtherSlots
<1>2. pc = "wait" /\ pc' = "top" /\ ~ Responding(s)
  BY DEF Seen, Responding
<1>3. \A x \in Slots : /\ Responding(x)' <=> Responding(x)
                       /\ Responding(x) => pool'[x] = pool[x]
  BY <1>1, <1>2 DEF Responding
<1>4. dbconn' = NULL
  BY <1>2 DEF ConnInv
<1> QED BY <1>2, <1>3, <1>4, ConnKept

\* The handler takes the reply of its own command and returns the connection.
LEMMA RespondingAnswers ==
  ASSUME TypeInv, SlotInv, AnswerInv, OnDbResponding
  PROVE  AnswerInv'
<1> USE DEF AnswerInv
<1> PICK s \in Slots :
      /\ Seen(s, "DB_RESPONDING")
      /\ pool' = [pool EXCEPT ![s] = Writing(@,
           end_async(@.db_response_handler, Result(pool[s].dbconn), @.client_fd,
                     pg[pool[s].dbconn].query))]
      /\ pg' = [pg EXCEPT ![pool[s].dbconn] = Cleared(pool[s].dbconn)]
      /\ release_dbconn(pool[s].dbconn)
  BY DEF OnDbResponding
<1> DEFINE d == pool[s].dbconn
           c == pool[s].client_fd
           a == end_async(pool[s].db_response_handler, Result(d), c, pg[d].query)
           w == Writing(pool[s], a)
<1>1. Responding(s) /\ d \in DBConns /\ pc = "wait" /\ pc' = "top" /\ dbconn' = dbconn
  BY DEF Seen, Responding, TypeInv, HasConn, OnDbResponding
<1>2. c \in Clients /\ pg[d].query = c
  BY <1>1 DEF ConnInv, TextInv, Responding
<1>3. a.about = c
  <2>1. a \in {Text(st, c) : st \in {"OK", "UNPROCESSABLE", "INTERNALERROR"}}
    BY <1>2 DEF end_async
  <2> QED BY <2>1 DEF Text
<1>4. w.last_event = "WRITING" /\ w.client_fd = c /\ w.buffer = a
  <2> HIDE DEF a
  <2> QED BY SlotFields DEF Writing, ReqRes
<1>5. pool' = [pool EXCEPT ![s] = w]
  OBVIOUS
<1> HIDE DEF w, a
<1>6. heap' = heap /\ got' = got
  BY DEF OnDbResponding, queueVars, peerVars
<1>7. TextInv'
  BY <1>2, <1>3, <1>4, <1>5, <1>6, LoopText
<1>8. pool'[s] = w /\ \A x \in Slots : x # s => pool'[x] = pool[x]
  BY <1>5, OtherSlots
<1>9. /\ ~ used'[d] /\ \A f \in DBConns : f # d => used'[f] = used[f] /\ pg'[f] = pg[f]
      /\ pg'[d] = Cleared(d)
  BY <1>1 DEF release_dbconn, TypeInv, ServerTypes, DbTypes
<1>10. Cleared(d).query = NULL /\ Cleared(d).reply = "none"
  BY <1>1 DEF Cleared, FreshPg, TypeInv, DbTypes, Pgs
<1>11. \A x \in Slots : Responding(x)' <=> Responding(x) /\ x # s
  BY <1>4, <1>8 DEF Responding
<1>12. \A x \in Slots, f \in DBConns : Owns(x, f)' <=> Owns(x, f) /\ x # s
  BY <1>8, <1>11 DEF Owns
<1>13. \A x \in Slots : Responding(x) /\ x # s => pool[x].dbconn # d /\ pool[x].dbconn \in DBConns
  BY <1>1 DEF ConnInv, TypeInv, HasConn, Responding
<1>14. ConnInv'
  <2>1. dbconn = NULL
    BY <1>1 DEF ConnInv
  <2>2. \A x \in Slots : Responding(x)' =>
          /\ pool'[x] = pool[x] /\ pool[x].dbconn # d /\ pool[x].dbconn \in DBConns
          /\ used'[pool[x].dbconn] /\ pg'[pool[x].dbconn] = pg[pool[x].dbconn]
    BY <1>8, <1>9, <1>11, <1>13 DEF ConnInv
  <2>3. \A f \in DBConns : used'[f] => \E x \in Slots : Owns(x, f)'
    <3> SUFFICES ASSUME NEW f \in DBConns, used'[f] PROVE \E x \in Slots : Owns(x, f)'
      OBVIOUS
    <3>1. f # d /\ used[f] /\ f # NULL
      BY <1>9, NoPeerAssumption
    <3>2. PICK x \in Slots : Owns(x, f)
      BY <2>1, <3>1 DEF ConnInv
    <3>3. x # s
      BY <3>1, <3>2 DEF Owns
    <3> QED BY <1>12, <3>2, <3>3
  <2>4. \A f \in DBConns : (\A x \in Slots : ~ Owns(x, f)') => pg'[f].query = NULL /\ pg'[f].reply = "none"
    <3> SUFFICES ASSUME NEW f \in DBConns, \A x \in Slots : ~ Owns(x, f)'
                 PROVE  pg'[f].query = NULL /\ pg'[f].reply = "none"
      OBVIOUS
    <3>1. CASE f = d
      BY <1>9, <1>10, <3>1
    <3>2. CASE f # d
      <4>1. \A x \in Slots : ~ Owns(x, f)
        BY <1>12, <3>2 DEF Owns
      <4> QED BY <1>9, <3>2, <4>1 DEF ConnInv
    <3> QED BY <3>1, <3>2
  <2> QED BY <1>1, <1>11, <2>1, <2>2, <2>3, <2>4 DEF ConnInv
<1> QED BY <1>7, <1>14

\* A step that reads a completion drops it, whatever it was.
LEMMA DroppedText ==
  ASSUME TypeInv, SlotInv, TextInv, cq # <<>>, cq' = Tail(cq),
         pool' = pool, got' = got, heap' = heap
  PROVE  TextInv'
<1>1. (\A i \in DOMAIN cq : EntryOK(cq[i]))'
  <2> SUFFICES ASSUME NEW i \in DOMAIN cq', NEW x, x = cq'[i]
               PROVE  ~ x.failed =>
                        /\ pool'[x.slot].last_event = "ACCEPTTING" => x.fd \in Clients
                        /\ pool'[x.slot].last_event = "READING"
                             => pool'[x.slot].buffer.about = pool'[x.slot].client_fd
    BY DEF EntryOK
  <2>1. PICK j \in DOMAIN cq : x = cq[j]
    BY TailEntries DEF SlotInv
  <2> QED BY <2>1 DEF EntryOK, TextInv
<1> QED BY <1>1 DEF TextInv, OwnAnswer

\* A new peer: its slot starts to read, another slot starts to accept.
LEMMA AcceptedAnswers ==
  ASSUME TypeInv, SlotInv, AnswerInv, OnAccepted
  PROVE  AnswerInv'
<1> USE DEF AnswerInv
<1> PICK s \in Slots, t \in Slots :
      /\ Seen(s, "ACCEPTTING")
      /\ Least(t, FreeSlots)
      /\ pool' = [pool EXCEPT
           ![s] = [@ EXCEPT !.client_fd = Head(cq).fd, !.last_event = "READING"],
           ![t] = Accepting]
  BY DEF OnAccepted
<1> DEFINE r == [pool[s] EXCEPT !.client_fd = Head(cq).fd, !.last_event = "READING"]
<1>1. /\ pool[s].ring /\ s \notin heap /\ pool[s].last_event = "ACCEPTTING"
      /\ pc = "wait" /\ pc' = "top" /\ Head(cq).fd \in Clients
      /\ cq # <<>> /\ cq' = Tail(cq) /\ s = Head(cq).slot
  BY SeenSlot, SeenText DEF Seen, SlotInv
<1>2. ~ pool[t].ring /\ t # s /\ t \notin heap /\ ~ Completed(t)
  <2>1. ~ pool[t].ring
    BY DEF Least, FreeSlots
  <2> QED BY <1>1, <2>1, CompletedRing DEF PushedOnce, SlotInv
<1>3. /\ r.last_event = "READING" /\ r.client_fd \in Clients
      /\ Accepting.last_event = "ACCEPTTING"
  BY <1>1, SlotFields DEF ReqRes, Accepting, Zeroed
<1>4. pool' = [[pool EXCEPT ![s] = r] EXCEPT ![t] = Accepting]
  OBVIOUS
<1> HIDE DEF r
<1>5. /\ pool'[s] = r /\ pool'[t] = Accepting
      /\ \A x \in Slots : x # s /\ x # t => pool'[x] = pool[x]
  BY <1>2, <1>4 DEF TypeInv, ServerTypes
<1>6. used' = used /\ dbconn' = dbconn /\ pg' = pg /\ heap' = heap /\ got' = got
  BY DEF OnAccepted, queueVars, dbVars, peerVars
<1>7. ~ Responding(s) /\ ~ Responding(t)
  BY <1>1, <1>2 DEF ConnInv, Responding
<1>8. \A x \in Slots : /\ Responding(x)' <=> Responding(x)
                       /\ Responding(x) => pool'[x] = pool[x]
  BY <1>3, <1>5, <1>7 DEF Responding
<1>9. dbconn' = NULL
  BY <1>1, <1>6 DEF ConnInv
<1>10. ConnInv'
  BY <1>1, <1>6, <1>8, <1>9, ConnKept
<1>11. (\A i \in DOMAIN cq : EntryOK(cq[i]))'
  <2> SUFFICES ASSUME NEW i \in DOMAIN cq', NEW x, x = cq'[i]
               PROVE  ~ x.failed =>
                        /\ pool'[x.slot].last_event = "ACCEPTTING" => x.fd \in Clients
                        /\ pool'[x.slot].last_event = "READING"
                             => pool'[x.slot].buffer.about = pool'[x.slot].client_fd
    BY DEF EntryOK
  <2> PICK j \in DOMAIN cq : x = cq[j] /\ cq[j].slot # s
    BY <1>1, TailEntries DEF SlotInv
  <2>1. x.slot # t /\ x.slot \in Slots
    BY <1>2, EntrySlot
  <2>2. EntryOK(x) /\ pool'[x.slot] = pool[x.slot]
    BY <1>5, <2>1 DEF TextInv
  <2> QED BY <2>2 DEF EntryOK
<1>12. \A x \in Slots : pool'[x].last_event # "ACCEPTTING" => pool'[x].client_fd \in Clients
  BY <1>3, <1>5 DEF TextInv
<1>13. \A x \in Slots : x \in heap' \/ pool'[x].last_event \in {"DB_RESPONDING", "WRITING"}
                           => pool'[x].buffer.about = pool'[x].client_fd
  BY <1>1, <1>2, <1>3, <1>5, <1>6 DEF TextInv
<1>14. OwnAnswer'
  BY <1>6 DEF TextInv, OwnAnswer
<1>15. TextInv'
  BY <1>11, <1>12, <1>13, <1>14 DEF TextInv
<1> QED BY <1>10, <1>15

\* Some more answers about the same client.
LEMMA MoreAnswers ==
  ASSUME NEW c, NEW q \in Seq(Buffers), \A j \in DOMAIN q : q[j].about = c,
         NEW more \in Seq(Buffers), \A j \in DOMAIN more : more[j].about = c
  PROVE  \A j \in DOMAIN (q \o more) : (q \o more)[j].about = c
<1>1. /\ Len(q) \in Nat /\ DOMAIN q = 1 .. Len(q)
      /\ Len(more) \in Nat /\ DOMAIN more = 1 .. Len(more)
  BY LenProperties
<1>2. /\ q \o more \in Seq(Buffers) /\ Len(q \o more) = Len(q) + Len(more)
      /\ \A j \in 1 .. Len(q) + Len(more) : (q \o more)[j] =
            IF j <= Len(q) THEN q[j] ELSE more[j - Len(q)]
  BY ConcatProperties
<1>3. DOMAIN (q \o more) = 1 .. Len(q) + Len(more)
  BY <1>2, LenProperties
<1> SUFFICES ASSUME NEW j \in 1 .. Len(q) + Len(more) PROVE (q \o more)[j].about = c
  BY <1>3
<1>4. CASE j <= Len(q)
  BY <1>1, <1>2, <1>4
<1>5. CASE j > Len(q)
  BY <1>1, <1>2, <1>5
<1> QED BY <1>1, <1>4, <1>5

\* The copies of the answer to /exit.
LEMMA ExitCopies ==
  ASSUME NEW c \in Clients, NEW copies \in {1, 2}
  PROVE  /\ [i \in 1 .. copies |-> Text("OK_EXIT", c)] \in Seq(Buffers)
         /\ \A j \in DOMAIN [i \in 1 .. copies |-> Text("OK_EXIT", c)] :
              [i \in 1 .. copies |-> Text("OK_EXIT", c)][j].about = c
<1>1. Text("OK_EXIT", c) \in Buffers /\ Text("OK_EXIT", c).about = c
  BY TextType, StatusNames DEF Text
<1>2. copies \in Nat
  OBVIOUS
<1> QED BY <1>1, <1>2, IsASeq

\* Answers a client has, and some more about the same client.
LEMMA AnsweredMore ==
  ASSUME TypeInv, OwnAnswer, NEW c \in Clients,
         NEW more \in Seq(Buffers), \A j \in DOMAIN more : more[j].about = c,
         NEW answered, answered[c] = got[c] \o more,
         \A e \in Clients : e # c => answered[e] = got[e]
  PROVE  \A e \in Clients : \A i \in DOMAIN answered[e] : answered[e][i].about = e
<1>1. /\ got \in [Clients -> Seq(Buffers)]
      /\ \A e \in Clients : \A j \in DOMAIN got[e] : got[e][j].about = e
  BY DEF TypeInv, PeerTypes, OwnAnswer
<1>2. \A j \in DOMAIN (got[c] \o more) : (got[c] \o more)[j].about = c
  BY <1>1, MoreAnswers
<1> TAKE e \in Clients
<1>3. CASE e # c
  BY <1>1, <1>3
<1>4. CASE e = c
  BY <1>2, <1>4
<1> QED BY <1>3, <1>4

\* /exit: the peer that asked gets the answer, more than once perhaps.
LEMMA ReadExitAnswers ==
  ASSUME TypeInv, SlotInv, AnswerInv, OnReadExit
  PROVE  AnswerInv'
<1>1. PICK s \in Slots, copies \in {1, 2} :
        /\ cq # <<>> /\ s = Head(cq).slot /\ ~ Head(cq).failed /\ pool[s].last_event = "READING"
        /\ Exit([got EXCEPT ![pool[s].buffer.about] =
                   @ \o [i \in 1 .. copies |-> Text("OK_EXIT", pool[s].buffer.about)]], pg)
  BY DEF OnReadExit
<1> DEFINE c == pool[s].buffer.about
           more == [i \in 1 .. copies |-> Text("OK_EXIT", c)]
           answered == [got EXCEPT ![c] = got[c] \o more]
<1>2. c \in Clients
  <2>1. EntryOK(Head(cq))
    BY <1>1, HeadEntry DEF TextInv, AnswerInv
  <2> QED BY <1>1, <2>1 DEF EntryOK, TextInv, AnswerInv
<1>3. Exit(answered, pg)
  BY <1>1
<1> HIDE DEF c
<1>4. more \in Seq(Buffers) /\ \A j \in DOMAIN more : more[j].about = c
  BY <1>2, ExitCopies
<1> HIDE DEF more
<1>5. /\ answered[c] = got[c] \o more
      /\ \A e \in Clients : e # c => answered[e] = got[e]
  BY <1>2 DEF TypeInv, PeerTypes
<1> HIDE DEF answered
<1>6. PICK x, y, z :
        /\ x \in Clients /\ y \in Seq(Buffers)
        /\ \A j \in DOMAIN y : y[j].about = x
        /\ z[x] = got[x] \o y
        /\ \A e \in Clients : e # x => z[e] = got[e]
        /\ Exit(z, pg)
  BY <1>2, <1>3, <1>4, <1>5
<1>7. OwnAnswer
  BY DEF AnswerInv, TextInv
<1>8. \A e \in Clients : \A i \in DOMAIN z[e] : z[e][i].about = e
  BY <1>6, <1>7, AnsweredMore
<1> QED BY <1>6, <1>8, ExitAnswers

LEMMA LoopAnswers ==
  ASSUME TypeInv, SlotInv, AnswerInv, ServerLoop
  PROVE  AnswerInv'
<1> USE DEF AnswerInv
<1>1. CASE OnError
  <2>1. /\ cq # <<>> /\ cq' = Tail(cq) /\ pool' = pool /\ heap' = heap /\ got' = got
        /\ used' = used /\ dbconn' = dbconn /\ pg' = pg /\ pc = "wait" /\ pc' = "top"
    BY <1>1 DEF OnError, queueVars, dbVars, peerVars
  <2>2. dbconn' = NULL /\ \A x \in Slots : Responding(x)' <=> Responding(x)
    BY <2>1 DEF ConnInv, Responding
  <2>3. ConnInv'
    BY <2>1, <2>2, ConnKept
  <2> QED BY <2>1, <2>3, DroppedText
<1>2. CASE OnAccepted
  BY <1>2, AcceptedAnswers
<1>3. CASE OnAcceptedFull
  BY <1>3, ExitAnswers DEF OnAcceptedFull, TextInv, OwnAnswer
<1>4. CASE OnReadAnswered
  <2> PICK s \in Slots :
        /\ Seen(s, "READING")
        /\ pool' = [pool EXCEPT ![s] =
                      Writing(@, Text(StaticAnswer[Request(s)], @.buffer.about))]
    BY <1>4 DEF OnReadAnswered
  <2> DEFINE t == Text(StaticAnswer[Request(s)], pool[s].buffer.about)
             w == Writing(pool[s], t)
  <2>1. /\ pool[s].buffer.about = pool[s].client_fd /\ pool[s].client_fd \in Clients
        /\ pool[s].last_event = "READING"
    BY SeenText DEF Seen, TextInv
  <2>2. t.about = pool[s].client_fd
    BY <2>1 DEF Text
  <2>3. pool' = [pool EXCEPT ![s] = w]
    OBVIOUS
  <2>4. /\ heap' = heap /\ got' = got /\ used' = used /\ dbconn' = dbconn /\ pg' = pg
    BY <1>4 DEF OnReadAnswered, queueVars, dbVars, peerVars
  <2> HIDE DEF t
  <2>5. w.last_event = "WRITING" /\ w.client_fd = pool[s].client_fd /\ w.buffer = t
    BY SlotFields DEF Writing, ReqRes
  <2> HIDE DEF w
  <2>6. TextInv'
    BY <2>1, <2>2, <2>3, <2>4, <2>5, LoopText
  <2>7. ConnInv'
    BY <2>3, <2>4, <2>5, LoopConn
  <2> QED BY <2>6, <2>7
<1>5. CASE OnReadQueued
  <2> PICK s \in Slots :
        /\ Seen(s, "READING")
        /\ pool' = [pool EXCEPT ![s] = [@ EXCEPT
                      !.db_data = "allocated",
                      !.db_request_sender =
                         IF Request(s) = "extrato" THEN "extrato" ELSE "transacao"]]
        /\ Queue!queu_push(s)
    BY <1>5 DEF OnReadQueued
  <2> DEFINE sender == IF Request(s) = "extrato" THEN "extrato" ELSE "transacao"
             r == [pool[s] EXCEPT !.db_data = "allocated", !.db_request_sender = sender]
  <2>1. /\ pool[s].buffer.about = pool[s].client_fd /\ pool[s].client_fd \in Clients
        /\ pool[s].last_event = "READING"
    BY SeenText DEF Seen, TextInv
  <2>2. pool' = [pool EXCEPT ![s] = r]
    OBVIOUS
  <2>3. /\ heap' = heap \cup {s} /\ got' = got
        /\ used' = used /\ dbconn' = dbconn /\ pg' = pg
    BY <1>5 DEF OnReadQueued, Queue!queu_push, dbVars, peerVars
  <2> HIDE DEF sender
  <2>4. /\ r.last_event = "READING" /\ r.client_fd = pool[s].client_fd
        /\ r.buffer = pool[s].buffer
    BY <2>1, SlotFields DEF ReqRes
  <2> HIDE DEF r
  <2>5. TextInv'
    BY <2>1, <2>2, <2>3, <2>4, LoopText
  <2>6. ConnInv'
    BY <2>2, <2>3, <2>4, LoopConn
  <2> QED BY <2>5, <2>6
<1>6. CASE OnReadExit
  BY <1>6, ReadExitAnswers
<1>7. CASE OnDbResponding
  BY <1>7, RespondingAnswers
<1>8. CASE OnWritten
  <2> PICK s \in Slots : /\ Seen(s, "WRITING")
                         /\ pool' = [pool EXCEPT ![s].last_event = "CLOSING"]
    BY <1>8 DEF OnWritten
  <2> DEFINE r == [pool[s] EXCEPT !.last_event = "CLOSING"]
  <2>1. pool[s].last_event = "WRITING" /\ pool[s].client_fd \in Clients /\ s \notin heap
    BY SeenSlot DEF SlotInv, TextInv
  <2>2. pool' = [pool EXCEPT ![s] = r]
    OBVIOUS
  <2>3. heap' = heap /\ got' = got /\ used' = used /\ dbconn' = dbconn /\ pg' = pg
    BY <1>8 DEF OnWritten, queueVars, dbVars, peerVars
  <2>4. r.last_event = "CLOSING" /\ r.client_fd = pool[s].client_fd
    BY SlotFields DEF ReqRes
  <2> HIDE DEF r
  <2>5. TextInv'
    BY <2>1, <2>2, <2>3, <2>4, LoopText
  <2>6. ConnInv'
    BY <2>2, <2>3, <2>4, LoopConn
  <2> QED BY <2>5, <2>6
<1>9. CASE OnClosed
  <2> PICK s \in Slots : Seen(s, "CLOSING") /\ pool' = [pool EXCEPT ![s] = Zeroed]
    BY <1>9 DEF OnClosed
  <2>1. s \notin heap
    BY SeenSlot DEF SlotInv
  <2>2. heap' = heap /\ got' = got /\ used' = used /\ dbconn' = dbconn /\ pg' = pg
    BY <1>9 DEF OnClosed, queueVars, dbVars, peerVars
  <2>3. Zeroed.last_event = "ACCEPTTING"
    BY DEF Zeroed
  <2>4. TextInv'
    BY <2>1, <2>2, <2>3, LoopText
  <2>5. ConnInv'
    BY <2>2, <2>3, LoopConn
  <2> QED BY <2>4, <2>5
<1> QED BY <1>1, <1>2, <1>3, <1>4, <1>5, <1>6, <1>7, <1>8, <1>9 DEF ServerLoop
-----------------------------------------------------------------------------
\* A step of queu_dispatch on slot s, which has no completion.
LEMMA SlotText ==
  ASSUME TypeInv, TextInv, NEW s \in Slots, ~ Completed(s), NEW r,
         pool' = [pool EXCEPT ![s] = r], cq' = cq, got' = got, heap' \subseteq heap,
         r.last_event # "ACCEPTTING" => r.client_fd \in Clients,
         r.buffer.about = r.client_fd
  PROVE  TextInv'
<1>1. pool'[s] = r /\ \A x \in Slots : x # s => pool'[x] = pool[x]
  BY OtherSlots
<1>2. (\A i \in DOMAIN cq : EntryOK(cq[i]))'
  <2> SUFFICES ASSUME NEW i \in DOMAIN cq, NEW x, x = cq[i]
               PROVE  ~ x.failed =>
                        /\ pool'[x.slot].last_event = "ACCEPTTING" => x.fd \in Clients
                        /\ pool'[x.slot].last_event = "READING"
                             => pool'[x.slot].buffer.about = pool'[x.slot].client_fd
    BY DEF EntryOK
  <2>1. x.slot # s /\ x.slot \in Slots
    BY EntrySlot
  <2>2. EntryOK(x) /\ pool'[x.slot] = pool[x.slot]
    BY <1>1, <2>1 DEF TextInv
  <2> QED BY <2>2 DEF EntryOK
<1>3. \A x \in Slots : pool'[x].last_event # "ACCEPTTING" => pool'[x].client_fd \in Clients
  BY <1>1 DEF TextInv
<1>4. \A x \in Slots : x \in heap' \/ pool'[x].last_event \in {"DB_RESPONDING", "WRITING"}
                          => pool'[x].buffer.about = pool'[x].client_fd
  BY <1>1 DEF TextInv
<1>5. OwnAnswer'
  BY DEF TextInv, OwnAnswer
<1> QED BY <1>2, <1>3, <1>4, <1>5 DEF TextInv

\* A step that changes no slot, no completion and no answer.
LEMMA SameText ==
  ASSUME TextInv, pool' = pool, cq' = cq, got' = got, heap' = heap
  PROVE  TextInv'
  BY DEF TextInv, OwnAnswer, EntryOK

\* The loop takes a connection, if one is free.
LEMMA StartAnswers ==
  ASSUME TypeInv, AnswerInv, DispatchStart
  PROVE  AnswerInv'
<1> USE DEF AnswerInv
<1>1. /\ pc = "top" /\ pc' = "dispatch" /\ get_dbconn
      /\ pool' = pool /\ pg' = pg /\ cq' = cq /\ got' = got /\ heap' = heap
  BY DEF DispatchStart, queueVars, ringVars, dbVars, peerVars
<1>2. /\ \A x \in Slots : Responding(x)' <=> Responding(x)
      /\ \A x \in Slots, d \in DBConns : Owns(x, d)' <=> Owns(x, d)
  BY <1>1 DEF Responding, Owns
<1>3. dbconn = NULL
  BY <1>1 DEF ConnInv
<1>4. CASE dbconn' = NULL /\ used' = used
  <2>1. dbconn' = dbconn
    BY <1>3, <1>4
  <2> QED BY <1>1, <1>2, <1>4, <2>1, ConnKept, SameText
<1>5. ASSUME NEW d \in DBConns, ~ used[d], dbconn' = d, used' = [used EXCEPT ![d] = TRUE]
      PROVE  AnswerInv'
  <2>1. used'[d] /\ \A f \in DBConns : f # d => used'[f] = used[f]
    BY <1>5 DEF TypeInv, ServerTypes
  <2>2. \A x \in Slots : Responding(x) => pool[x].dbconn # d /\ pool[x].dbconn \in DBConns
    BY <1>5 DEF ConnInv, TypeInv, HasConn, Responding
  <2>3. \A x \in Slots : Responding(x) => used'[pool[x].dbconn]
    BY <2>1, <2>2 DEF ConnInv
  <2>4. \A f \in DBConns : used'[f] => f = d \/ \E x \in Slots : Owns(x, f)
    BY <1>3, <2>1, NoPeerAssumption DEF ConnInv
  <2>5. ConnInv'
    BY <1>1, <1>2, <1>5, <2>1, <2>2, <2>3, <2>4 DEF ConnInv
  <2> QED BY <1>1, <2>5, SameText
<1> QED BY <1>1, <1>4, <1>5, GetConn

\* Nothing is queued: the loop gives the connection back.
LEMMA EmptyAnswers ==
  ASSUME TypeInv, AnswerInv, DispatchEmpty
  PROVE  AnswerInv'
<1> USE DEF AnswerInv
<1>1. /\ pc' = "wait" /\ dbconn # NULL /\ dbconn' = NULL /\ release_dbconn(dbconn)
      /\ pool' = pool /\ pg' = pg /\ cq' = cq /\ got' = got /\ heap' = heap
  BY DEF DispatchEmpty, queueVars, ringVars, dbVars, peerVars
<1>2. /\ \A x \in Slots : Responding(x)' <=> Responding(x)
      /\ \A x \in Slots, d \in DBConns : Owns(x, d)' <=> Owns(x, d)
  BY <1>1 DEF Responding, Owns
<1>3. dbconn \in DBConns /\ ~ used'[dbconn]
      /\ \A f \in DBConns : f # dbconn => used'[f] = used[f]
  BY <1>1 DEF release_dbconn, TypeInv, ServerTypes
<1>4. \A x \in Slots : Responding(x) =>
        /\ pool[x].dbconn # dbconn /\ pool[x].dbconn \in DBConns /\ used'[pool[x].dbconn]
  BY <1>3 DEF ConnInv, TypeInv, HasConn, Responding
<1>5. \A f \in DBConns : used'[f] => \E x \in Slots : Owns(x, f)
  BY <1>3 DEF ConnInv
<1>6. \A x \in Slots : Responding(x)' =>
        /\ pool'[x].ring /\ pool'[x].dbconn # dbconn' /\ used'[pool'[x].dbconn]
        /\ pg'[pool'[x].dbconn].query = pool'[x].client_fd
        /\ pg'[pool'[x].dbconn].link # "closed"
  BY <1>1, <1>2, <1>4, NoPeerAssumption DEF ConnInv
<1>7. \A f \in DBConns : (\A x \in Slots : ~ Owns(x, f)') => pg'[f].query = NULL /\ pg'[f].reply = "none"
  BY <1>1, <1>2 DEF ConnInv
<1>8. \A x, y \in Slots : Responding(x)' /\ Responding(y)' /\ pool'[x].dbconn = pool'[y].dbconn => x = y
  BY <1>1, <1>2 DEF ConnInv
<1>9. \A f \in DBConns : used'[f] => \E x \in Slots : Owns(x, f)'
  BY <1>2, <1>5
<1>10. ConnInv'
  BY <1>1, <1>6, <1>7, <1>8, <1>9 DEF ConnInv
<1> QED BY <1>1, <1>10, SameText

\* A queued slot holds the request of the peer on its socket.
LEMMA QueuedText ==
  ASSUME TypeInv, SlotInv, TextInv, NEW s \in Slots, Queue!queu_pop(s)
  PROVE  /\ s \in heap /\ heap' = heap \ {s}
         /\ pool[s].last_event = "READING" /\ pool[s].ring /\ ~ Completed(s)
         /\ pool[s].client_fd \in Clients /\ pool[s].buffer.about = pool[s].client_fd
<1>1. s \in heap /\ heap' = heap \ {s}
  BY DEF Queue!queu_pop, SlotInv, QP!QInv, QP!NoDangling
<1> QED BY <1>1, WaitingParts DEF SlotInv, PushedOnce, TextInv

\* No sender refuses a body.
LEMMA NoRefusal ==
  ASSUME BodiesParse, TypeInv, SlotInv, TextInv, DispatchRefuse
  PROVE  FALSE
<1> PICK s \in Slots : Queue!queu_pop(s) /\ BadBody(s)
  BY DEF DispatchRefuse
<1>1. pool[s].buffer.about \in Clients /\ kind[pool[s].buffer.about] = "badbody"
  BY QueuedText DEF BadBody
<1> QED BY <1>1 DEF BodiesParse, TypeInv, PeerTypes

\* The connection goes to the oldest request, and the loop takes another one.
LEMMA SendAnswers ==
  ASSUME TypeInv, SlotInv, AnswerInv, DispatchSend
  PROVE  AnswerInv'
<1> USE DEF AnswerInv
<1> PICK s \in Slots :
      /\ Queue!queu_pop(s)
      /\ pg[dbconn].link # "closed"
      /\ PQsendQuery(dbconn, pool[s].buffer.about)
      /\ pool' = [pool EXCEPT ![s] =
                    [@ EXCEPT !.dbconn = dbconn, !.db_data = "freed",
                              !.db_response_handler = pool[s].db_request_sender,
                              !.last_event = "DB_RESPONDING"]]
  BY DEF DispatchSend
<1> DEFINE r == [pool[s] EXCEPT !.dbconn = dbconn, !.db_data = "freed",
                                !.db_response_handler = pool[s].db_request_sender,
                                !.last_event = "DB_RESPONDING"]
           c == pool[s].client_fd
<1>1. /\ s \in heap /\ heap' = heap \ {s} /\ pool[s].last_event = "READING" /\ pool[s].ring
      /\ ~ Completed(s) /\ c \in Clients /\ pool[s].buffer.about = c
  BY QueuedText
<1>2. /\ r.last_event = "DB_RESPONDING" /\ r.dbconn = dbconn /\ r.ring
      /\ r.client_fd = c /\ r.buffer = pool[s].buffer
  BY <1>1, SlotFields DEF ReqRes
<1>3. pool' = [pool EXCEPT ![s] = r]
  OBVIOUS
<1> HIDE DEF r
<1>4. pool'[s] = r /\ \A x \in Slots : x # s => pool'[x] = pool[x]
  BY <1>3, OtherSlots
<1>5. /\ pc = "dispatch" /\ pc' = "dispatch" /\ dbconn \in DBConns /\ get_dbconn
      /\ cq' = cq /\ got' = got
  BY DEF DispatchSend, peerVars, TypeInv, ServerTypes
<1>6. TextInv'
  <2>1. r.client_fd \in Clients /\ r.buffer.about = r.client_fd /\ heap' \subseteq heap
    BY <1>1, <1>2
  <2> QED BY <1>1, <1>3, <1>5, <2>1, SlotText
<1>7. /\ ~ Responding(s) /\ Responding(s)'
      /\ \A x \in Slots : x # s => (Responding(x)' <=> Responding(x))
  BY <1>1, <1>2, <1>4 DEF Responding
<1>8. \A x \in Slots : ~ Owns(x, dbconn)
  BY <1>5 DEF ConnInv, Owns, Responding
<1>9. pg[dbconn].query = NULL /\ pg[dbconn].reply = "none"
  BY <1>5, <1>8 DEF ConnInv
<1>10. pg' = [pg EXCEPT ![dbconn].query = c]
  BY <1>1, <1>9 DEF PQsendQuery, Sent
<1>11. /\ pg'[dbconn].query = c /\ pg'[dbconn].link # "closed"
       /\ \A f \in DBConns : f # dbconn => pg'[f] = pg[f]
  BY <1>5, <1>10 DEF TypeInv, DbTypes, Pgs
<1>12. \A x \in Slots : Responding(x) => pool[x].dbconn \in DBConns /\ pool[x].dbconn # dbconn
  BY DEF ConnInv, TypeInv, HasConn, Responding
<1>13. \A x \in Slots, f \in DBConns : Owns(x, f)' <=> Owns(x, f) \/ (x = s /\ f = dbconn)
  BY <1>2, <1>4, <1>7 DEF Owns
<1>14. /\ used[dbconn] /\ \A f \in DBConns : used[f] => used'[f]
       /\ dbconn' # NULL => /\ dbconn' \in DBConns /\ used'[dbconn'] /\ ~ used[dbconn']
       /\ \A f \in DBConns : used'[f] => used[f] \/ f = dbconn'
  <2>1. used[dbconn] /\ used \in [DBConns -> BOOLEAN]
    BY <1>5, NoPeerAssumption DEF ConnInv, TypeInv, ServerTypes
  <2>2. CASE dbconn' = NULL /\ used' = used
    BY <2>1, <2>2
  <2>3. ASSUME NEW d \in DBConns, ~ used[d], dbconn' = d, used' = [used EXCEPT ![d] = TRUE]
        PROVE  /\ \A f \in DBConns : used[f] => used'[f]
               /\ dbconn' \in DBConns /\ used'[dbconn'] /\ ~ used[dbconn']
               /\ \A f \in DBConns : used'[f] => used[f] \/ f = dbconn'
    BY <2>1, <2>3
  <2> QED BY <1>5, <2>1, <2>2, <2>3, GetConn
<1>15. \A x \in Slots : Responding(x)' =>
         /\ pool'[x].ring /\ pool'[x].dbconn # dbconn' /\ used'[pool'[x].dbconn]
         /\ pg'[pool'[x].dbconn].query = pool'[x].client_fd
         /\ pg'[pool'[x].dbconn].link # "closed"
  <2> SUFFICES ASSUME NEW x \in Slots, Responding(x)'
               PROVE  /\ pool'[x].ring /\ pool'[x].dbconn # dbconn' /\ used'[pool'[x].dbconn]
                      /\ pg'[pool'[x].dbconn].query = pool'[x].client_fd
                      /\ pg'[pool'[x].dbconn].link # "closed"
    OBVIOUS
  <2>1. CASE x = s
    <3>1. dbconn # dbconn' /\ used'[dbconn]
      BY <1>5, <1>14, NoPeerAssumption
    <3> QED BY <1>2, <1>4, <1>11, <2>1, <3>1
  <2>2. CASE x # s
    <3>1. /\ Responding(x) /\ pool'[x] = pool[x]
          /\ pool[x].dbconn \in DBConns /\ pool[x].dbconn # dbconn
      BY <1>4, <1>7, <1>12, <2>2
    <3>2. /\ pool[x].ring /\ used[pool[x].dbconn] /\ pg[pool[x].dbconn].link # "closed"
          /\ pg[pool[x].dbconn].query = pool[x].client_fd
      BY <3>1 DEF ConnInv
    <3>3. pool[x].dbconn # dbconn' /\ used'[pool[x].dbconn]
      BY <1>14, <3>1, <3>2, NoPeerAssumption
    <3> QED BY <1>11, <3>1, <3>2, <3>3
  <2> QED BY <2>1, <2>2
<1>16. \A x, y \in Slots : Responding(x)' /\ Responding(y)' /\ pool'[x].dbconn = pool'[y].dbconn
         => x = y
  BY <1>2, <1>4, <1>7, <1>12 DEF ConnInv
<1>17. \A f \in DBConns : used'[f] => dbconn' = f \/ \E x \in Slots : Owns(x, f)'
  BY <1>13, <1>14 DEF ConnInv
<1>18. \A f \in DBConns : (\A x \in Slots : ~ Owns(x, f)') => pg'[f].query = NULL /\ pg'[f].reply = "none"
  <2> SUFFICES ASSUME NEW f \in DBConns, \A x \in Slots : ~ Owns(x, f)'
               PROVE  pg'[f].query = NULL /\ pg'[f].reply = "none"
    OBVIOUS
  <2>1. f # dbconn /\ \A x \in Slots : ~ Owns(x, f)
    BY <1>13
  <2> QED BY <1>11, <2>1 DEF ConnInv
<1>19. ConnInv'
  BY <1>5, <1>14, <1>15, <1>16, <1>17, <1>18 DEF ConnInv
<1> QED BY <1>6, <1>19

LEMMA DispatchAnswers ==
  ASSUME BodiesParse, TypeInv, SlotInv, AnswerInv, QueuDispatch
  PROVE  AnswerInv'
<1> USE DEF AnswerInv
<1>1. CASE DispatchStart
  BY <1>1, StartAnswers
<1>2. CASE DispatchNoConn
  <2>1. /\ dbconn' = dbconn /\ dbconn = NULL /\ pc' = "wait" /\ used' = used /\ pg' = pg
        /\ pool' = pool /\ cq' = cq /\ got' = got /\ heap' = heap
    BY <1>2 DEF DispatchNoConn, queueVars, ringVars, dbVars, peerVars
  <2>2. \A x \in Slots : Responding(x)' <=> Responding(x)
    BY <2>1 DEF Responding
  <2> QED BY <2>1, <2>2, ConnKept, SameText
<1>3. CASE DispatchEmpty
  BY <1>3, EmptyAnswers
<1>4. CASE DispatchRefuse
  BY <1>4, NoRefusal
<1>5. CASE DispatchSend
  BY <1>5, SendAnswers
<1>6. CASE DispatchFatal
  BY <1>6, ExitAnswers DEF DispatchFatal, TextInv, OwnAnswer
<1> QED BY <1>1, <1>2, <1>3, <1>4, <1>5, <1>6 DEF QueuDispatch
-----------------------------------------------------------------------------
\* A completion goes to the end of the queue.  Its operation may have filled
\* the buffer of its slot with the text of the peer.
LEMMA CompletedText ==
  ASSUME TypeInv, TextInv, NEW e \in Cqes, cq' = Append(cq, e), heap' = heap, OwnAnswer',
         \A x \in Slots : /\ pool'[x].last_event = pool[x].last_event
                          /\ pool'[x].client_fd = pool[x].client_fd
                          /\ \/ pool'[x].buffer = pool[x].buffer
                             \/ pool'[x].buffer.about = pool[x].client_fd,
         ~ e.failed =>
           /\ pool'[e.slot].last_event = "ACCEPTTING" => e.fd \in Clients
           /\ pool'[e.slot].last_event = "READING"
                => pool'[e.slot].buffer.about = pool'[e.slot].client_fd
  PROVE  TextInv'
<1>1. cq \in Seq(Cqes) /\ Len(cq) \in Nat /\ DOMAIN cq = 1 .. Len(cq)
  BY LenProperties DEF TypeInv, RingTypes
<1>2. /\ Len(cq') = Len(cq) + 1 /\ cq' \in Seq(Cqes)
      /\ \A i \in 1 .. Len(cq) : cq'[i] = cq[i]
      /\ cq'[Len(cq) + 1] = e
  BY <1>1, AppendProperties
<1>3. DOMAIN cq' = 1 .. Len(cq) + 1
  BY <1>2, LenProperties
<1>4. \A i \in DOMAIN cq' : cq'[i] = e \/ \E j \in DOMAIN cq : cq'[i] = cq[j]
  BY <1>1, <1>2, <1>3
<1>5. (\A i \in DOMAIN cq : EntryOK(cq[i]))'
  <2> SUFFICES ASSUME NEW i \in DOMAIN cq', NEW x, x = cq'[i]
               PROVE  ~ x.failed =>
                        /\ pool'[x.slot].last_event = "ACCEPTTING" => x.fd \in Clients
                        /\ pool'[x.slot].last_event = "READING"
                             => pool'[x.slot].buffer.about = pool'[x.slot].client_fd
    BY DEF EntryOK
  <2>1. CASE x = e
    BY <2>1
  <2>2. CASE x # e
    <3> PICK j \in DOMAIN cq : x = cq[j]
      BY <1>4, <2>2
    <3>1. EntryOK(x) /\ x.slot \in Slots
      BY EntrySlot DEF TextInv
    <3> QED BY <3>1 DEF EntryOK
  <2> QED BY <2>1, <2>2
<1> QED BY <1>5 DEF TextInv

\* The event of a slot tells which operation the kernel is doing for it.
LEMMA EventOfOp ==
  ASSUME TypeInv, SlotInv, NEW o \in inflight
  PROVE  /\ o.slot \in Slots
         /\ o.op = "accept" => pool[o.slot].last_event = "ACCEPTTING"
         /\ o.op = "read" => pool[o.slot].last_event = "READING"
         /\ o.op = "write" => pool[o.slot].last_event = "WRITING"
         /\ o.op = "close" => pool[o.slot].last_event = "CLOSING"
         /\ o.op = "dbread" => pool[o.slot].last_event = "DB_RESPONDING"
         /\ pc # "down"
<1>1. o.slot \in Slots /\ o.op = OpOf[pool[o.slot].last_event]
  BY OpsSlots DEF SlotInv, OneOperation
<1>2. pool[o.slot].last_event \in Events
  BY <1>1 DEF TypeInv, ServerTypes, ReqRes
<1>3. pc # "down"
  BY DEF SlotInv, DownIsEmpty
<1> QED BY <1>1, <1>2, <1>3, OpNames DEF Events

\* One more answer, to the client it is about.
LEMMA AppendedAnswer ==
  ASSUME TypeInv, OwnAnswer, NEW c \in Clients, NEW b \in Buffers, b.about = c,
         got' = [got EXCEPT ![c] = Append(@, b)]
  PROVE  OwnAnswer'
<1>1. /\ got \in [Clients -> Seq(Buffers)]
      /\ \A f \in Clients : \A j \in DOMAIN got[f] : got[f][j].about = f
  BY DEF TypeInv, PeerTypes, OwnAnswer
<1>2. got'[c] = Append(got[c], b) /\ \A f \in Clients : f # c => got'[f] = got[f]
  BY <1>1
<1>3. Len(got[c]) \in Nat /\ DOMAIN got[c] = 1 .. Len(got[c])
  BY <1>1, LenProperties
<1>4. /\ Len(got'[c]) = Len(got[c]) + 1 /\ got'[c] \in Seq(Buffers)
      /\ \A j \in 1 .. Len(got[c]) : got'[c][j] = got[c][j]
      /\ got'[c][Len(got[c]) + 1] = b
  BY <1>1, <1>2, <1>3, AppendProperties
<1>5. DOMAIN got'[c] = 1 .. Len(got[c]) + 1
  BY <1>4, LenProperties
<1>6. \A j \in DOMAIN got'[c] : got'[c][j].about = c
  BY <1>1, <1>3, <1>4, <1>5
<1> QED BY <1>1, <1>2, <1>6 DEF OwnAnswer

\* The kernel takes no part in the accounts of the connections.
LEMMA KernelConn ==
  ASSUME ConnInv, UNCHANGED <<used, dbconn, pc, pg>>,
         \A x \in Slots : /\ pool'[x].last_event = pool[x].last_event
                          /\ Responding(x) => pool'[x] = pool[x]
  PROVE  ConnInv'
<1>1. \A x \in Slots : Responding(x)' <=> Responding(x)
  BY DEF Responding
<1> QED BY <1>1, ConnKept DEF ConnInv

\* A completion that changes no slot and no answer.
LEMMA PlainCompletion ==
  ASSUME TypeInv, AnswerInv, NEW e \in Cqes, cq' = Append(cq, e), UNCHANGED serverVars,
         pg' = pg, heap' = heap, OwnAnswer',
         ~ e.failed => /\ pool[e.slot].last_event = "ACCEPTTING" => e.fd \in Clients
                       /\ pool[e.slot].last_event # "READING"
  PROVE  AnswerInv'
<1>1. pool' = pool /\ used' = used /\ dbconn' = dbconn /\ pc' = pc
  BY DEF serverVars
<1>2. ConnInv'
  BY <1>1, KernelConn DEF AnswerInv
<1>3. TextInv'
  BY <1>1, CompletedText DEF AnswerInv
<1> QED BY <1>2, <1>3 DEF AnswerInv

LEMMA KernelAnswers ==
  ASSUME TypeInv, SlotInv, AnswerInv, Kernel
  PROVE  AnswerInv'
<1> USE DEF AnswerInv
<1>1. CASE CompleteAccept
  <2> PICK o \in inflight : o.op = "accept" /\ cq' = Append(cq, Cqe(o.slot, FALSE, Head(backlog)))
    BY <1>1 DEF CompleteAccept, Complete
  <2>1. Head(backlog) \in Clients
    BY <1>1, HeadTailProperties, EmptySeq DEF CompleteAccept, TypeInv, PeerTypes
  <2>2. o.slot \in Slots /\ pool[o.slot].last_event = "ACCEPTTING"
    BY EventOfOp
  <2> PICK e : e = Cqe(o.slot, FALSE, Head(backlog))
    OBVIOUS
  <2>0. e \in Cqes /\ e.slot = o.slot /\ ~ e.failed /\ e.fd = Head(backlog)
    BY <2>1, <2>2 DEF Cqe, Cqes
  <2>3. UNCHANGED serverVars /\ pg' = pg /\ heap' = heap /\ OwnAnswer'
    BY <1>1 DEF CompleteAccept, dbVars, queueVars, TextInv, OwnAnswer
  <2> QED BY <2>0, <2>1, <2>2, <2>3, PlainCompletion
<1>2. CASE CompleteRead
  <2> PICK o \in inflight :
        /\ o.op = "read"
        /\ pool' = [pool EXCEPT ![o.slot].buffer = Text("request", pool[o.slot].client_fd)]
        /\ cq' = Append(cq, Cqe(o.slot, FALSE, NULL))
    BY <1>2 DEF CompleteRead, Complete
  <2> DEFINE t == Text("request", pool[o.slot].client_fd)
             r == [pool[o.slot] EXCEPT !.buffer = t]
  <2>1. o.slot \in Slots /\ pool[o.slot].last_event = "READING"
    BY EventOfOp
  <2> PICK e : e = Cqe(o.slot, FALSE, NULL)
    OBVIOUS
  <2>0. e \in Cqes /\ e.slot = o.slot /\ ~ e.failed
    BY <2>1 DEF Cqe, Cqes
  <2>3. cq' = Append(cq, e) /\ t.about = pool[o.slot].client_fd
    BY DEF Text
  <2>4. pool' = [pool EXCEPT ![o.slot] = r]
    OBVIOUS
  <2> HIDE DEF t
  <2>5. /\ r.last_event = "READING" /\ r.client_fd = pool[o.slot].client_fd
        /\ r.buffer.about = pool[o.slot].client_fd
    BY <2>1, <2>3, SlotFields DEF ReqRes
  <2> HIDE DEF r
  <2>6. pool'[o.slot] = r /\ \A x \in Slots : x # o.slot => pool'[x] = pool[x]
    BY <2>1, <2>4, OtherSlots
  <2>7. \A x \in Slots : /\ pool'[x].last_event = pool[x].last_event
                         /\ pool'[x].client_fd = pool[x].client_fd
                         /\ \/ pool'[x].buffer = pool[x].buffer
                            \/ pool'[x].buffer.about = pool[x].client_fd
                         /\ Responding(x) => pool'[x] = pool[x]
    BY <2>1, <2>5, <2>6 DEF Responding
  <2>8. /\ used' = used /\ dbconn' = dbconn /\ pc' = pc /\ pg' = pg /\ heap' = heap /\ OwnAnswer'
    BY <1>2 DEF CompleteRead, dbVars, queueVars, peerVars, TextInv, OwnAnswer
  <2>9. ConnInv'
    BY <2>7, <2>8, KernelConn
  <2>10. TextInv'
    BY <2>0, <2>3, <2>5, <2>6, <2>7, <2>8, CompletedText
  <2> QED BY <2>9, <2>10
<1>3. CASE CompleteWrite
  <2> PICK o \in inflight :
        /\ o.op = "write"
        /\ got' = [got EXCEPT ![pool[o.slot].client_fd] = Append(@, pool[o.slot].buffer)]
        /\ cq' = Append(cq, Cqe(o.slot, FALSE, NULL))
    BY <1>3 DEF CompleteWrite, Complete
  <2> DEFINE c == pool[o.slot].client_fd
             b == pool[o.slot].buffer
  <2>1. o.slot \in Slots /\ pool[o.slot].last_event = "WRITING"
    BY EventOfOp
  <2> PICK e : e = Cqe(o.slot, FALSE, NULL)
    OBVIOUS
  <2>0. e \in Cqes /\ e.slot = o.slot /\ ~ e.failed
    BY <2>1 DEF Cqe, Cqes
  <2>3. cq' = Append(cq, e) /\ got' = [got EXCEPT ![c] = Append(@, b)]
    OBVIOUS
  <2>4. c \in Clients /\ b.about = c /\ b \in Buffers
    BY <2>1, SlotFields DEF TextInv
  <2> HIDE DEF c, b
  <2>5. OwnAnswer'
    BY <2>3, <2>4, AppendedAnswer DEF TextInv
  <2>6. UNCHANGED serverVars /\ pg' = pg /\ heap' = heap
    BY <1>3 DEF CompleteWrite, dbVars, queueVars
  <2> QED BY <2>0, <2>1, <2>3, <2>5, <2>6, PlainCompletion
<1>4. CASE CompleteClose
  <2> PICK o \in inflight : o.op = "close" /\ cq' = Append(cq, Cqe(o.slot, FALSE, NULL))
    BY <1>4 DEF CompleteClose, Complete
  <2>1. o.slot \in Slots /\ pool[o.slot].last_event = "CLOSING"
    BY EventOfOp
  <2> PICK e : e = Cqe(o.slot, FALSE, NULL)
    OBVIOUS
  <2>0. e \in Cqes /\ e.slot = o.slot /\ ~ e.failed
    BY <2>1 DEF Cqe, Cqes
  <2>2. UNCHANGED serverVars /\ pg' = pg /\ heap' = heap /\ OwnAnswer'
    BY <1>4 DEF CompleteClose, dbVars, queueVars, TextInv, OwnAnswer
  <2> QED BY <2>0, <2>1, <2>2, PlainCompletion
<1>5. CASE CompleteDbRead
  <2> PICK o \in inflight : o.op = "dbread" /\ cq' = Append(cq, Cqe(o.slot, FALSE, NULL))
    BY <1>5 DEF CompleteDbRead, Complete
  <2>1. o.slot \in Slots /\ pool[o.slot].last_event = "DB_RESPONDING"
    BY EventOfOp
  <2> PICK e : e = Cqe(o.slot, FALSE, NULL)
    OBVIOUS
  <2>0. e \in Cqes /\ e.slot = o.slot /\ ~ e.failed
    BY <2>1 DEF Cqe, Cqes
  <2>2. UNCHANGED serverVars /\ pg' = pg /\ heap' = heap /\ OwnAnswer'
    BY <1>5 DEF CompleteDbRead, dbVars, queueVars, peerVars, TextInv, OwnAnswer
  <2> QED BY <2>0, <2>1, <2>2, PlainCompletion
<1>6. CASE CompleteError
  <2> PICK o \in inflight : cq' = Append(cq, Cqe(o.slot, TRUE, NULL))
    BY <1>6 DEF CompleteError, Complete
  <2>1. o.slot \in Slots
    BY EventOfOp
  <2> PICK e : e = Cqe(o.slot, TRUE, NULL)
    OBVIOUS
  <2>0. e \in Cqes /\ e.slot = o.slot /\ e.failed
    BY <2>1 DEF Cqe, Cqes
  <2>2. UNCHANGED serverVars /\ pg' = pg /\ heap' = heap /\ OwnAnswer'
    BY <1>6 DEF CompleteError, dbVars, queueVars, peerVars, TextInv, OwnAnswer
  <2> QED BY <2>0, <2>1, <2>2, PlainCompletion
<1> QED BY <1>1, <1>2, <1>3, <1>4, <1>5, <1>6 DEF Kernel
-----------------------------------------------------------------------------
\* What happens to a connection while the process is not looking: it may be
\* cut and a reply may come or go, but only a command that is in progress has
\* a reply.
LEMMA LinkConn ==
  ASSUME TypeInv, ConnInv, UNCHANGED <<pool, used, dbconn, pc>>,
         \A d \in DBConns : /\ pg'[d].query = pg[d].query
                            /\ pg[d].link # "closed" => pg'[d].link # "closed"
                            /\ pg[d].query = NULL /\ pg[d].reply = "none" => pg'[d].reply = "none"
  PROVE  ConnInv'
<1>1. \A s \in Slots : Responding(s) => pool[s].dbconn \in DBConns
  BY DEF TypeInv, HasConn, Responding
<1>2. \A s \in Slots : Responding(s)' <=> Responding(s)
  BY DEF Responding
<1>3. \A s \in Slots, d \in DBConns : Owns(s, d)' <=> Owns(s, d)
  BY <1>2 DEF Owns
<1>4. \A s \in Slots : Responding(s)' => /\ pg'[pool'[s].dbconn].query = pool'[s].client_fd
                                       /\ pg'[pool'[s].dbconn].link # "closed"
  BY <1>1, <1>2 DEF ConnInv
<1>5. \A d \in DBConns : (\A s \in Slots : ~ Owns(s, d)') => pg'[d].query = NULL /\ pg'[d].reply = "none"
  BY <1>3 DEF ConnInv
<1>6. \A d \in DBConns : used'[d] => dbconn' = d \/ \E s \in Slots : Owns(s, d)'
  BY <1>3 DEF ConnInv
<1> QED BY <1>2, <1>4, <1>5, <1>6 DEF ConnInv

LEMMA WorldAnswers ==
  ASSUME TypeInv, AnswerInv, World
  PROVE  AnswerInv'
<1> USE DEF AnswerInv
<1>1. /\ pool' = pool /\ used' = used /\ dbconn' = dbconn /\ pc' = pc
      /\ cq' = cq /\ got' = got /\ heap' = heap
  BY DEF World, BackendRuns, OrphanRuns, CutLink, Connect, serverVars, queueVars, ringVars, peerVars
<1>2. TextInv'
  BY <1>1, SameText
<1>3. pg \in [DBConns -> Pgs]
  BY DEF TypeInv, DbTypes
<1>4. CASE OrphanRuns \/ Connect
  <2>1. pg' = pg
    BY <1>4 DEF OrphanRuns, Connect, dbVars
  <2> QED BY <1>1, <1>2, <2>1, LinkConn
<1>5. CASE BackendRuns
  <2> PICK d, r : d \in DBConns /\ pg[d].query # NULL /\ pg' = [pg EXCEPT ![d].reply = r]
    BY <1>5 DEF BackendRuns
  <2>1. \A x \in DBConns : /\ pg'[x].query = pg[x].query /\ pg'[x].link = pg[x].link
                           /\ x # d => pg'[x] = pg[x]
    BY <1>3 DEF Pgs
  <2> QED BY <1>1, <1>2, <2>1, LinkConn
<1>6. CASE CutLink
  <2> PICK d, r :
        d \in DBConns /\ r \in {pg[d].reply, "none"} /\ pg' = [pg EXCEPT ![d].link = "cut", ![d].reply = r]
    BY <1>6 DEF CutLink
  <2>1. \A x \in DBConns : /\ pg'[x].query = pg[x].query
                           /\ x # d => pg'[x] = pg[x]
                           /\ pg'[d].link = "cut" /\ pg'[d].reply = r
    BY <1>3 DEF Pgs
  <2> QED BY <1>1, <1>2, <2>1, LinkConn
<1> QED BY <1>4, <1>5, <1>6 DEF World
-----------------------------------------------------------------------------
LEMMA AnswerStep ==
  ASSUME BodiesParse
  PROVE  TypeInv /\ SlotInv /\ AnswerInv /\ [Next]_vars => AnswerInv'
<1> SUFFICES ASSUME TypeInv, SlotInv, AnswerInv, [Next]_vars PROVE AnswerInv'
  OBVIOUS
<1>1. CASE Boot
  BY <1>1, BootAnswers
<1>2. CASE Crash
  BY <1>2, ExitAnswers DEF Crash, AnswerInv, TextInv, OwnAnswer
<1>3. CASE QueuDispatch
  BY <1>3, DispatchAnswers
<1>4. CASE ServerLoop
  BY <1>4, LoopAnswers
<1>5. CASE Kernel
  BY <1>5, KernelAnswers
<1>6. CASE World
  BY <1>6, WorldAnswers
<1>7. CASE UNCHANGED vars
  <2>1. /\ UNCHANGED <<pool, used, dbconn, pc, pg>>
        /\ cq' = cq /\ got' = got /\ heap' = heap
    BY <1>7 DEF vars, serverVars, queueVars, ringVars, dbVars, peerVars
  <2>2. TextInv'
    BY <2>1, SameText DEF AnswerInv
  <2>3. ConnInv'
    BY <2>1, LinkConn DEF AnswerInv
  <2> QED BY <2>2, <2>3 DEF AnswerInv
<1> QED BY <1>1, <1>2, <1>3, <1>4, <1>5, <1>6, <1>7 DEF Next

THEOREM AnswerInvariant ==
  ASSUME BodiesParse
  PROVE  Spec => []AnswerInv
<1>1. TypeInv /\ SlotInv /\ AnswerInv /\ [Next]_vars => AnswerInv'
  BY AnswerStep
<1> QED BY <1>1, AnswerInit, TypeInvariant, SlotInvariant, PTL DEF Spec

\* DBCONNS_USED never lies: a connection is marked as used exactly while one
\* request, or queu_dispatch, holds it, for every size of the two pools.
THEOREM ConnectionsExclusive ==
  ASSUME BodiesParse
  PROVE  Spec => []ConnExclusive
<1>1. TypeInv /\ AnswerInv => ConnExclusive
  <2> SUFFICES ASSUME TypeInv, AnswerInv, NEW d \in DBConns
               PROVE  /\ \A s, t \in Owners(d) : s = t
                      /\ dbconn = d => Owners(d) = {}
                      /\ used[d] <=> dbconn = d \/ Owners(d) # {}
    BY DEF ConnExclusive
  <2>1. \A s : s \in Owners(d) <=> s \in Slots /\ Responding(s) /\ pool[s].dbconn = d
    BY DEF Owners, Responding
  <2>2. d # NULL
    BY NoPeerAssumption
  <2>3. \A s, t \in Owners(d) : s = t
    BY <2>1 DEF AnswerInv, ConnInv
  <2>4. dbconn = d => Owners(d) = {}
    BY <2>1 DEF AnswerInv, ConnInv
  <2>5. used[d] => dbconn = d \/ Owners(d) # {}
    BY <2>1 DEF AnswerInv, ConnInv, Owns
  <2>6. dbconn = d \/ Owners(d) # {} => used[d]
    BY <2>1, <2>2 DEF AnswerInv, ConnInv
  <2> QED BY <2>3, <2>4, <2>5, <2>6
<1> QED BY <1>1, TypeInvariant, AnswerInvariant, PTL

\* A connection in the pool carries nothing over to the next request, whatever
\* the backend and the network did while it was in use.
THEOREM ReleasedConnectionsAreIdle ==
  ASSUME BodiesParse
  PROVE  Spec => []ReleasedIdle
<1>1. AnswerInv => ReleasedIdle
  <2> SUFFICES ASSUME AnswerInv, NEW d \in DBConns, ~ used[d]
               PROVE  pg[d].query = NULL /\ pg[d].reply = "none"
    BY DEF ReleasedIdle
  <2>1. \A s \in Slots : ~ Owns(s, d)
    BY DEF AnswerInv, ConnInv, Owns
  <2> QED BY <2>1 DEF AnswerInv, ConnInv
<1> QED BY <1>1, AnswerInvariant, PTL

\* Every answer a client receives was made from its own request.
THEOREM ClientsGetTheirOwnAnswers ==
  ASSUME BodiesParse
  PROVE  Spec => []OwnAnswer
<1>1. AnswerInv => OwnAnswer
  BY DEF AnswerInv, TextInv
<1> QED BY <1>1, AnswerInvariant, PTL
=============================================================================
