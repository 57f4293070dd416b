------------------------------ MODULE Postgres ------------------------------
(***************************************************************************)
(* The functions of configs/init.pgsql, statement by statement, run by the *)
(* sessions of both servers at once.                                       *)
(*                                                                         *)
(* The database itself is external: each statement sees what was committed *)
(* when it started; an UPDATE waits for the transaction that holds its row *)
(* and then takes the row as that one left it; what a transaction writes is*)
(* seen when it commits.  A credit or a debit is one transaction, which    *)
(* starts with its call.                                                   *)
(***************************************************************************)
EXTENDS Ledger, Folds, FiniteSetsExt

CONSTANTS
  MaxCalls,     \* bound: calls
  MaxCrashes    \* bound: crashes of the database

ASSUME LimiteAssumption == Int4Max \in Nat /\ \A id \in DOMAIN Limite : Limite[id] \in 0 .. Int4Max
ASSUME CallsAssumption == MaxCalls \in Nat /\ 1 .. MaxCalls \subseteq Times
ASSUME RequestsAssumption == \A c \in Requests : c.valor \in Int

VARIABLES
  session,   \* the statement each session is at, and the balance it wrote
  calls,     \* the calls so far: the clock, too
  crashes,   \* the crashes so far
  answered,  \* history: the times of the transactions whose answer was given
  knew       \* history: for each time, what had been answered then

vars == <<clientes, transacoes, pending, session, calls, crashes, answered, knew>>
history == <<answered, knew>>

PInit ==
  /\ Init
  /\ session = [s \in Sessions |-> [at |-> "idle", saldo |-> 0]]
  /\ calls = 0 /\ crashes = 0
  /\ answered = {}
  /\ knew = <<>>

At(s, place) == session[s].at = place
Call(s) == pending[s].call
Go(s, place) == session' = [session EXCEPT ![s].at = place]

\* SELECT function(...): the transaction starts, and with it NOW() and
\* LOCALTIMESTAMP stand still.
PBegin(s, c) ==
  /\ At(s, "idle") /\ calls < MaxCalls
  /\ calls' = calls + 1
  /\ pending' = [pending EXCEPT ![s] = [call |-> c, since |-> calls + 1, ret |-> NoRet]]
  /\ Go(s, IF c.function = "get_extrato" THEN "select" ELSE "update")
  /\ knew' = Append(knew, answered)
  /\ UNCHANGED <<clientes, transacoes, crashes, answered>>

\* The function returns, or raises.
Returns(s, ret) ==
  /\ Gives(s, ret)
  /\ Go(s, "answer")

\* Mutant of check_violation: the limit itself cannot be reached.
check_violation_AtLimit(c, saldo) == saldo <= -Limite[c.id]

\* CHECK(saldo >= -limite).
check_violation(c, saldo) == saldo < -Limite[c.id]
out_of_range(saldo) == saldo \notin -Int4Max - 1 .. Int4Max

\* What becomes of a push that would leave saldo.  Only push_debito has an
\* EXCEPTION clause, and it is for the CHECK alone.
Evaluate(s, saldo, Then(_)) ==
  IF out_of_range(saldo) THEN Returns(s, Error)
  ELSE IF check_violation(Call(s), saldo)
       THEN Returns(s, IF Call(s).function = "push_debito" THEN Null ELSE Error)
       ELSE Then(saldo)

\* The row the UPDATE finds when it starts.
Update(s) ==
  /\ At(s, "update")
  /\ IF Call(s).id \notin DOMAIN clientes THEN Returns(s, Null)
     ELSE Evaluate(s, clientes[Call(s).id] + Delta(Call(s)), LAMBDA saldo :
            session' = [session EXCEPT ![s] = [at |-> "lock", saldo |-> saldo]] /\ UNCHANGED pending)
  /\ UNCHANGED <<clientes, transacoes, calls, crashes, history>>

Holds(t, id) == session[t].at \in {"insert", "commit"} /\ Call(t).id = id

\* Mutant of Lock: the balance read before the wait is written.
Lock_Stale(s) ==
  /\ At(s, "lock")
  /\ ~ \E t \in Sessions : Holds(t, Call(s).id)
  /\ Go(s, "insert")
  /\ UNCHANGED <<clientes, transacoes, pending, calls, crashes, history>>

\* The row is locked by nobody else; it is taken as it is by now.
Lock(s) ==
  /\ At(s, "lock")
  /\ ~ \E t \in Sessions : Holds(t, Call(s).id)
  /\ Evaluate(s, clientes[Call(s).id] + Delta(Call(s)), LAMBDA saldo :
       session' = [session EXCEPT ![s] = [at |-> "insert", saldo |-> saldo]] /\ UNCHANGED pending)
  /\ UNCHANGED <<clientes, transacoes, calls, crashes, history>>

\* Mutant of Insert: after a failure the transaction stays open.
Insert_Open(s) ==
  /\ At(s, "insert")
  /\ Go(s, "commit") \/ Go(s, "open")
  /\ UNCHANGED pending
  /\ UNCHANGED <<clientes, transacoes, calls, crashes, history>>

\* The INSERT, which may fail for want of memory or of space.
Insert(s) ==
  /\ At(s, "insert")
  /\ \/ Go(s, "commit") /\ UNCHANGED pending
     \/ Returns(s, Error)
  /\ UNCHANGED <<clientes, transacoes, calls, crashes, history>>

Commit(s) ==
  /\ At(s, "commit")
  /\ clientes' = [clientes EXCEPT ![Call(s).id] = session[s].saldo]
  /\ transacoes' = transacoes \cup {Row(Call(s), pending[s].since)}
  /\ Returns(s, Ret("saldo", session[s].saldo, <<>>))
  /\ UNCHANGED <<calls, crashes, history>>

\* Mutant of Select: the oldest first.
Select_Oldest(s) ==
  /\ At(s, "select")
  /\ Returns(s, [Extrato(Call(s).id) EXCEPT !.ultimas =
       LET all == SetToSortSeq({r \in transacoes : r.cliente_id = Call(s).id},
                               LAMBDA r, q : r.realizada_em < q.realizada_em)
       IN  SubSeq(all, 1, IF Len(all) < Latest THEN Len(all) ELSE Latest)])
  /\ UNCHANGED <<clientes, transacoes, calls, crashes, history>>

\* One statement, and one snapshot for the balance and the list.  It has a row
\* also for a client that does not exist.
Select(s) ==
  /\ At(s, "select")
  /\ Returns(s, Extrato(Call(s).id))
  /\ UNCHANGED <<clientes, transacoes, calls, crashes, history>>

PAnswer(s) ==
  /\ At(s, "answer")
  /\ pending' = [pending EXCEPT ![s] = Nothing]
  /\ Go(s, "idle")
  /\ answered' = answered \cup {pending[s].since}
  /\ UNCHANGED <<clientes, transacoes, calls, crashes, knew>>

PCrash ==
  /\ crashes < MaxCrashes /\ crashes' = crashes + 1
  /\ clientes' = <<>> /\ transacoes' = {}
  /\ pending' = [s \in Sessions |-> Nothing]
  /\ session' = [s \in Sessions |-> [at |-> "idle", saldo |-> 0]]
  /\ answered' = {}
  /\ UNCHANGED <<calls, knew>>

Step(s) == Update(s) \/ Lock(s) \/ Insert(s) \/ Commit(s) \/ Select(s) \/ PAnswer(s)

PNext ==
  \/ \E s \in Sessions : Step(s) \/ \E c \in Requests : PBegin(s, c)
  \/ PCrash

\* A session that can go on does; one that waits for a row is woken.
PSpec == PInit /\ [][PNext]_vars /\ \A s \in Sessions : WF_vars(Step(s))
-----------------------------------------------------------------------------
\* No update is lost, and none is made that its client's limit forbids: a
\* balance is what the transactions on record leave, whatever the sessions of
\* two servers do to the same row at once, and never below the limit.
Net(id) == MapThenSumSet(LAMBDA r : r.delta, {r \in transacoes : r.cliente_id = id})
Balanced == \A id \in DOMAIN clientes : clientes[id] = Net(id) /\ clientes[id] >= -Limite[id]

\* Every call takes effect at one moment: the answers are those of some order
\* of the calls, one that respects who was answered before who began.
ImplementsLedger == Spec

\* Who was given the answer to a transaction finds it in every extrato asked
\* for later, or Latest that began after it; and a transaction that began after
\* the answer to another is listed before it.
Listed(s) == pending[s].ret.ultimas
ExtratoKeepsOrder ==
  \A s \in Sessions : pending[s].ret.kind = "extrato" =>
    /\ \A r \in transacoes :
         r.cliente_id = Call(s).id /\ r.realizada_em \in knew[pending[s].since] =>
           \/ r \in ToSet(Listed(s))
           \/ Len(Listed(s)) = Latest
                /\ \A i \in 1 .. Latest : Listed(s)[i].realizada_em > r.realizada_em
    /\ \A i \in DOMAIN Listed(s) : \A j \in i + 1 .. Len(Listed(s)) :
         Listed(s)[i].realizada_em \notin knew[Listed(s)[j].realizada_em]

\* Nobody waits for a row for ever: a call that fails or is refused lets go of
\* what it holds.
CallsEnd == \A s \in Sessions : session[s].at # "idle" ~> session[s].at = "idle"
=============================================================================
