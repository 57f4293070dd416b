------------------------------- MODULE Ledger -------------------------------
(***************************************************************************)
(* What the functions of configs/init.pgsql promise the servers that call  *)
(* them: every call takes effect, or is refused, at one moment between its *)
(* start and its answer, as if there were no other.                        *)
(***************************************************************************)
EXTENDS Integers, FiniteSets, Sequences, SequencesExt

CONSTANTS
  Sessions,   \* the connections of all the servers
  Requests,   \* the calls: [function, id, valor]
  Limite,     \* the limit of each client
  Int4Max,    \* the largest INTEGER
  Latest,     \* how many transactions an extrato lists: 10
  Times       \* the moments a call can start at, in their order

ASSUME LatestAssumption == Latest \in Nat

VARIABLES
  clientes,    \* the balance of each client that exists
  transacoes,  \* the transactions
  pending      \* for each session the call in progress: [call, since, ret]

Ret(kind, saldo, ultimas) == [kind |-> kind, saldo |-> saldo, ultimas |-> ultimas]
NoRet == Ret("none", 0, <<>>)
Null == Ret("NULL", 0, <<>>)
Error == Ret("error", 0, <<>>)
NoCall == [function |-> "none", id |-> 0, valor |-> 0]
Nothing == [call |-> NoCall, since |-> 0, ret |-> NoRet]

Delta(c) == IF c.function = "push_credito" THEN c.valor ELSE -c.valor
Row(c, t) == [cliente_id |-> c.id, delta |-> Delta(c), realizada_em |-> t]

\* The newest first; no two transactions start at the same time.
InOrder(list) == \A i, j \in DOMAIN list : i < j => list[i].realizada_em > list[j].realizada_em
Newest(rows) ==
  LET all == CHOOSE list \in [1 .. Cardinality(rows) -> rows] : InOrder(list)
  IN  SubSeq(all, 1, IF Len(all) < Latest THEN Len(all) ELSE Latest)

Extrato(id) ==
  Ret(IF id \in DOMAIN clientes THEN "extrato" ELSE "extrato of nobody",
      IF id \in DOMAIN clientes THEN clientes[id] ELSE 0,
      Newest({r \in transacoes : r.cliente_id = id}))

Init ==
  /\ clientes = [id \in DOMAIN Limite |-> 0]
  /\ transacoes = {}
  /\ pending = [s \in Sessions |-> Nothing]

Begin(s) ==
  /\ pending[s] = Nothing
  /\ \E c \in Requests, t \in Times :
       /\ \A u \in Sessions : pending[u].since < t
       /\ \A r \in transacoes : r.realizada_em < t
       /\ pending' = [pending EXCEPT ![s] = [call |-> c, since |-> t, ret |-> NoRet]]
  /\ UNCHANGED <<clientes, transacoes>>

InCall(s) == pending[s] # Nothing /\ pending[s].ret = NoRet
Gives(s, ret) == pending' = [pending EXCEPT ![s].ret = ret]

\* The balance moves by the amount, stays within the limit, and the transaction
\* is recorded.
Push(s) ==
  LET c == pending[s].call
      saldo == clientes[c.id] + Delta(c)
  IN  /\ InCall(s) /\ c.function # "get_extrato" /\ c.id \in DOMAIN clientes
      /\ saldo >= -Limite[c.id] /\ saldo <= Int4Max
      /\ clientes' = [clientes EXCEPT ![c.id] = saldo]
      /\ transacoes' = transacoes \cup {Row(c, pending[s].since)}
      /\ Gives(s, Ret("saldo", saldo, <<>>))

\* A debit beyond the limit is refused, and any push for a client nobody knows.
Refuse(s) ==
  LET c == pending[s].call
  IN  /\ InCall(s) /\ c.function # "get_extrato"
      /\ c.id \in DOMAIN clientes =>
           c.function = "push_debito" /\ clientes[c.id] + Delta(c) < -Limite[c.id]
      /\ Gives(s, Null)
      /\ UNCHANGED <<clientes, transacoes>>

\* An error changes nothing.
Fail(s) ==
  InCall(s) /\ pending[s].call.function # "get_extrato" /\ Gives(s, Error)
   /\ UNCHANGED <<clientes, transacoes>>

Look(s) ==
  /\ InCall(s) /\ pending[s].call.function = "get_extrato"
  /\ Gives(s, Extrato(pending[s].call.id))
  /\ UNCHANGED <<clientes, transacoes>>

Answer(s) ==
  /\ pending[s].ret # NoRet
  /\ pending' = [pending EXCEPT ![s] = Nothing]
  /\ UNCHANGED <<clientes, transacoes>>

\* The tables are UNLOGGED: a crash of the database empties them.
Crash ==
  /\ clientes' = <<>> /\ transacoes' = {}
  /\ pending' = [s \in Sessions |-> Nothing]

Next ==
  \/ \E s \in Sessions : Begin(s) \/ Push(s) \/ Refuse(s) \/ Fail(s) \/ Look(s) \/ Answer(s)
  \/ Crash

Spec == Init /\ [][Next]_<<clientes, transacoes, pending>>
=============================================================================
