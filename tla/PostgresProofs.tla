---------------------------- MODULE PostgresProofs ----------------------------
(***************************************************************************)
(* For any number of sessions, clients and calls, and any limits: the      *)
(* statements of init.pgsql implement the atomic calls of Ledger, no       *)
(* balance passes its limit, each is the sum of the transactions on        *)
(* record, and an extrato leaves out nothing that it should know of.       *)
(***************************************************************************)
EXTENDS Postgres, DataProofs

Places == {"idle", "update", "lock", "insert", "commit", "select", "answer"}

PType ==
  /\ calls \in Nat
  /\ DOMAIN clientes \subseteq DOMAIN Limite
  /\ clientes \in [DOMAIN clientes -> Int]
  /\ session \in [Sessions -> [at : Places, saldo : Int]]
  /\ pending = [s \in Sessions |-> pending[s]]
  /\ \A s \in Sessions :
       pending[s] = [call |-> pending[s].call, since |-> pending[s].since, ret |-> pending[s].ret]

\* No call started later than now.
ClockOK ==
  /\ \A s \in Sessions : pending[s].since \in 0 .. calls
  /\ \A r \in transacoes : r.realizada_em \in 0 .. calls

\* What a session at some statement knows of its call.
InPush(s) == session[s].at \in {"update", "lock", "insert", "commit"}
CallOK(s) ==
  /\ session[s].at = "idle" => pending[s] = Nothing
  /\ session[s].at # "idle" => Call(s) \in Requests /\ pending[s].since > 0
  /\ session[s].at = "answer" => pending[s].ret # NoRet
  /\ session[s].at \notin {"idle", "answer"} => pending[s].ret = NoRet
  /\ session[s].at = "select" => Call(s).function = "get_extrato"
  /\ InPush(s) => Call(s).function # "get_extrato"

Allowed(id, saldo) == -Limite[id] <= saldo /\ saldo <= Int4Max

\* A session past its lock is alone with the row, and what it will write is the
\* balance that is there now plus its own amount.
PastLock(s) == session[s].at \in {"insert", "commit"}
RowOK(s) ==
  /\ session[s].at \in {"lock", "insert", "commit"} => Call(s).id \in DOMAIN clientes
  /\ PastLock(s) =>
       /\ session[s].saldo = clientes[Call(s).id] + Delta(Call(s))
       /\ Allowed(Call(s).id, session[s].saldo)
       /\ \A t \in Sessions : t # s => ~ Holds(t, Call(s).id)

WithinLimit == \A id \in DOMAIN clientes : Allowed(id, clientes[id])

PInv ==
  /\ PType /\ ClockOK /\ WithinLimit
  /\ \A s \in Sessions : CallOK(s) /\ RowOK(s)
-----------------------------------------------------------------------------
ledgerVars == <<clientes, transacoes, pending>>

\* What giving a result changes.
LEMMA GivesOne ==
  ASSUME PType, NEW s \in Sessions, NEW ret, Gives(s, ret)
  PROVE  /\ pending' = [t \in Sessions |-> pending'[t]]
         /\ pending'[s] = [call |-> pending[s].call, since |-> pending[s].since, ret |-> ret]
         /\ \A t \in Sessions : t # s => pending'[t] = pending[t]
<1>1. pending' = [pending EXCEPT ![s] = [pending[s] EXCEPT !.ret = ret]]
  BY DEF Gives
<1>2. pending[s] = [call |-> pending[s].call, since |-> pending[s].since, ret |-> pending[s].ret]
  BY DEF PType
<1>3. [pending[s] EXCEPT !.ret = ret] = [call |-> pending[s].call, since |-> pending[s].since, ret |-> ret]
  BY <1>2
<1>4. pending = [t \in Sessions |-> pending[t]]
  BY DEF PType
<1> QED BY <1>1, <1>3, <1>4

\* What moving to another statement changes.
LEMMA MovesOne ==
  ASSUME PType, NEW s \in Sessions, NEW place \in Places, Go(s, place)
  PROVE  /\ session' \in [Sessions -> [at : Places, saldo : Int]]
         /\ session'[s] = [at |-> place, saldo |-> session[s].saldo]
         /\ \A t \in Sessions : t # s => session'[t] = session[t]
BY DEF PType, Go

LEMMA WritesOne ==
  ASSUME PType, NEW s \in Sessions, NEW place \in Places, NEW saldo \in Int,
         session' = [session EXCEPT ![s] = [at |-> place, saldo |-> saldo]]
  PROVE  /\ session' \in [Sessions -> [at : Places, saldo : Int]]
         /\ session'[s] = [at |-> place, saldo |-> saldo]
         /\ \A t \in Sessions : t # s => session'[t] = session[t]
BY DEF PType

\* Returning without a change to the tables keeps the invariant.
LEMMA ReturnsKeeps ==
  ASSUME PInv, NEW s \in Sessions, NEW ret, Returns(s, ret), ret # NoRet, session[s].at # "idle",
         UNCHANGED <<clientes, transacoes, calls>>
  PROVE  PInv'
<1>1. PType /\ Gives(s, ret) /\ Go(s, "answer")
  BY DEF PInv, Returns
<1>2. /\ pending' = [t \in Sessions |-> pending'[t]]
      /\ pending'[s] = [call |-> pending[s].call, since |-> pending[s].since, ret |-> ret]
      /\ \A t \in Sessions : t # s => pending'[t] = pending[t]
  BY <1>1, GivesOne
<1>3. /\ session' \in [Sessions -> [at : Places, saldo : Int]]
      /\ session'[s] = [at |-> "answer", saldo |-> session[s].saldo]
      /\ \A t \in Sessions : t # s => session'[t] = session[t]
  BY <1>1, MovesOne DEF Places
<1>4. PType'
  <2>1. \A t \in Sessions :
          pending'[t] = [call |-> pending'[t].call, since |-> pending'[t].since, ret |-> pending'[t].ret]
    BY <1>1, <1>2 DEF PType
  <2> QED BY <1>1, <1>2, <1>3, <2>1 DEF PType
<1>5. ClockOK'
  BY <1>2 DEF PInv, ClockOK
<1>6. WithinLimit'
  BY DEF PInv, WithinLimit, Allowed
<1>7. ASSUME NEW t \in Sessions PROVE CallOK(t)' /\ RowOK(t)'
  <2>1. CASE t = s
    BY <1>2, <1>3, <2>1 DEF PInv, CallOK, RowOK, InPush, PastLock, Call
  <2>2. CASE t # s
    <3>1. CallOK(t)'
      BY <1>2, <1>3, <2>2 DEF PInv, CallOK, InPush, Call
    <3>2. \A u \in Sessions : u # t /\ Holds(u, Call(t).id)' => Holds(u, Call(t).id)
      BY <1>2, <1>3, <2>2 DEF Holds, Call
    <3>3. RowOK(t)'
      BY <1>2, <1>3, <2>2, <3>2 DEF PInv, RowOK, PastLock, Call, Holds, Allowed, Delta
    <3> QED BY <3>1, <3>3
  <2> QED BY <2>1, <2>2
<1> QED BY <1>4, <1>5, <1>6, <1>7 DEF PInv

\* So does going on to another statement of the same call with nothing written.
LEMMA StaysKeeps ==
  ASSUME PInv, NEW s \in Sessions, session[s].at # "idle",
         UNCHANGED <<clientes, transacoes, pending, calls>>,
         session' \in [Sessions -> [at : Places, saldo : Int]],
         \A t \in Sessions : t # s => session'[t] = session[t],
         CallOK(s)', RowOK(s)'
  PROVE  PInv'
<1>1. PType' /\ ClockOK' /\ WithinLimit'
  BY DEF PInv, PType, ClockOK, WithinLimit, Allowed
<1>2. ASSUME NEW t \in Sessions PROVE CallOK(t)' /\ RowOK(t)'
  <2>1. CASE t # s
    <3>1. CallOK(t)'
      BY <2>1 DEF PInv, CallOK, InPush, Call
    <3>2. ASSUME PastLock(t), Holds(s, Call(t).id)' PROVE FALSE
      <4>1. PastLock(s)' /\ Call(s).id = Call(t).id
        BY <3>2 DEF Holds, PastLock, Call
      <4>2. ~ Holds(t, Call(s).id)'
        BY <2>1, <4>1 DEF RowOK, Call
      <4> QED BY <2>1, <3>2, <4>1, <4>2 DEF PastLock, Holds, Call
    <3>3. \A u \in Sessions : u # t /\ u # s /\ Holds(u, Call(t).id)' => Holds(u, Call(t).id)
      BY DEF Holds, Call
    <3>4. RowOK(t)'
      BY <2>1, <3>2, <3>3 DEF PInv, RowOK, PastLock, Call, Allowed, Delta
    <3> QED BY <3>1, <3>4
  <2> QED BY <2>1
<1> QED BY <1>1, <1>2 DEF PInv
-----------------------------------------------------------------------------
LEMMA InitKeeps == PInit => Init /\ PInv
<1> SUFFICES ASSUME PInit PROVE Init /\ PInv
  OBVIOUS
<1>1. PType
  BY LimiteAssumption DEF PInit, Init, PType, Places, Nothing
<1>2. ClockOK /\ WithinLimit
  BY LimiteAssumption DEF PInit, Init, ClockOK, WithinLimit, Allowed, Nothing
<1>3. \A s \in Sessions : CallOK(s) /\ RowOK(s)
  BY DEF PInit, Init, CallOK, InPush, RowOK, PastLock
<1> QED BY <1>1, <1>2, <1>3 DEF PInit, PInv

\* A call starts.
LEMMA BeginStep ==
  ASSUME PInv, NEW s \in Sessions, NEW c \in Requests, PBegin(s, c)
  PROVE  PInv' /\ Begin(s)
<1> DEFINE started == [call |-> c, since |-> calls + 1, ret |-> NoRet]
           place == IF c.function = "get_extrato" THEN "select" ELSE "update"
<1>1. /\ pending' = [pending EXCEPT ![s] = started]
      /\ pending = [t \in Sessions |-> pending[t]]
      /\ session[s].at = "idle" /\ calls \in Nat /\ calls' = calls + 1 /\ calls < MaxCalls
      /\ UNCHANGED <<clientes, transacoes>>
  BY DEF PBegin, PInv, PType, At
<1>2. /\ pending' = [t \in Sessions |-> pending'[t]] /\ pending'[s] = started
      /\ \A t \in Sessions : t # s => pending'[t] = pending[t]
  BY <1>1
<1>3. /\ session' \in [Sessions -> [at : Places, saldo : Int]]
      /\ session'[s] = [at |-> place, saldo |-> session[s].saldo]
      /\ \A t \in Sessions : t # s => session'[t] = session[t]
  BY MovesOne DEF PBegin, Places, PInv
<1>4. PType'
  <2>1. \A t \in Sessions :
          pending'[t] = [call |-> pending'[t].call, since |-> pending'[t].since, ret |-> pending'[t].ret]
    BY <1>2 DEF PInv, PType
  <2> QED BY <1>1, <1>2, <1>3, <2>1 DEF PInv, PType
<1>5. ClockOK'
  BY <1>1, <1>2 DEF PInv, ClockOK
<1>6. WithinLimit'
  BY <1>1 DEF PInv, WithinLimit, Allowed
<1>7. ASSUME NEW t \in Sessions PROVE CallOK(t)' /\ RowOK(t)'
  <2>1. CASE t = s
    BY <1>1, <1>2, <1>3, <2>1 DEF CallOK, RowOK, InPush, PastLock, Call
  <2>2. CASE t # s
    <3>1. CallOK(t)'
      BY <1>2, <1>3, <2>2 DEF PInv, CallOK, InPush, Call
    <3>2. \A u \in Sessions : u # t /\ Holds(u, Call(t).id)' => Holds(u, Call(t).id)
      BY <1>2, <1>3, <2>2 DEF Holds, Call
    <3>3. RowOK(t)'
      BY <1>1, <1>2, <1>3, <2>2, <3>2 DEF PInv, RowOK, PastLock, Call, Holds, Allowed, Delta
    <3> QED BY <3>1, <3>3
  <2> QED BY <2>1, <2>2
<1>8. Begin(s)
  <2>1. pending[s] = Nothing
    BY <1>1 DEF PInv, CallOK
  <2>2. calls + 1 \in Times
    BY <1>1, CallsAssumption
  <2>3. /\ \A u \in Sessions : pending[u].since < calls + 1
        /\ \A r \in transacoes : r.realizada_em < calls + 1
    BY <1>1 DEF PInv, ClockOK
  <2> QED BY <1>1, <2>1, <2>2, <2>3 DEF Begin
<1> QED BY <1>4, <1>5, <1>6, <1>7, <1>8 DEF PInv
-----------------------------------------------------------------------------
\* What a balance can become: the transaction goes on with it, or the call
\* ends as Ledger allows at this moment.
Ends(s) ==
  \E ret \in {Null, Error} :
    /\ Returns(s, ret)
    /\ UNCHANGED <<clientes, transacoes>> => Refuse(s) \/ Fail(s)

LEMMA RetsDiffer == Null # NoRet /\ Error # NoRet
  BY DEF Null, Error, NoRet, Ret

LEMMA InCallHere ==
  ASSUME PInv, NEW s \in Sessions, session[s].at \notin {"idle", "answer"}
  PROVE  InCall(s)
BY DEF PInv, CallOK, InCall, Nothing

LEMMA EvaluateSays ==
  ASSUME PInv, NEW s \in Sessions, session[s].at \in {"update", "lock"},
         Call(s).id \in DOMAIN clientes,
         NEW place \in {"lock", "insert"},
         LET saldo == clientes[Call(s).id] + Delta(Call(s))
         IN  Evaluate(s, saldo, LAMBDA x :
               session' = [session EXCEPT ![s] = [at |-> place, saldo |-> x]] /\ UNCHANGED pending)
  PROVE  LET saldo == clientes[Call(s).id] + Delta(Call(s))
         IN  \/ Ends(s)
             \/ /\ session' = [session EXCEPT ![s] = [at |-> place, saldo |-> saldo]]
                /\ UNCHANGED pending
                /\ saldo \in Int /\ Allowed(Call(s).id, saldo)
<1> DEFINE saldo == clientes[Call(s).id] + Delta(Call(s))
<1>1. /\ saldo \in Int /\ Int4Max \in Nat /\ Limite[Call(s).id] \in 0 .. Int4Max
      /\ Call(s).function # "get_extrato"
  BY LimiteAssumption, RequestsAssumption DEF PInv, PType, CallOK, InPush, Delta, Call
<1>2. InCall(s)
  BY InCallHere
<1>3. CASE out_of_range(saldo)
  <2>1. Returns(s, Error)
    BY <1>3 DEF Evaluate
  <2> QED BY <1>1, <1>2, <2>1 DEF Ends, Returns, Fail, Call
<1>4. CASE ~ out_of_range(saldo) /\ check_violation(Call(s), saldo)
  <2>1. CASE Call(s).function = "push_debito"
    <3>1. Returns(s, Null)
      BY <1>4, <2>1 DEF Evaluate
    <3> QED BY <1>1, <1>2, <1>4, <2>1, <3>1 DEF Ends, Returns, Refuse, Call, check_violation
  <2>2. CASE Call(s).function # "push_debito"
    <3>1. Returns(s, Error)
      BY <1>4, <2>2 DEF Evaluate
    <3> QED BY <1>1, <1>2, <3>1 DEF Ends, Returns, Fail, Call
  <2> QED BY <2>1, <2>2
<1>5. CASE ~ out_of_range(saldo) /\ ~ check_violation(Call(s), saldo)
  <2>1. /\ session' = [session EXCEPT ![s] = [at |-> place, saldo |-> saldo]]
        /\ UNCHANGED pending
    BY <1>5 DEF Evaluate
  <2>2. Allowed(Call(s).id, saldo)
    BY <1>1, <1>5 DEF out_of_range, check_violation, Allowed
  <2> QED BY <1>1, <2>1, <2>2
<1> QED BY <1>3, <1>4, <1>5

\* A call that ends here ends as in Ledger.
LEMMA EndsStep ==
  ASSUME PInv, NEW s \in Sessions, session[s].at # "idle", Ends(s), UNCHANGED <<clientes, transacoes, calls>>
  PROVE  PInv' /\ Next
<1>1. PICK ret \in {Null, Error} : Returns(s, ret)
  BY DEF Ends
<1>2. PInv'
  BY <1>1, ReturnsKeeps, RetsDiffer
<1> QED BY <1>2 DEF Ends, Next

LEMMA UpdateStep ==
  ASSUME PInv, NEW s \in Sessions, Update(s)
  PROVE  PInv' /\ [Next]_ledgerVars
<1>1. session[s].at = "update" /\ UNCHANGED <<clientes, transacoes, calls>>
  BY DEF Update, At
<1>2. CASE Call(s).id \notin DOMAIN clientes
  <2>1. Returns(s, Null)
    BY <1>2 DEF Update
  <2>2. Refuse(s)
    BY <1>1, <1>2, <2>1, InCallHere DEF Refuse, Returns, PInv, CallOK, InPush, Call
  <2>3. Ends(s)
    BY <2>1, <2>2 DEF Ends
  <2> QED BY <1>1, <2>3, EndsStep
<1>3. CASE Call(s).id \in DOMAIN clientes
  <2> DEFINE saldo == clientes[Call(s).id] + Delta(Call(s))
  <2>1. Evaluate(s, saldo, LAMBDA x :
          session' = [session EXCEPT ![s] = [at |-> "lock", saldo |-> x]] /\ UNCHANGED pending)
    BY <1>3 DEF Update
  <2>2. \/ Ends(s)
        \/ /\ session' = [session EXCEPT ![s] = [at |-> "lock", saldo |-> saldo]]
           /\ UNCHANGED pending
           /\ saldo \in Int
    BY <1>1, <1>3, <2>1, EvaluateSays
  <2>3. CASE Ends(s)
    BY <1>1, <2>3, EndsStep
  <2>4. CASE ~ Ends(s)
    <3>1. /\ session' \in [Sessions -> [at : Places, saldo : Int]]
          /\ session'[s] = [at |-> "lock", saldo |-> saldo]
          /\ \A t \in Sessions : t # s => session'[t] = session[t]
          /\ UNCHANGED pending
      <4>1. "lock" \in Places /\ PType
        BY DEF Places, PInv
      <4> HIDE DEF saldo
      <4> QED BY <2>2, <2>4, <4>1, WritesOne
    <3>2. CallOK(s)' /\ RowOK(s)'
      BY <1>1, <1>3, <3>1 DEF PInv, CallOK, RowOK, InPush, PastLock, Call
    <3> QED BY <1>1, <3>1, <3>2, StaysKeeps DEF ledgerVars
  <2> QED BY <2>3, <2>4
<1> QED BY <1>2, <1>3

LEMMA LockStep ==
  ASSUME PInv, NEW s \in Sessions, Lock(s)
  PROVE  PInv' /\ [Next]_ledgerVars
<1> DEFINE saldo == clientes[Call(s).id] + Delta(Call(s))
<1>1. /\ session[s].at = "lock" /\ Call(s).id \in DOMAIN clientes
      /\ UNCHANGED <<clientes, transacoes, calls>>
      /\ \A t \in Sessions : ~ Holds(t, Call(s).id)
  BY DEF Lock, At, PInv, RowOK
<1>2. Evaluate(s, saldo, LAMBDA x :
        session' = [session EXCEPT ![s] = [at |-> "insert", saldo |-> x]] /\ UNCHANGED pending)
  BY DEF Lock
<1>3. \/ Ends(s)
      \/ /\ session' = [session EXCEPT ![s] = [at |-> "insert", saldo |-> saldo]]
         /\ UNCHANGED pending
         /\ saldo \in Int /\ Allowed(Call(s).id, saldo)
  BY <1>1, <1>2, EvaluateSays
<1>4. CASE Ends(s)
  BY <1>1, <1>4, EndsStep
<1>5. CASE ~ Ends(s)
  <2>1. /\ session' \in [Sessions -> [at : Places, saldo : Int]]
        /\ session'[s] = [at |-> "insert", saldo |-> saldo]
        /\ \A t \in Sessions : t # s => session'[t] = session[t]
        /\ UNCHANGED pending
        /\ Allowed(Call(s).id, saldo)
    <3>1. "insert" \in Places /\ PType
      BY DEF Places, PInv
    <3> HIDE DEF saldo
    <3> QED BY <1>3, <1>5, <3>1, WritesOne
  <2>2. CallOK(s)'
    BY <1>1, <2>1 DEF PInv, CallOK, InPush, Call
  <2>3. RowOK(s)'
    BY <1>1, <2>1 DEF RowOK, PastLock, Holds, Call, Allowed, Delta
  <2> QED BY <1>1, <2>1, <2>2, <2>3, StaysKeeps DEF ledgerVars
<1> QED BY <1>4, <1>5

LEMMA InsertStep ==
  ASSUME PInv, NEW s \in Sessions, Insert(s)
  PROVE  PInv' /\ [Next]_ledgerVars
<1>1. session[s].at = "insert" /\ UNCHANGED <<clientes, transacoes, calls>>
  BY DEF Insert, At
<1>2. CASE Returns(s, Error)
  <2>1. Fail(s)
    BY <1>1, <1>2, InCallHere DEF Fail, Returns, PInv, CallOK, InPush, Call
  <2> QED BY <1>1, <1>2, <2>1, EndsStep DEF Ends
<1>3. CASE Go(s, "commit") /\ UNCHANGED pending
  <2>1. /\ session' \in [Sessions -> [at : Places, saldo : Int]]
        /\ session'[s] = [at |-> "commit", saldo |-> session[s].saldo]
        /\ \A t \in Sessions : t # s => session'[t] = session[t]
    BY <1>3, MovesOne DEF PInv, Places
  <2>2. CallOK(s)'
    BY <1>1, <1>3, <2>1 DEF PInv, CallOK, InPush, Call
  <2>3. RowOK(s)'
    BY <1>1, <1>3, <2>1 DEF PInv, RowOK, PastLock, Holds, Call, Allowed, Delta
  <2> QED BY <1>1, <1>3, <2>1, <2>2, <2>3, StaysKeeps DEF ledgerVars
<1> QED BY <1>2, <1>3 DEF Insert

LEMMA CommitStep ==
  ASSUME PInv, NEW s \in Sessions, Commit(s)
  PROVE  PInv' /\ Next
<1> DEFINE id == Call(s).id
           saldo == session[s].saldo
           ret == Ret("saldo", saldo, <<>>)
           row == Row(Call(s), pending[s].since)
<1>1. /\ session[s].at = "commit" /\ id \in DOMAIN clientes /\ calls' = calls
      /\ clientes' = [clientes EXCEPT ![id] = saldo]
      /\ transacoes' = transacoes \cup {row}
      /\ Gives(s, ret) /\ Go(s, "answer")
      /\ saldo = clientes[id] + Delta(Call(s)) /\ Allowed(id, saldo)
      /\ PType /\ saldo \in Int
  BY DEF Commit, At, Returns, PInv, PType, RowOK, PastLock
<1>2. ret # NoRet
  BY DEF Ret, NoRet
<1>3. /\ pending' = [t \in Sessions |-> pending'[t]]
      /\ pending'[s] = [call |-> pending[s].call, since |-> pending[s].since, ret |-> ret]
      /\ \A t \in Sessions : t # s => pending'[t] = pending[t]
  BY <1>1, GivesOne
<1>4. /\ session' \in [Sessions -> [at : Places, saldo : Int]]
      /\ session'[s] = [at |-> "answer", saldo |-> saldo]
      /\ \A t \in Sessions : t # s => session'[t] = session[t]
  BY <1>1, MovesOne DEF Places
<1>5. /\ DOMAIN clientes' = DOMAIN clientes
      /\ clientes'[id] = saldo
      /\ \A j \in DOMAIN clientes : j # id => clientes'[j] = clientes[j]
      /\ clientes' \in [DOMAIN clientes -> Int]
  BY <1>1 DEF PType
<1>6. PType'
  <2>1. \A t \in Sessions :
          pending'[t] = [call |-> pending'[t].call, since |-> pending'[t].since, ret |-> pending'[t].ret]
    BY <1>1, <1>3 DEF PType
  <2> QED BY <1>1, <1>3, <1>4, <1>5, <2>1 DEF PType
<1>7. ClockOK'
  <2>1. row.realizada_em = pending[s].since
    BY DEF Row
  <2> QED BY <1>1, <1>3, <2>1 DEF PInv, ClockOK
<1>8. WithinLimit'
  BY <1>1, <1>5 DEF PInv, WithinLimit, Allowed
<1>9. ASSUME NEW t \in Sessions PROVE CallOK(t)' /\ RowOK(t)'
  <2>1. CASE t = s
    BY <1>2, <1>3, <1>4, <2>1, <1>1 DEF PInv, CallOK, RowOK, InPush, PastLock, Call
  <2>2. CASE t # s
    <3>1. CallOK(t)'
      BY <1>3, <1>4, <2>2 DEF PInv, CallOK, InPush, Call
    <3>2. \A u \in Sessions : u # t /\ Holds(u, Call(t).id)' => Holds(u, Call(t).id)
      BY <1>3, <1>4, <2>2 DEF Holds, Call
    <3>3. PastLock(t) => Call(t).id # id
      BY <1>1, <2>2 DEF PInv, RowOK, PastLock, Holds
    <3>4. RowOK(t)'
      BY <1>3, <1>4, <1>5, <2>2, <3>2, <3>3 DEF PInv, RowOK, PastLock, Call, Allowed, Delta
    <3> QED BY <3>1, <3>4
  <2> QED BY <2>1, <2>2
<1>10. Push(s)
  <2>1. InCall(s) /\ Call(s).function # "get_extrato"
    BY <1>1, InCallHere DEF PInv, CallOK, InPush
  <2>2. clientes[id] + Delta(Call(s)) >= -Limite[id] /\ clientes[id] + Delta(Call(s)) <= Int4Max
    BY <1>1, LimiteAssumption DEF Allowed, PType
  <2> QED BY <1>1, <2>1, <2>2 DEF Push, Call
<1> QED BY <1>6, <1>7, <1>8, <1>9, <1>10 DEF PInv, Next

LEMMA SelectStep ==
  ASSUME PInv, NEW s \in Sessions, Select(s)
  PROVE  PInv' /\ Next
<1> DEFINE ret == Extrato(Call(s).id)
<1>1. session[s].at = "select" /\ Returns(s, ret) /\ UNCHANGED <<clientes, transacoes, calls>>
  BY DEF Select, At
<1>2. ret # NoRet
  BY DEF Extrato, Ret, NoRet
<1>3. PInv'
  BY <1>1, <1>2, ReturnsKeeps
<1>4. Look(s)
  BY <1>1, InCallHere DEF Look, Returns, PInv, CallOK, Call
<1> QED BY <1>3, <1>4 DEF Next

LEMMA AnswerStep ==
  ASSUME PInv, NEW s \in Sessions, PAnswer(s)
  PROVE  PInv' /\ Next
<1>1. /\ session[s].at = "answer" /\ UNCHANGED <<clientes, transacoes, calls>>
      /\ pending' = [pending EXCEPT ![s] = Nothing]
      /\ Go(s, "idle") /\ PType
  BY DEF PAnswer, At, PInv
<1>2. /\ pending' = [t \in Sessions |-> pending'[t]]
      /\ pending'[s] = Nothing
      /\ \A t \in Sessions : t # s => pending'[t] = pending[t]
  <2>1. pending = [t \in Sessions |-> pending[t]]
    BY <1>1 DEF PType
  <2> QED BY <1>1, <2>1
<1>3. /\ session' \in [Sessions -> [at : Places, saldo : Int]]
      /\ session'[s] = [at |-> "idle", saldo |-> session[s].saldo]
      /\ \A t \in Sessions : t # s => session'[t] = session[t]
  BY <1>1, MovesOne DEF Places
<1>4. PType'
  <2>1. \A t \in Sessions :
          pending'[t] = [call |-> pending'[t].call, since |-> pending'[t].since, ret |-> pending'[t].ret]
    BY <1>1, <1>2 DEF PType, Nothing
  <2> QED BY <1>1, <1>2, <1>3, <2>1 DEF PType
<1>5. ClockOK' /\ WithinLimit'
  BY <1>1, <1>2 DEF PInv, PType, ClockOK, WithinLimit, Allowed, Nothing
<1>6. ASSUME NEW t \in Sessions PROVE CallOK(t)' /\ RowOK(t)'
  <2>1. CASE t = s
    BY <1>2, <1>3, <2>1 DEF CallOK, RowOK, InPush, PastLock
  <2>2. CASE t # s
    <3>1. CallOK(t)'
      BY <1>2, <1>3, <2>2 DEF PInv, CallOK, InPush, Call
    <3>2. \A u \in Sessions : u # t /\ Holds(u, Call(t).id)' => Holds(u, Call(t).id)
      BY <1>2, <1>3, <2>2 DEF Holds, Call
    <3>3. RowOK(t)'
      BY <1>1, <1>2, <1>3, <2>2, <3>2 DEF PInv, RowOK, PastLock, Call, Allowed, Delta
    <3> QED BY <3>1, <3>3
  <2> QED BY <2>1, <2>2
<1>7. Answer(s)
  BY <1>1 DEF Answer, PInv, CallOK
<1> QED BY <1>4, <1>5, <1>6, <1>7 DEF PInv, Next

LEMMA CrashStep == ASSUME PInv, PCrash PROVE PInv' /\ Next
<1>1. /\ clientes' = <<>> /\ transacoes' = {} /\ calls' = calls
      /\ pending' = [s \in Sessions |-> Nothing]
      /\ session' = [s \in Sessions |-> [at |-> "idle", saldo |-> 0]]
  BY DEF PCrash
<1>2. DOMAIN clientes' = {} /\ clientes' \in [{} -> Int]
  BY <1>1
<1>3. PType'
  <2>1. \A s \in Sessions :
          pending'[s] = [call |-> pending'[s].call, since |-> pending'[s].since, ret |-> pending'[s].ret]
    BY <1>1 DEF Nothing
  <2>2. session' \in [Sessions -> [at : Places, saldo : Int]]
    BY <1>1 DEF Places
  <2> QED BY <1>1, <1>2, <2>1, <2>2 DEF PInv, PType
<1>4. ClockOK' /\ WithinLimit'
  BY <1>1, <1>2 DEF PInv, PType, ClockOK, WithinLimit, Nothing
<1>5. \A s \in Sessions : CallOK(s)' /\ RowOK(s)'
  BY <1>1 DEF CallOK, InPush, RowOK, PastLock
<1>6. Crash
  BY <1>1 DEF Crash
<1> QED BY <1>3, <1>4, <1>5, <1>6 DEF PInv, Next

\* Every step keeps the invariant and is a step of Ledger or none.
LEMMA StepKeeps == ASSUME PInv, [PNext]_vars PROVE PInv' /\ [Next]_ledgerVars
<1>1. ASSUME NEW s \in Sessions, Step(s) PROVE PInv' /\ [Next]_ledgerVars
  BY <1>1, UpdateStep, LockStep, InsertStep, CommitStep, SelectStep, AnswerStep DEF Step
<1>2. ASSUME NEW s \in Sessions, NEW c \in Requests, PBegin(s, c) PROVE PInv' /\ [Next]_ledgerVars
  BY <1>2, BeginStep DEF Next
<1>3. CASE PCrash
  BY <1>3, CrashStep
<1>4. CASE UNCHANGED vars
  BY <1>4 DEF vars, history, ledgerVars, PInv, PType, ClockOK, WithinLimit, Allowed, CallOK, InPush,
             RowOK, PastLock, Holds, Call, Delta
<1> QED BY <1>1, <1>2, <1>3, <1>4 DEF PNext

\* Whatever the sessions of any number of servers do to the same rows at once,
\* through refused updates, failed inserts and crashes, no balance passes its
\* limit and none overflows its column.
THEOREM LimitsHold == PSpec => []WithinLimit
<1>1. PInit => PInv
  BY InitKeeps
<1>2. PInv /\ [PNext]_vars => PInv'
  BY StepKeeps
<1>3. PInv => WithinLimit
  BY DEF PInv
<1> QED BY <1>1, <1>2, <1>3, PTL DEF PSpec

\* Every call takes effect at one moment between its start and its answer: the
\* statements of init.pgsql implement the atomic calls of Ledger.
THEOREM StatementsImplementLedger == PSpec => ImplementsLedger
<1>1. PInit => Init /\ PInv
  BY InitKeeps
<1>2. PInv /\ [PNext]_vars => PInv' /\ [Next]_<<clientes, transacoes, pending>>
  BY StepKeeps DEF ledgerVars
<1> QED BY <1>1, <1>2, PTL DEF PSpec, ImplementsLedger, Spec
-----------------------------------------------------------------------------
(***************************************************************************)
(* The books, on the steps of Ledger: no update is lost.                   *)
(***************************************************************************)
\* The transactions on record, each with a time of its own, add up to the
\* balances; a call that has not ended is not on record yet.
RowsOf(id) == {r \in transacoes : r.cliente_id = id}
SumOf(id) == SumOver([r \in RowsOf(id) |-> r.delta], RowsOf(id))
Booked ==
  /\ IsFiniteSet(transacoes)
  /\ \A r \in transacoes : r.delta \in Int
  /\ \A s, t \in Sessions : s # t /\ InCall(s) => pending[s].since # pending[t].since
  /\ \A s \in Sessions : InCall(s) => \A r \in transacoes : r.realizada_em # pending[s].since
  /\ \A id \in DOMAIN clientes : clientes[id] = SumOf(id)

\* The net of a client, as a sum of integers.
LEMMA NetIsSum == ASSUME NEW id PROVE Net(id) = SumOf(id)
BY MapThenSumIsSum DEF Net, SumOf, RowsOf

\* One more row adds its amount, to its own client and to no other.
LEMMA SumAfterRow ==
  ASSUME Booked, NEW row, row \notin transacoes, row.delta \in Int,
         transacoes' = transacoes \cup {row}, NEW id
  PROVE  SumOf(id)' = IF row.cliente_id = id THEN SumOf(id) + row.delta ELSE SumOf(id)
<1> PICK S, R : S = RowsOf(id) /\ R = RowsOf(id)'
  OBVIOUS
<1> PICK f, g : f = [r \in S |-> r.delta] /\ g = [r \in R |-> r.delta]
  OBVIOUS
<1>1. SumOf(id) = SumOver(f, S) /\ SumOf(id)' = SumOver(g, R)
  BY DEF SumOf
<1>2. CASE row.cliente_id # id
  <2>1. R = S
    BY <1>2 DEF RowsOf
  <2>2. g = f
    BY <2>1
  <2> QED BY <1>1, <1>2, <2>1, <2>2
<1>3. CASE row.cliente_id = id
  <2>1. R = S \cup {row} /\ row \notin S
    BY <1>3 DEF RowsOf
  <2>2. IsFiniteSet(S)
    <3>1. S \subseteq transacoes /\ IsFiniteSet(transacoes)
      BY DEF RowsOf, Booked
    <3> QED BY <3>1, FS_Subset
  <2>3. /\ R \ {row} = S \ {row}
        /\ \A r \in S : f[r] \in Int
        /\ \A r \in R : g[r] \in Int
        /\ \A r \in S \ {row} : f[r] = g[r]
    BY <2>1 DEF RowsOf, Booked
  <2>4. SumOver(g, R) = SumOver(f, S) - Part(f, S, row) + Part(g, R, row)
    BY <2>2, <2>3, SumChange
  <2>5. Part(f, S, row) = 0 /\ Part(g, R, row) = row.delta
    BY <2>1 DEF Part
  <2>6. SumOver(f, S) \in Int
    BY <2>2, <2>3, SumInt
  <2> QED BY <1>1, <1>3, <2>4, <2>5, <2>6
<1> QED BY <1>2, <1>3

\* A call that gives its answer is in a call no more, and the others are as they
\* were.
LEMMA GivesEnds ==
  ASSUME PType, NEW s \in Sessions, NEW ret, ret # NoRet, Gives(s, ret)
  PROVE  /\ \A t \in Sessions : pending'[t].since = pending[t].since
         /\ \A t \in Sessions : InCall(t)' => InCall(t) /\ t # s
<1>1. /\ pending'[s] = [call |-> pending[s].call, since |-> pending[s].since, ret |-> ret]
      /\ \A t \in Sessions : t # s => pending'[t] = pending[t]
  BY GivesOne
<1>2. pending'[s].since = pending[s].since /\ pending'[s].ret = ret
  BY <1>1
<1> QED BY <1>1, <1>2 DEF InCall

\* The books stay as they are when no table changes and no call starts.
LEMMA NoRowKeepsBooks ==
  ASSUME Booked, UNCHANGED <<clientes, transacoes>>,
         \A s \in Sessions : InCall(s)' => InCall(s),
         \A s \in Sessions : pending'[s].since = pending[s].since \/ pending'[s] = Nothing,
         \A s \in Sessions : InCall(s) => pending[s].since > 0
  PROVE  Booked'
<1>1. \A id : SumOf(id)' = SumOf(id)
  BY DEF SumOf, RowsOf
<1>2. \A s \in Sessions : InCall(s)' => pending'[s].since = pending[s].since /\ pending[s].since # 0
  BY DEF InCall
<1> QED BY <1>1, <1>2 DEF Booked, Nothing

LEMMA BeginKeepsBooks == ASSUME PInv, Booked, NEW s \in Sessions, Begin(s) PROVE Booked'
<1>1. PICK c \in Requests, t \in Times :
        /\ \A u \in Sessions : pending[u].since < t
        /\ \A r \in transacoes : r.realizada_em < t
        /\ pending' = [pending EXCEPT ![s] = [call |-> c, since |-> t, ret |-> NoRet]]
  BY DEF Begin
<1>2. UNCHANGED <<clientes, transacoes>> /\ pending = [u \in Sessions |-> pending[u]]
  BY DEF Begin, PInv, PType
<1>3. pending'[s].since = t /\ \A u \in Sessions : u # s => pending'[u] = pending[u]
  BY <1>1, <1>2
<1>4. \A u \in Sessions : pending[u].since # t
  BY <1>1 DEF PInv, ClockOK
<1>5. \A r \in transacoes : r.realizada_em # t
  BY <1>1 DEF PInv, ClockOK
<1>6. \A id : SumOf(id)' = SumOf(id)
  BY <1>2 DEF SumOf, RowsOf
<1> QED BY <1>2, <1>3, <1>4, <1>5, <1>6 DEF Booked, InCall

LEMMA PushKeepsBooks == ASSUME PInv, Booked, NEW s \in Sessions, Push(s) PROVE Booked'
<1> PICK c, row, saldo : /\ c = pending[s].call /\ row = Row(c, pending[s].since)
                         /\ saldo = clientes[c.id] + Delta(c)
  OBVIOUS
<1>1. /\ InCall(s) /\ c.id \in DOMAIN clientes
      /\ clientes' = [clientes EXCEPT ![c.id] = saldo]
      /\ transacoes' = transacoes \cup {row}
      /\ Gives(s, Ret("saldo", saldo, <<>>))
  BY DEF Push
<1>2. /\ \A t \in Sessions : pending'[t].since = pending[t].since
      /\ \A t \in Sessions : InCall(t)' => InCall(t) /\ t # s
  BY <1>1, GivesEnds DEF PInv, Ret, NoRet
<1>3. c \in Requests /\ Delta(c) \in Int
  <2>1. session[s].at # "idle"
    BY <1>1 DEF PInv, CallOK, InCall
  <2> QED BY <2>1, RequestsAssumption DEF PInv, CallOK, Call, Delta
<1>4. row.cliente_id = c.id /\ row.delta = Delta(c) /\ row.realizada_em = pending[s].since
  BY DEF Row
<1>5. row \notin transacoes /\ row.delta \in Int
  BY <1>1, <1>3, <1>4 DEF Booked
<1>6. \A id : SumOf(id)' = IF c.id = id THEN SumOf(id) + Delta(c) ELSE SumOf(id)
  BY <1>1, <1>4, <1>5, SumAfterRow
<1>7. \A id \in DOMAIN clientes' : clientes'[id] = SumOf(id)'
  BY <1>1, <1>6 DEF Booked
<1>8. IsFiniteSet(transacoes') /\ \A r \in transacoes' : r.delta \in Int
  BY <1>1, <1>5, FS_AddElement DEF Booked
<1>9. \A t \in Sessions : InCall(t)' => \A r \in transacoes' : r.realizada_em # pending'[t].since
  BY <1>1, <1>2, <1>4 DEF Booked
<1> QED BY <1>2, <1>7, <1>8, <1>9 DEF Booked

\* Every step of Ledger keeps the books.
LEMMA LedgerKeepsBooks == ASSUME PInv, Booked, [Next]_ledgerVars PROVE Booked'
<1>1. \A s \in Sessions : InCall(s) => pending[s].since > 0
  BY DEF PInv, CallOK, InCall
<1>2. ASSUME NEW s \in Sessions, NEW ret, ret # NoRet, Gives(s, ret), UNCHANGED <<clientes, transacoes>>
      PROVE  Booked'
  <2>1. /\ \A t \in Sessions : pending'[t].since = pending[t].since
        /\ \A t \in Sessions : InCall(t)' => InCall(t) /\ t # s
    BY <1>2, GivesEnds DEF PInv
  <2> QED BY <1>1, <1>2, <2>1, NoRowKeepsBooks
<1>3. ASSUME NEW s \in Sessions, Refuse(s) \/ Fail(s) \/ Look(s) PROVE Booked'
  <2>1. Null # NoRet /\ Error # NoRet /\ Extrato(pending[s].call.id) # NoRet
    BY DEF Null, Error, NoRet, Extrato, Ret
  <2> QED BY <1>2, <1>3, <2>1 DEF Refuse, Fail, Look
<1>4. ASSUME NEW s \in Sessions, Answer(s) PROVE Booked'
  <2>1. /\ pending = [t \in Sessions |-> pending[t]]
        /\ pending' = [pending EXCEPT ![s] = Nothing] /\ UNCHANGED <<clientes, transacoes>>
    BY <1>4 DEF Answer, PInv, PType
  <2>2. pending'[s] = Nothing /\ \A t \in Sessions : t # s => pending'[t] = pending[t]
    BY <2>1
  <2> QED BY <1>1, <2>1, <2>2, NoRowKeepsBooks DEF InCall
<1>5. CASE Crash
  <2>1. /\ transacoes' = {} /\ DOMAIN clientes' = {}
        /\ \A s \in Sessions : pending'[s] = Nothing
    BY <1>5 DEF Crash
  <2>2. IsFiniteSet({})
    BY FS_EmptySet
  <2> QED BY <2>1, <2>2 DEF Booked, InCall
<1>6. CASE UNCHANGED ledgerVars
  BY <1>1, <1>6, NoRowKeepsBooks DEF ledgerVars, InCall
<1> QED BY <1>3, <1>4, <1>5, <1>6, BeginKeepsBooks, PushKeepsBooks DEF Next

LEMMA InitBooked == PInit => Booked
<1> SUFFICES ASSUME PInit PROVE Booked
  OBVIOUS
<1>1. /\ transacoes = {} /\ \A s \in Sessions : ~ InCall(s)
      /\ \A id \in DOMAIN clientes : clientes[id] = 0
  BY DEF PInit, Init, InCall
<1>2. IsFiniteSet({})
  BY FS_EmptySet
<1>3. \A id : SumOf(id) = 0
  <2> TAKE id
  <2>1. RowsOf(id) = {}
    BY <1>1 DEF RowsOf
  <2> PICK f : f = [r \in RowsOf(id) |-> r.delta]
    OBVIOUS
  <2>2. SumOver(f, {}) = 0
    BY <1>2, SumEquation
  <2> QED BY <2>1, <2>2 DEF SumOf
<1> QED BY <1>1, <1>2, <1>3 DEF Booked

\* No update is lost and none is made twice: the balance of every client is what
\* the transactions on record leave, and within its limit, whatever the sessions
\* do to the same row at once (UPDATE, INSERT and CHECK of init.pgsql).
THEOREM BooksBalance == PSpec => []Balanced
<1>1. PInit => PInv /\ Booked
  BY InitKeeps, InitBooked
<1>2. PInv /\ Booked /\ [PNext]_vars => PInv' /\ Booked'
  BY StepKeeps, LedgerKeepsBooks
<1>3. PInv /\ Booked => Balanced
  BY NetIsSum DEF PInv, Booked, Balanced, WithinLimit, Allowed
<1> QED BY <1>1, <1>2, <1>3, PTL DEF PSpec
-----------------------------------------------------------------------------
\* What Newest picks.  Rows of different times can be put in order, in one way:
\* induction over sets is by a smallest counterexample, as for the sums.
Timed(S) ==
  /\ IsFiniteSet(S)
  /\ \A r \in S : r.realizada_em \in Int
  /\ \A r, q \in S : r.realizada_em = q.realizada_em => r = q

IsLast(S, x) == x \in S /\ \A r \in S : r # x => r.realizada_em < x.realizada_em

LEMMA LastExists == ASSUME NEW S, Timed(S), S # {} PROVE \E x : IsLast(S, x)
<1> DEFINE Good(T) == T = {} \/ \E x : IsLast(T, x)
           W == {T \in SUBSET S : ~ Good(T)}
<1> SUFFICES ASSUME W # {} PROVE FALSE
  OBVIOUS
<1>1. PICK T \in W : \A U \in W : U \subseteq T => U = T
  <2> HIDE DEF W
  <2>1. W \in SUBSET (SUBSET S)
    BY DEF W
  <2> QED BY <2>1, SmallestSet DEF Timed
<1>2. T \in SUBSET S /\ ~ Good(T) /\ \A U \in SUBSET T : U # T => Good(U)
  BY <1>1
<1> HIDE DEF W
<1>3. PICK x \in T : TRUE
  BY <1>2
<1>4. CASE T = {x}
  BY <1>2, <1>4 DEF IsLast
<1>5. CASE T # {x}
  <2>1. PICK y : IsLast(T \ {x}, y)
    BY <1>2, <1>3, <1>5
  <2>2. /\ x \in S /\ y \in S /\ x # y /\ y \in T
        /\ x.realizada_em \in Int /\ y.realizada_em \in Int
        /\ \A r \in T : r.realizada_em \in Int
    BY <1>2, <1>3, <2>1 DEF IsLast, Timed
  <2>3. x.realizada_em # y.realizada_em
    BY <2>2 DEF Timed
  <2>4. CASE x.realizada_em < y.realizada_em
    <3>1. IsLast(T, y)
      BY <2>1, <2>2, <2>4 DEF IsLast
    <3> QED BY <1>2, <3>1
  <2>5. CASE y.realizada_em < x.realizada_em
    <3>1. IsLast(T, x)
      BY <2>1, <2>2, <2>5 DEF IsLast
    <3> QED BY <1>2, <3>1
  <2> QED BY <2>2, <2>3, <2>4, <2>5
<1> QED BY <1>4, <1>5

LEMMA OrderExists ==
  ASSUME NEW S, Timed(S)
  PROVE  \E list \in [1 .. Cardinality(S) -> S] : InOrder(list)
<1> DEFINE Good(T) == \E list \in [1 .. Cardinality(T) -> T] : InOrder(list)
           W == {T \in SUBSET S : ~ Good(T)}
<1> SUFFICES ASSUME W # {} PROVE FALSE
  OBVIOUS
<1>1. PICK T \in W : \A U \in W : U \subseteq T => U = T
  <2> HIDE DEF W
  <2>1. W \in SUBSET (SUBSET S)
    BY DEF W
  <2> QED BY <2>1, SmallestSet DEF Timed
<1>2. T \in SUBSET S /\ ~ Good(T) /\ \A U \in SUBSET T : U # T => Good(U)
  BY <1>1
<1> HIDE DEF W
<1>3. Timed(T)
  BY <1>2, FS_Subset DEF Timed
<1>4. CASE T = {}
  <2>1. Cardinality(T) = 0 /\ 1 .. 0 = {}
    BY <1>4, FS_EmptySet
  <2> PICK n : n = Cardinality(T)
    OBVIOUS
  <2>2. [i \in 1 .. n |-> i] \in [1 .. n -> T] /\ InOrder([i \in 1 .. n |-> i])
    BY <2>1 DEF InOrder
  <2> QED BY <1>2, <2>2
<1>5. CASE T # {}
  <2>1. PICK x : IsLast(T, x)
    BY <1>3, <1>5, LastExists
  <2> PICK U, n, m : U = T \ {x} /\ n = Cardinality(T) /\ m = Cardinality(U)
    OBVIOUS
  <2>2. n \in Nat /\ m = n - 1 /\ n > 0
    <3>1. IsFiniteSet(T) /\ x \in T
      BY <1>3, <2>1 DEF Timed, IsLast
    <3>2. n \in Nat /\ m = n - 1
      BY <3>1, FS_RemoveElement, FS_CardinalityType
    <3>3. n # 0
      BY <1>5, <3>1, FS_EmptySet
    <3> QED BY <3>2, <3>3
  <2>3. PICK g \in [1 .. m -> U] : InOrder(g)
    <3>1. Good(U)
      BY <1>2, <2>1 DEF IsLast
    <3> QED BY <3>1
  <2> DEFINE f == [i \in 1 .. n |-> IF i = 1 THEN x ELSE g[i - 1]]
  <2>7. \A i \in 1 .. n : i # 1 => i - 1 \in 1 .. m /\ g[i - 1] \in U
    <3>1. \A i \in 1 .. n : i # 1 => i - 1 \in 1 .. m
      BY <2>2
    <3> QED BY <2>3, <3>1
  <2>4. f \in [1 .. n -> T]
    BY <2>1, <2>7 DEF IsLast
  <2>5. ASSUME NEW i \in 1 .. n, NEW j \in 1 .. n, i < j
        PROVE  f[i].realizada_em > f[j].realizada_em
    <3>1. j - 1 \in 1 .. m /\ j # 1 /\ f[j] = g[j - 1] /\ g[j - 1] \in U
      <4>1. j # 1
        BY <2>2, <2>5
      <4> QED BY <2>7, <4>1
    <3>2. CASE i = 1
      <4>1. f[i] = x /\ g[j - 1] # x /\ g[j - 1] \in T
        BY <3>1, <3>2
      <4>2. f[i].realizada_em \in Int /\ f[j].realizada_em \in Int
        BY <1>3, <2>4 DEF Timed
      <4> QED BY <2>1, <3>1, <4>1, <4>2 DEF IsLast
    <3>3. CASE i # 1
      <4>1. i - 1 \in 1 .. m /\ f[i] = g[i - 1] /\ i - 1 < j - 1
        BY <2>2, <2>5, <3>3
      <4> QED BY <2>3, <3>1, <4>1 DEF InOrder
    <3> QED BY <3>2, <3>3
  <2>6. InOrder(f)
    BY <2>5 DEF InOrder
  <2> HIDE DEF f
  <2> QED BY <1>2, <2>4, <2>6
<1> QED BY <1>4, <1>5

\* Newest gives rows of the set in order, and leaves out only older ones, when
\* there are Latest that are newer.
LEMMA NewestIs ==
  ASSUME NEW S, Timed(S)
  PROVE  /\ Newest(S) \in Seq(S)
         /\ InOrder(Newest(S))
         /\ \A r \in S :
              \/ \E i \in 1 .. Len(Newest(S)) : Newest(S)[i] = r
              \/ /\ Len(Newest(S)) = Latest
                 /\ \A i \in 1 .. Latest : Newest(S)[i].realizada_em > r.realizada_em
<1> PICK n : n = Cardinality(S)
  OBVIOUS
<1> PICK all : all = CHOOSE list \in [1 .. n -> S] : InOrder(list)
  OBVIOUS
<1>1. n \in Nat /\ all \in [1 .. n -> S] /\ InOrder(all) /\ IsFiniteSet(S)
  BY OrderExists, FS_CardinalityType DEF Timed
<1>2. all \in Seq(S) /\ Len(all) = n
  BY <1>1
<1> PICK k : k = IF n < Latest THEN n ELSE Latest
  OBVIOUS
<1>3. k \in 0 .. n
  BY <1>1, LatestAssumption
<1> PICK list : list = SubSeq(all, 1, k)
  OBVIOUS
<1>4. Newest(S) = list
  BY <1>2 DEF Newest
<1>5. list \in Seq(S) /\ Len(list) = k /\ \A i \in 1 .. k : list[i] = all[i]
  BY <1>2, <1>3
<1>6. InOrder(list)
  <2>1. DOMAIN list = 1 .. k /\ DOMAIN all = 1 .. n
    BY <1>1, <1>5
  <2>2. \A i \in 1 .. k : i \in 1 .. n
    BY <1>1, <1>3
  <2>3. ASSUME NEW i \in 1 .. k, NEW j \in 1 .. k, i < j
        PROVE  list[i].realizada_em > list[j].realizada_em
    <3>1. all[i].realizada_em > all[j].realizada_em
      BY <1>1, <2>1, <2>2, <2>3 DEF InOrder
    <3>2. list[i] = all[i] /\ list[j] = all[j]
      BY <1>5
    <3> QED BY <3>1, <3>2
  <2> QED BY <2>1, <2>3 DEF InOrder
<1>7. ASSUME NEW r \in S
      PROVE  \/ \E i \in 1 .. k : list[i] = r
             \/ k = Latest /\ \A i \in 1 .. Latest : list[i].realizada_em > r.realizada_em
  <2>1. PICK j \in 1 .. n : all[j] = r
    <3>1. \A i, j \in 1 .. n : all[i] = all[j] => i = j
      <4> SUFFICES ASSUME NEW i \in 1 .. n, NEW j \in 1 .. n, i < j, all[i] = all[j] PROVE FALSE
        BY <1>1
      <4>1. all[i].realizada_em > all[j].realizada_em /\ all[j].realizada_em \in Int
        BY <1>1 DEF InOrder, Timed
      <4> QED BY <4>1
    <3>2. all \in Injection(1 .. n, S)
      BY <1>1, <3>1 DEF Injection, IsInjective
    <3>3. Cardinality(1 .. n) = n /\ IsFiniteSet(1 .. n)
      BY <1>1, FS_Interval
    <3>4. all \in Surjection(1 .. n, S)
      BY <1>1, <3>2, <3>3, FS_Injection
    <3> QED BY <3>4 DEF Surjection
  <2>2. CASE j \in 1 .. k
    BY <1>5, <2>1, <2>2
  <2>3. CASE j \notin 1 .. k
    <3>1. k = Latest /\ \A i \in 1 .. k : i < j /\ i \in 1 .. n
      BY <1>1, <1>3, <2>3, LatestAssumption
    <3> QED BY <1>1, <1>5, <2>1, <3>1 DEF InOrder
  <2> QED BY <2>2, <2>3
<1> QED BY <1>4, <1>5, <1>6, <1>7
-----------------------------------------------------------------------------
\* What was answered when: a call knows only of calls that ended before it
\* began, and of none that is still under way.
KnewOK ==
  /\ knew \in Seq(SUBSET Nat) /\ Len(knew) = calls
  /\ answered \subseteq 1 .. calls
  /\ \A t \in 1 .. calls : knew[t] \subseteq 1 .. t - 1
  /\ \A s \in Sessions : InCall(s) =>
       pending[s].since \notin answered /\ \A t \in 1 .. calls : pending[s].since \notin knew[t]
RowsOK ==
  /\ \A r \in transacoes : r.realizada_em \in 1 .. calls
  /\ \A r, q \in transacoes : r.realizada_em = q.realizada_em => r = q

\* An extrato lists rows in order, and every row that it knew of unless Latest
\* newer ones are there.
ListOK(s) ==
  /\ Listed(s) \in Seq(transacoes)
  /\ InOrder(Listed(s))
  /\ \A r \in transacoes :
       r.cliente_id = Call(s).id /\ r.realizada_em \in knew[pending[s].since] =>
         \/ \E i \in 1 .. Len(Listed(s)) : Listed(s)[i] = r
         \/ /\ Len(Listed(s)) = Latest
            /\ \A i \in 1 .. Latest : Listed(s)[i].realizada_em > r.realizada_em
ListsOK == \A s \in Sessions : pending[s].ret.kind = "extrato" => ListOK(s)

Reads == KnewOK /\ RowsOK /\ ListsOK

LEMMA ReadsInit == PInit => Reads
BY DEF PInit, Init, Reads, KnewOK, RowsOK, ListsOK, InCall, Nothing, NoRet, Ret

\* A list stays right while its session waits and new rows come that it did not
\* know of.
LEMMA ListStays ==
  ASSUME NEW s \in Sessions, ListOK(s), pending'[s] = pending[s], transacoes \subseteq transacoes',
         knew'[pending[s].since] = knew[pending[s].since],
         \A r \in transacoes' : r \in transacoes \/ r.realizada_em \notin knew[pending[s].since]
  PROVE  ListOK(s)'
<1> PICK list, id, k : list = Listed(s) /\ id = Call(s).id /\ k = knew[pending[s].since]
  OBVIOUS
<1>1. Listed(s)' = list /\ Call(s)'.id = id /\ knew'[pending'[s].since] = k
  BY DEF Listed, Call
<1>2. list \in Seq(transacoes')
  BY DEF ListOK
<1> QED BY <1>1, <1>2 DEF ListOK

\* A step that writes no row, starts no call and gives no extrato.
LEMMA QuietStep ==
  ASSUME PInv, Reads, UNCHANGED <<transacoes, calls, history>>,
         \A s \in Sessions : pending'[s].since = pending[s].since /\ (InCall(s)' => InCall(s)),
         \A s \in Sessions : pending'[s] = pending[s] \/ pending'[s].ret.kind # "extrato"
  PROVE  Reads'
<1>1. KnewOK' /\ RowsOK'
  BY DEF Reads, KnewOK, RowsOK, history
<1>2. ASSUME NEW s \in Sessions, pending'[s].ret.kind = "extrato" PROVE ListOK(s)'
  <2>1. pending'[s] = pending[s]
    BY <1>2
  <2> QED BY <1>2, <2>1, ListStays DEF Reads, ListsOK, history
<1> QED BY <1>1, <1>2 DEF Reads, ListsOK

\* A session in a call is past its beginning.
LEMMA SinceBegan ==
  ASSUME PInv, NEW s \in Sessions, session[s].at # "idle"
  PROVE  pending[s].since \in 1 .. calls /\ calls \in Nat
BY DEF PInv, PType, ClockOK, CallOK

\* Giving a result that is no extrato is quiet.
LEMMA ReturnsReads ==
  ASSUME PInv, Reads, NEW s \in Sessions, NEW ret \in {Null, Error}, Returns(s, ret),
         UNCHANGED <<transacoes, calls, history>>
  PROVE  Reads'
<1>1. /\ pending'[s] = [call |-> pending[s].call, since |-> pending[s].since, ret |-> ret]
      /\ \A t \in Sessions : t # s => pending'[t] = pending[t]
  BY GivesOne DEF PInv, Returns
<1>2. ret # NoRet /\ ret.kind # "extrato"
  BY DEF Null, Error, NoRet, Ret
<1> QED BY <1>1, <1>2, QuietStep DEF InCall

LEMMA CommitReads ==
  ASSUME PInv, Booked, Reads, NEW s \in Sessions, Commit(s)
  PROVE  Reads'
<1> PICK row, ret : /\ row = Row(Call(s), pending[s].since)
                    /\ ret = Ret("saldo", session[s].saldo, <<>>)
  OBVIOUS
<1>1. /\ session[s].at = "commit" /\ transacoes' = transacoes \cup {row}
      /\ Returns(s, ret) /\ UNCHANGED <<calls, history>>
  BY DEF Commit, At
<1>2. /\ pending'[s] = [call |-> pending[s].call, since |-> pending[s].since, ret |-> ret]
      /\ \A t \in Sessions : t # s => pending'[t] = pending[t]
  BY <1>1, GivesOne DEF PInv, Returns
<1>3. row.realizada_em = pending[s].since /\ ret.kind = "saldo" /\ ret # NoRet
  BY DEF Row, Ret, NoRet
<1>4. InCall(s) /\ pending[s].since \in 1 .. calls
  BY <1>1, InCallHere, SinceBegan
<1>5. KnewOK'
  BY <1>1, <1>2, <1>3 DEF Reads, KnewOK, history, InCall
<1>6. RowsOK'
  BY <1>1, <1>3, <1>4 DEF Reads, RowsOK, Booked
<1>7. ASSUME NEW t \in Sessions, pending'[t].ret.kind = "extrato" PROVE ListOK(t)'
  <2>1. t # s /\ pending'[t] = pending[t]
    BY <1>2, <1>3, <1>7
  <2>2. pending[t].since \in 1 .. calls
    <3>1. session[t].at # "idle"
      BY <1>7, <2>1 DEF PInv, CallOK, Nothing, NoRet, Ret
    <3> QED BY <3>1, SinceBegan
  <2>3. row.realizada_em \notin knew[pending[t].since]
    BY <1>3, <1>4, <2>2 DEF Reads, KnewOK
  <2>4. ListOK(t)
    BY <1>7, <2>1 DEF Reads, ListsOK
  <2> QED BY <1>1, <2>1, <2>3, <2>4, ListStays DEF history
<1> QED BY <1>5, <1>6, <1>7 DEF Reads, ListsOK

LEMMA SelectReads ==
  ASSUME PInv, Booked, Reads, NEW s \in Sessions, Select(s)
  PROVE  Reads'
<1> PICK id, S : id = Call(s).id /\ S = {r \in transacoes : r.cliente_id = id}
  OBVIOUS
<1> PICK ret : ret = Extrato(id)
  OBVIOUS
<1>1. session[s].at = "select" /\ Returns(s, ret) /\ UNCHANGED <<transacoes, calls, history>>
  BY DEF Select, At
<1>2. /\ pending'[s] = [call |-> pending[s].call, since |-> pending[s].since, ret |-> ret]
      /\ \A t \in Sessions : t # s => pending'[t] = pending[t]
  BY <1>1, GivesOne DEF PInv, Returns
<1>3. ret.ultimas = Newest(S) /\ ret # NoRet
  BY DEF Extrato, Ret, NoRet
<1>4. KnewOK' /\ RowsOK'
  BY <1>1, <1>2, <1>3 DEF Reads, KnewOK, RowsOK, history, InCall
<1>5. ListOK(s)'
  <2>1. Timed(S)
    <3>1. IsFiniteSet(S)
      BY FS_Subset DEF Booked
    <3> QED BY <3>1 DEF Timed, Reads, RowsOK
  <2> PICK list : list = Newest(S)
    OBVIOUS
  <2>2. /\ list \in Seq(S)
        /\ InOrder(list)
        /\ \A r \in S :
             \/ \E i \in 1 .. Len(list) : list[i] = r
             \/ Len(list) = Latest /\ \A i \in 1 .. Latest : list[i].realizada_em > r.realizada_em
    BY <2>1, NewestIs
  <2>3. Listed(s)' = list /\ Call(s)'.id = id
    BY <1>2, <1>3 DEF Listed, Call
  <2>4. list \in Seq(transacoes')
    BY <1>1, <2>2
  <2>5. \A r \in transacoes' : r.cliente_id = id => r \in S
    BY <1>1
  <2> QED BY <2>2, <2>3, <2>4, <2>5 DEF ListOK
<1>6. ASSUME NEW t \in Sessions, t # s, pending'[t].ret.kind = "extrato" PROVE ListOK(t)'
  BY <1>1, <1>2, <1>6, ListStays DEF Reads, ListsOK, history
<1> QED BY <1>4, <1>5, <1>6 DEF Reads, ListsOK

LEMMA BeginReads ==
  ASSUME PInv, Reads, NEW s \in Sessions, NEW c \in Requests, PBegin(s, c)
  PROVE  Reads'
<1>1. /\ calls \in Nat /\ calls' = calls + 1 /\ knew' = Append(knew, answered)
      /\ UNCHANGED <<transacoes, answered>> /\ pending = [t \in Sessions |-> pending[t]]
      /\ pending' = [pending EXCEPT ![s] = [call |-> c, since |-> calls + 1, ret |-> NoRet]]
  BY DEF PBegin, PInv, PType
<1>2. /\ pending'[s] = [call |-> c, since |-> calls + 1, ret |-> NoRet]
      /\ \A t \in Sessions : t # s => pending'[t] = pending[t]
  BY <1>1
<1>3. /\ knew' \in Seq(SUBSET Nat) /\ Len(knew') = calls + 1
      /\ \A t \in 1 .. calls : knew'[t] = knew[t]
      /\ knew'[calls + 1] = answered
  <2>1. answered \in SUBSET Nat /\ knew \in Seq(SUBSET Nat) /\ Len(knew) = calls
    BY <1>1 DEF Reads, KnewOK
  <2> QED BY <1>1, <2>1
<1>4. KnewOK'
  <2>1. \A t \in 1 .. calls' : t \in 1 .. calls \/ t = calls + 1
    BY <1>1
  <2>2. \A t \in 1 .. calls' : knew'[t] \subseteq 1 .. t - 1 /\ knew'[t] \subseteq 1 .. calls
    <3>1. \A t \in 1 .. calls : knew[t] \subseteq 1 .. t - 1
      BY DEF Reads, KnewOK
    <3>2. answered \subseteq 1 .. (calls + 1) - 1 /\ answered \subseteq 1 .. calls
      BY <1>1 DEF Reads, KnewOK
    <3>3. \A t \in 1 .. calls : \A k \in 1 .. t - 1 : k \in 1 .. calls
      BY <1>1
    <3> QED BY <1>3, <2>1, <3>1, <3>2, <3>3
  <2>3. answered' \subseteq 1 .. calls'
    BY <1>1 DEF Reads, KnewOK
  <2>4. ASSUME NEW u \in Sessions, InCall(u)'
        PROVE  pending'[u].since \notin answered' /\ \A t \in 1 .. calls' : pending'[u].since \notin knew'[t]
    <3>1. CASE u = s
      <4>1. pending'[u].since = calls + 1 /\ calls + 1 \notin 1 .. calls
        BY <1>1, <1>2, <3>1
      <4> QED BY <1>1, <2>2, <4>1 DEF Reads, KnewOK
    <3>2. CASE u # s
      <4>1. pending'[u] = pending[u] /\ InCall(u)
        BY <1>2, <2>4, <3>2 DEF InCall
      <4> QED BY <1>1, <1>3, <2>1, <4>1 DEF Reads, KnewOK
    <3> QED BY <3>1, <3>2
  <2> QED BY <1>1, <1>3, <2>2, <2>3, <2>4 DEF KnewOK
<1>5. RowsOK'
  BY <1>1 DEF Reads, RowsOK
<1>6. ASSUME NEW t \in Sessions, pending'[t].ret.kind = "extrato" PROVE ListOK(t)'
  <2>1. t # s /\ pending'[t] = pending[t]
    BY <1>2, <1>6 DEF NoRet, Ret
  <2>2. pending[t].since \in 1 .. calls
    <3>1. session[t].at # "idle"
      BY <1>6, <2>1 DEF PInv, CallOK, Nothing, NoRet, Ret
    <3> QED BY <3>1, SinceBegan
  <2> QED BY <1>1, <1>3, <1>6, <2>1, <2>2, ListStays DEF Reads, ListsOK
<1> QED BY <1>4, <1>5, <1>6 DEF Reads, ListsOK

LEMMA AnswerReads ==
  ASSUME PInv, Booked, Reads, NEW s \in Sessions, PAnswer(s)
  PROVE  Reads'
<1>1. /\ session[s].at = "answer" /\ UNCHANGED <<transacoes, calls, knew>>
      /\ pending' = [pending EXCEPT ![s] = Nothing] /\ pending = [t \in Sessions |-> pending[t]]
      /\ answered' = answered \cup {pending[s].since}
  BY DEF PAnswer, At, PInv, PType
<1>2. pending'[s] = Nothing /\ \A t \in Sessions : t # s => pending'[t] = pending[t]
  BY <1>1
<1>3. pending[s].since \in 1 .. calls
  BY <1>1, SinceBegan
<1>4. KnewOK'
  <2>1. \A t \in Sessions : InCall(t)' => t # s /\ InCall(t) /\ pending'[t].since = pending[t].since
    BY <1>2 DEF InCall
  <2>2. \A t \in Sessions : t # s /\ InCall(t) => pending[t].since # pending[s].since
    BY DEF Booked
  <2> QED BY <1>1, <1>3, <2>1, <2>2 DEF Reads, KnewOK
<1>5. RowsOK'
  BY <1>1 DEF Reads, RowsOK
<1>6. ASSUME NEW t \in Sessions, pending'[t].ret.kind = "extrato" PROVE ListOK(t)'
  <2>1. pending'[t] = pending[t]
    BY <1>2, <1>6 DEF Nothing, NoRet, Ret
  <2> QED BY <1>1, <1>6, <2>1, ListStays DEF Reads, ListsOK
<1> QED BY <1>4, <1>5, <1>6 DEF Reads, ListsOK

LEMMA CrashReads == ASSUME PInv, Reads, PCrash PROVE Reads'
<1>1. /\ transacoes' = {} /\ answered' = {} /\ UNCHANGED <<calls, knew>>
      /\ \A s \in Sessions : pending'[s] = Nothing
  BY DEF PCrash
<1>2. \A s \in Sessions : ~ InCall(s)' /\ pending'[s].ret.kind # "extrato"
  BY <1>1 DEF InCall, Nothing, NoRet, Ret
<1> QED BY <1>1, <1>2 DEF Reads, KnewOK, RowsOK, ListsOK

LEMMA StepReads == ASSUME PInv, Booked, Reads, [PNext]_vars PROVE Reads'
<1>1. ASSUME NEW s \in Sessions, Update(s) PROVE Reads'
  <2>1. UNCHANGED <<transacoes, calls, history>>
    BY <1>1 DEF Update
  <2>2. CASE Call(s).id \notin DOMAIN clientes
    BY <1>1, <2>1, <2>2, ReturnsReads DEF Update
  <2>3. CASE Call(s).id \in DOMAIN clientes
    <3>1. Returns(s, Null) \/ Returns(s, Error) \/ UNCHANGED pending
      BY <1>1, <2>3 DEF Update, Evaluate
    <3>2. CASE UNCHANGED pending
      BY <2>1, <3>2, QuietStep DEF InCall
    <3> QED BY <2>1, <3>1, <3>2, ReturnsReads
  <2> QED BY <2>2, <2>3
<1>2. ASSUME NEW s \in Sessions, Lock(s) PROVE Reads'
  <2>1. UNCHANGED <<transacoes, calls, history>>
    BY <1>2 DEF Lock
  <2>2. Returns(s, Null) \/ Returns(s, Error) \/ UNCHANGED pending
    BY <1>2 DEF Lock, Evaluate
  <2>3. CASE UNCHANGED pending
    BY <2>1, <2>3, QuietStep DEF InCall
  <2> QED BY <2>1, <2>2, <2>3, ReturnsReads
<1>3. ASSUME NEW s \in Sessions, Insert(s) PROVE Reads'
  <2>1. UNCHANGED <<transacoes, calls, history>>
    BY <1>3 DEF Insert
  <2>2. CASE UNCHANGED pending
    BY <2>1, <2>2, QuietStep DEF InCall
  <2> QED BY <1>3, <2>1, <2>2, ReturnsReads DEF Insert
<1>4. CASE UNCHANGED vars
  BY <1>4, QuietStep DEF vars, history, InCall
<1> QED BY <1>1, <1>2, <1>3, <1>4, CommitReads, SelectReads, BeginReads, AnswerReads, CrashReads DEF PNext, Step

\* Who was given the answer to a transaction finds it in every extrato asked
\* for later, or Latest that began after it, and rows are listed in the order of
\* their calls (ORDER BY realizada_em DESC LIMIT 10), however the transactions
\* of other sessions interleave with both.
THEOREM ExtratosAreInOrder == PSpec => []ExtratoKeepsOrder
<1>1. PInit => PInv /\ Booked /\ Reads
  BY InitKeeps, InitBooked, ReadsInit
<1>2. PInv /\ Booked /\ Reads /\ [PNext]_vars => PInv' /\ Booked' /\ Reads'
  BY StepKeeps, LedgerKeepsBooks, StepReads
<1>3. PInv /\ Reads => ExtratoKeepsOrder
  <2> SUFFICES ASSUME PInv, Reads, NEW s \in Sessions, pending[s].ret.kind = "extrato"
               PROVE  /\ \A r \in transacoes :
                           r.cliente_id = Call(s).id /\ r.realizada_em \in knew[pending[s].since] =>
                             \/ r \in ToSet(Listed(s))
                             \/ Len(Listed(s)) = Latest
                                  /\ \A i \in 1 .. Latest : Listed(s)[i].realizada_em > r.realizada_em
                      /\ \A i \in DOMAIN Listed(s) : \A j \in i + 1 .. Len(Listed(s)) :
                           Listed(s)[i].realizada_em \notin knew[Listed(s)[j].realizada_em]
    BY DEF ExtratoKeepsOrder
  <2>1. ListOK(s)
    BY DEF Reads, ListsOK
  <2> PICK list : list = Listed(s)
    OBVIOUS
  <2>2. list \in Seq(transacoes) /\ InOrder(list) /\ DOMAIN list = 1 .. Len(list)
    BY <2>1 DEF ListOK
  <2>3. ToSet(list) = {list[i] : i \in 1 .. Len(list)}
    BY <2>2 DEF ToSet
  <2>4. ASSUME NEW i \in 1 .. Len(list), NEW j \in i + 1 .. Len(list)
        PROVE  list[i].realizada_em \notin knew[list[j].realizada_em]
    <3>1. j \in 1 .. Len(list) /\ i < j
      BY <2>2
    <3>2. list[j].realizada_em \in 1 .. calls /\ list[i].realizada_em > list[j].realizada_em
      BY <2>2, <3>1 DEF InOrder, Reads, RowsOK
    <3> QED BY <3>2 DEF Reads, KnewOK, PInv, PType
  <2> QED BY <2>1, <2>2, <2>3, <2>4 DEF ListOK
<1> QED BY <1>1, <1>2, <1>3, PTL DEF PSpec
=============================================================================
