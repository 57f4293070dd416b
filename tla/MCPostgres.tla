----------------------------- MODULE MCPostgres -----------------------------
(* One client with a small limit, and one that does not exist. *)
EXTENDS Postgres

Ask(f, id, valor) == [function |-> f, id |-> id, valor |-> valor]
Get(id) == [function |-> "get_extrato", id |-> id, valor |-> 0]

MCLimite == <<2>>
MCRequests == {Ask("push_credito", 1, 3), Ask("push_debito", 1, 2), Ask("push_credito", 0, 1),
               Get(1), Get(0)}
=============================================================================
