------------------------------ MODULE Service ------------------------------
(***************************************************************************)
(* What a client may rely on, whatever happens inside the API: it gets at  *)
(* most one answer, the answer is about its own request, and an answer is  *)
(* a success exactly when the transaction it asked for was applied, once.  *)
(* Nothing says that an answer comes: a process that dies leaves its       *)
(* clients without one, and then the transaction may or may not happen.    *)
(***************************************************************************)
EXTENDS Naturals, Sequences

CONSTANTS
  Clients,
  Changes,   \* the kinds of request that change a balance
  Reads,     \* the kinds of request that only read the database
  Others     \* the kinds of request that never reach it

VARIABLES
  asked,     \* asked[c]: the kind of the request of c, or "none"
  applied,   \* applied[c]: how often the transaction of c was applied
  answers    \* answers[c]: the answers c received, each about some client

svars == <<asked, applied, answers>>

Init ==
  /\ asked = [c \in Clients |-> "none"]
  /\ applied = [c \in Clients |-> 0]
  /\ answers = [c \in Clients |-> <<>>]

Ask(c) ==
  /\ asked[c] = "none"
  /\ \E k \in Changes \cup Reads \cup Others : asked' = [asked EXCEPT ![c] = k]
  /\ UNCHANGED <<applied, answers>>

\* Once, and never behind the back of a client already answered.
Apply(c) ==
  /\ asked[c] \in Changes
  /\ applied[c] = 0
  /\ answers[c] = <<>>
  /\ applied' = [applied EXCEPT ![c] = 1]
  /\ UNCHANGED <<asked, answers>>

Answer(c) ==
  /\ asked[c] # "none"
  /\ answers[c] = <<>>
  /\ \E done \in BOOLEAN :
       /\ asked[c] \in Changes => (done <=> applied[c] = 1)
       /\ asked[c] \in Others => ~ done
       /\ answers' = [answers EXCEPT ![c] = << [about |-> c, done |-> done] >>]
  /\ UNCHANGED <<asked, applied>>

Next == \E c \in Clients : Ask(c) \/ Apply(c) \/ Answer(c)

Spec == Init /\ [][Next]_svars
=============================================================================
