------------------------------ MODULE MCServer ------------------------------
(* Model-checking instances of Server. *)
EXTENDS Server, TLC

\* The peers are interchangeable.
Symmetry == Permutations(Clients)

ArrivalOrder == CHOOSE s \in [1 .. Cardinality(Clients) -> Clients] :
                  \A c \in Clients : \E i \in DOMAIN s : s[i] = c

\* A busy moment: the process has just started and every peer has connected
\* before the first accept completes (Boot, then Connect for each peer).
BusyInit ==
  /\ pool = [s \in Slots |-> IF s = 0 THEN Accepting ELSE Zeroed]
  /\ used = [d \in DBConns |-> FALSE]
  /\ dbconn = NULL
  /\ pc = "top"
  /\ Queue!QInit
  /\ sq = {} /\ inflight = {Op("accept", 0)} /\ cq = <<>>
  /\ pg = [d \in DBConns |-> FreshPg]
  /\ backlog = ArrivalOrder
  /\ peer = [c \in Clients |-> "backlog"]
  /\ kind \in [Clients -> Kinds]
  /\ got = [c \in Clients |-> <<>>]
  /\ orphans = {}
  /\ commits = [c \in Clients |-> 0]
  /\ faults = [io |-> 0, submit |-> 0, cut |-> 0, crash |-> 0]

BusySpec == BusyInit /\ [][Next]_vars /\ Fairness
=============================================================================
