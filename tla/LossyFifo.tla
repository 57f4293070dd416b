------------------------------ MODULE LossyFifo ------------------------------
(***************************************************************************)
(* What the pending-request queue of server.c really promises its caller:  *)
(* requests leave it in the order they entered, none leaves twice, and the *)
(* one at the head is never given up.  It does not promise to keep the     *)
(* others: a push may drop the pushed request, or entries behind the head. *)
(***************************************************************************)
EXTENDS Naturals, Sequences, SequencesExt

CONSTANT Items

VARIABLE queue

Init == queue = <<>>

\* The entries up to some position stay, the pushed one follows them.
PushAfter(x, n) == queue' = Append(SubSeq(queue, 1, n), x)

Push(x) ==
  /\ x \notin ToSet(queue)
  /\ \/ \E n \in 0 .. Len(queue) : (queue # <<>> => n > 0) /\ PushAfter(x, n)
     \/ queue # <<>> /\ UNCHANGED queue

Pop == queue # <<>> /\ queue' = Tail(queue)

Next == Pop \/ \E x \in Items : Push(x)

Spec == Init /\ [][Next]_queue
=============================================================================
