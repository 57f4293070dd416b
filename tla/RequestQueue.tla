---------------------------- MODULE RequestQueue ----------------------------
(***************************************************************************)
(* The linked list of requests waiting for a database connection           *)
(* (server.c, QueueItem, first, last, queu_push, queu_pop).                *)
(*                                                                         *)
(* A list cell holds one ReqRes, and a ReqRes is pushed again only after   *)
(* its cell was freed (Server!PushedOnce), so a cell is named by the item  *)
(* it holds.  heap is the set of cells allocated and not yet freed; a cell *)
(* of heap that cannot be reached from first is a request the program has  *)
(* forgotten.                                                              *)
(***************************************************************************)
EXTENDS Walks

CONSTANTS
  Items,   \* the requests that may be queued
  NULL     \* the null pointer

ASSUME NullAssumption == NULL \notin Items

VARIABLES
  first,   \* head of the list, or NULL
  last,    \* where the next push links its cell, or NULL
  next,    \* next[x]: the successor stored in the cell of x
  heap     \* the cells allocated and not freed

qvars == <<first, last, next, heap>>

QTypeOK ==
  /\ first \in Items \cup {NULL}
  /\ last \in Items \cup {NULL}
  /\ next \in [Items -> Items \cup {NULL}]
  /\ heap \subseteq Items

QInit ==
  /\ first = NULL
  /\ last = NULL
  /\ next = [x \in Items |-> NULL]
  /\ heap = {}

\* calloc gives a cell whose next is NULL.  The link is written through last,
\* and first changes only when the list was empty.
queu_push(x) ==
  /\ x \notin heap
  /\ heap' = heap \cup {x}
  /\ next' = IF last = NULL THEN [next EXCEPT ![x] = NULL]
             ELSE [next EXCEPT ![x] = NULL, ![last] = x]
  /\ last' = x
  /\ first' = IF first = NULL THEN x ELSE first

\* Frees the head cell; last moves to the SECOND of the remaining cells.
queu_pop(x) ==
  /\ first = x
  /\ x # NULL
  /\ heap' = heap \ {x}
  /\ first' = next[x]
  /\ last' = IF next[x] = NULL THEN NULL ELSE next[next[x]]
  /\ UNCHANGED next

QNext == \E x \in Items : queu_push(x) \/ queu_pop(x)

QSpec == QInit /\ [][QNext]_qvars
-----------------------------------------------------------------------------
\* The requests that pops can still return, in the order they will.
Contents == Walk(first, next, heap)

\* The cells still allocated that no sequence of pops will return.
Forgotten == {x \in heap : x \notin Met(Contents)}

-----------------------------------------------------------------------------
\* server.c:29 and server.c:42 call a state with first NULL and last set
\* UNREACHABLE; last must also never be left pointing at a cell that a pop
\* freed, since the next push writes through it, and the head a pop reads and
\* frees must be a live cell: no use after free, no double free.
NoDangling ==
  /\ first = NULL => last = NULL
  /\ first # NULL => first \in heap
  /\ last # NULL => last \in heap

\* Requests leave in the order they came and never twice, and the head is
\* never dropped, whatever mix of pushes and pops the event loop performs: the
\* list implements the lossy queue of LossyFifo.
Fifo == INSTANCE LossyFifo WITH queue <- Contents

ImplementsLossyFifo == Fifo!Spec

=============================================================================
