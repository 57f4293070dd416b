------------------------------ MODULE JsonLists ------------------------------
(***************************************************************************)
(* What the editing functions of cJSON promise: the children of an array   *)
(* or an object are a sequence, and an item is in one of them, or in the   *)
(* hands of the caller, or nowhere.                                        *)
(***************************************************************************)
EXTENDS Naturals, Sequences, SequencesExt, FiniteSets

CONSTANTS Arrays, Items

VARIABLES
  lists,   \* the children of each array
  held     \* the items the caller has to put somewhere or to delete

Init == lists = [a \in Arrays |-> <<>>] /\ held = {}

Listed == UNION {ToSet(lists[a]) : a \in Arrays}
Becomes(a, s) == lists' = [lists EXCEPT ![a] = s]

Create(i) == i \notin Listed \cup held /\ held' = held \cup {i} /\ UNCHANGED lists
Delete(i) == i \in held /\ held' = held \ {i} /\ UNCHANGED lists
Take(i) == i \in held /\ held' = held \ {i}

\* At position k, the items from there on shifted to the right.
Insert(a, k, i) == Take(i) /\ Becomes(a, InsertAt(lists[a], k, i))
\* An item the call allocates.
Add(a, i) == i \notin Listed \cup held /\ Becomes(a, Append(lists[a], i)) /\ UNCHANGED held
Replace(a, k, i) == Take(i) /\ Becomes(a, [lists[a] EXCEPT ![k] = i])
Detach(a, k) == held' = held \cup {lists[a][k]} /\ Becomes(a, RemoveAt(lists[a], k))
Drop(a, k) == Becomes(a, RemoveAt(lists[a], k)) /\ UNCHANGED held
Fill(a, s) ==
  /\ lists[a] = <<>> /\ IsInjective(s) /\ ToSet(s) \cap (Listed \cup held) = {}
  /\ Becomes(a, s) /\ UNCHANGED held

Next ==
  \/ \E i \in Items : Create(i) \/ Delete(i)
  \/ \E a \in Arrays, i \in Items :
       Add(a, i) \/ \E k \in 1 .. Len(lists[a]) + 1 : Insert(a, k, i)
  \/ \E a \in Arrays : \E k \in DOMAIN lists[a] :
       Detach(a, k) \/ Drop(a, k) \/ \E i \in Items : Replace(a, k, i)
  \/ \E a \in Arrays : Fill(a, lists'[a])

Spec == Init /\ [][Next]_<<lists, held>>
=============================================================================
