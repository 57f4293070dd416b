-------------------------- MODULE RequestQueueProofs --------------------------
(***************************************************************************)
(* Whatever the number of requests and the order of pushes and pops, the   *)
(* list of server.c never dangles.  NoDangling is not inductive: that the  *)
(* new head, and the cell last moves to, are live depends on what the live *)
(* cells point at.  Linked says it: live cells point at live cells, at     *)
(* most one at each, and none at the head.  On top of it: the list is a    *)
(* lossy queue.                                                            *)
(***************************************************************************)
EXTENDS RequestQueue, DataProofs

Linked ==
  /\ \A x \in heap : next[x] \in heap \cup {NULL}
  /\ \A x, y \in heap : next[x] = next[y] /\ next[x] # NULL => x = y
  /\ \A x \in heap : next[x] = first => first = NULL

QInv == QTypeOK /\ NoDangling /\ Linked

\* The list is sound when the process starts.
LEMMA QInitInv == QInit => QInv
  BY NullAssumption DEF QInit, QInv, QTypeOK, NoDangling, Linked

\* A push links a new cell behind live ones only.
LEMMA PushInv ==
  ASSUME QInv, NEW x \in Items, queu_push(x)
  PROVE  QInv'
<1> USE NullAssumption DEF QInv, QTypeOK, NoDangling, Linked
<1>1. /\ x \notin heap
      /\ heap' = heap \cup {x}
      /\ last' = x
      /\ first' = IF first = NULL THEN x ELSE first
  BY DEF queu_push
<1>2. next' \in [Items -> Items \cup {NULL}]
  BY DEF queu_push
<1>3. QTypeOK' /\ NoDangling'
  BY <1>1, <1>2
<1>4. /\ next'[x] = NULL
      /\ last # NULL => next'[last] = x
      /\ \A y \in heap : y # last => next'[y] = next[y]
  BY <1>1 DEF queu_push
<1>5. \A y \in heap' : next'[y] \in heap' \cup {NULL}
  BY <1>1, <1>4
<1>6. \A y, z \in heap' : next'[y] = next'[z] /\ next'[y] # NULL => y = z
  BY <1>1, <1>4
<1>7. \A y \in heap' : next'[y] = first' => first' = NULL
  BY <1>1, <1>4
<1> QED BY <1>3, <1>5, <1>6, <1>7

\* A pop frees the head, which nothing points at, so what stays is live.
LEMMA PopInv ==
  ASSUME QInv, NEW x \in Items, queu_pop(x)
  PROVE  QInv'
<1> USE NullAssumption DEF QInv, QTypeOK, NoDangling, Linked
<1>1. /\ first = x /\ x # NULL /\ x \in heap
      /\ heap' = heap \ {x}
      /\ first' = next[x]
      /\ next' = next
      /\ next[x] = NULL => last' = NULL
      /\ next[x] # NULL => last' = next[next[x]]
  BY DEF queu_pop
<1>2. next[x] \in heap' \cup {NULL}
  BY <1>1
<1>3. next[x] # NULL => next[next[x]] \in heap' \cup {NULL}
  BY <1>1, <1>2
<1>4. QTypeOK' /\ NoDangling'
  BY <1>1, <1>2, <1>3
<1>5. Linked'
  BY <1>1
<1> QED BY <1>4, <1>5

\* The inductive invariant of the list.
THEOREM QueueInvariant == QSpec => []QInv
<1>1. QInit => QInv
  BY QInitInv
<1>2. QInv /\ [QNext]_qvars => QInv'
  <2> SUFFICES ASSUME QInv, [QNext]_qvars PROVE QInv'
    OBVIOUS
  <2>1. CASE QNext
    BY <2>1, PushInv, PopInv DEF QNext
  <2>2. CASE UNCHANGED qvars
    BY <2>2 DEF qvars, QInv, QTypeOK, NoDangling, Linked
  <2> QED BY <2>1, <2>2
<1> QED BY <1>1, <1>2, PTL DEF QSpec

\* The variables of the list keep their types.
THEOREM QueueTypes == QSpec => []QTypeOK
<1>1. QInv => QTypeOK
  BY DEF QInv
<1> QED BY <1>1, QueueInvariant, PTL

\* The assertion of server.c:29 and server.c:42 never fires from the event
\* loop, and neither the head nor the tail is ever a freed cell, for any number
\* of requests.
THEOREM QueueNeverDangles == QSpec => []NoDangling
<1>1. QInv => NoDangling
  BY DEF QInv
<1> QED BY <1>1, QueueInvariant, PTL
-----------------------------------------------------------------------------
(***************************************************************************)
(* The list is the lossy queue.  A push writes to the link of one cell and *)
(* a pop to none, so that a walk is cut behind one cell, or loses its head.*)
(***************************************************************************)
Walked(list) == WalkIn(first, next, heap, list)
FifoInv == QInv /\ IsFiniteSet(heap) /\ \E list : Walked(list)

LEMMA ListGoes ==
  ASSUME NEW list, Walked(list), NEW i, i \in 1 .. Len(list)
  PROVE  /\ list[i] \in heap
         /\ i = 1 => list[i] = first
         /\ i # 1 => i - 1 \in 1 .. Len(list) /\ list[i] = next[list[i - 1]]
<1>1. list \in Seq(heap) /\ i \in DOMAIN list /\ Len(list) \in Nat
  BY DEF Walked, WalkIn
<1>2. list[i] = IF i = 1 THEN first ELSE next[list[i - 1]]
  BY <1>1 DEF Walked, WalkIn, IsWalk
<1> QED BY <1>1, <1>2

\* Contents is the walk, of the list as it is and as a call leaves it.
ContentsWalked == \A list : IsFiniteSet(heap) /\ Walked(list) => Contents = list

LEMMA ContentsIs == ContentsWalked /\ ContentsWalked'
BY WalkIs DEF ContentsWalked, Contents, Walked

\* A push that finds the tail in the walk cuts the walk behind it.
LEMMA PushWalks ==
  ASSUME QInv, NEW list, Walked(list), NEW x \in Items, queu_push(x)
  PROVE  \/ /\ list # <<>> /\ Walked(list)'
         \/ \E n \in 0 .. Len(list) :
              /\ list # <<>> => n > 0
              /\ Walked(Append(SubSeq(list, 1, n), x))'
<1> USE NullAssumption
<1>1. /\ x \notin heap /\ heap' = heap \cup {x} /\ x # NULL
      /\ first' = IF first = NULL THEN x ELSE first
      /\ next'[x] = NULL
      /\ last # NULL => next'[last] = x
      /\ \A y \in heap : y # last => next'[y] = next[y]
      /\ NULL \notin heap'
  BY DEF queu_push, QInv, QTypeOK, NoDangling
<1>2. /\ first \in heap \cup {NULL} /\ (first = NULL => last = NULL)
      /\ \A y \in heap : next[y] \in heap \cup {NULL}
  BY DEF QInv, Linked, NoDangling
<1>3. /\ list \in Seq(heap) /\ Len(list) \in Nat
      /\ \A i, j \in 1 .. Len(list) : list[i] = list[j] => i = j
      /\ \A i \in 1 .. Len(list) : list[i] \in heap
  BY DEF Walked, WalkIn, IsWalk
<1>4. CASE list = <<>>
  <2>1. first = NULL
    <3>1. Met(list) = {} /\ Following(first, next, list) = first
      BY <1>4 DEF Met, Following
    <3>2. Following(first, next, list) \notin heap \ Met(list)
      BY DEF Walked, WalkIn, IsWalk
    <3> QED BY <1>2, <3>1, <3>2
  <2>2. PICK new : new = Append(SubSeq(list, 1, 0), x)
    OBVIOUS
  <2>3. new \in Seq(heap') /\ Len(new) = 1 /\ DOMAIN new = {1} /\ new[1] = x /\ new # <<>>
    <3>1. SubSeq(list, 1, 0) \in Seq(heap) /\ Len(SubSeq(list, 1, 0)) = 0
      BY <1>3
    <3> QED BY <1>1, <2>2, <3>1
  <2>4. Following(first, next, new)' = NULL
    BY <1>1, <2>3 DEF Following
  <2>5. Walked(new)'
    BY <1>1, <2>1, <2>3, <2>4 DEF Walked, WalkIn, IsWalk
  <2>6. 0 \in 0 .. Len(list) /\ (list # <<>> => 0 > 0)
    BY <1>3, <1>4
  <2> QED BY <2>2, <2>5, <2>6
<1>5. CASE list # <<>> /\ last \notin Met(list)
  <2>1. first # NULL
    BY <1>1, <1>3, <1>5, ListGoes DEF QInv, QTypeOK
  <2>2. \A i \in 1 .. Len(list) : next'[list[i]] = next[list[i]]
    BY <1>1, <1>3, <1>5 DEF Met
  <2>3. list \in Seq(heap')
    BY <1>1, <1>3
  <2>4. \A i \in DOMAIN list : list[i] = IF i = 1 THEN first' ELSE next'[list[i - 1]]
    BY <1>1, <1>3, <2>1, <2>2, ListGoes
  <2>5. Following(first, next, list)' = Following(first, next, list) /\ Following(first, next, list) # x
    BY <1>1, <1>2, <1>3, <1>5, <2>2 DEF Following
  <2>6. Following(first, next, list)' \notin heap' \ Met(list)'
    BY <1>1, <2>5 DEF Walked, WalkIn, IsWalk, Met
  <2> QED BY <1>3, <1>5, <2>3, <2>4, <2>6 DEF Walked, WalkIn, IsWalk
<1>6. CASE list # <<>> /\ last \in Met(list)
  <2>1. PICK n \in 1 .. Len(list) : last = list[n]
    BY <1>3, <1>6 DEF Met
  <2>2. PICK new : new = Append(SubSeq(list, 1, n), x)
    OBVIOUS
  <2>3. /\ n \in Nat /\ n > 0 /\ n \in 0 .. Len(list) /\ new \in Seq(heap') /\ Len(new) = n + 1
        /\ new[n + 1] = x
        /\ \A i \in 1 .. n : new[i] = list[i] /\ i \in 1 .. Len(list)
    <3>1. n \in Nat /\ n > 0 /\ n <= Len(list)
      BY <1>3, <2>1
    <3>2. /\ SubSeq(list, 1, n) \in Seq(heap) /\ Len(SubSeq(list, 1, n)) = n
          /\ \A i \in 1 .. n : SubSeq(list, 1, n)[i] = list[i]
      BY <1>3, <3>1
    <3> QED BY <1>1, <1>3, <2>2, <3>1, <3>2
  <2>4. first # NULL /\ last # NULL
    BY <1>1, <1>3, <1>6, <2>1, ListGoes
  <2>5. \A i \in 1 .. n + 1 : new[i] = IF i = 1 THEN first' ELSE next'[new[i - 1]]
    <3>1. ASSUME NEW i \in 1 .. n PROVE new[i] = IF i = 1 THEN first' ELSE next'[new[i - 1]]
      <4>1. CASE i = 1
        BY <1>1, <2>3, <2>4, <4>1, ListGoes
      <4>2. CASE i # 1
        <5>1. i - 1 \in 1 .. n /\ i - 1 # n
          BY <2>3, <4>2
        <5>2. list[i] = next[list[i - 1]] /\ list[i - 1] # last /\ list[i - 1] \in heap
          BY <1>3, <2>1, <2>3, <4>2, <5>1, ListGoes
        <5> QED BY <1>1, <2>3, <4>2, <5>1, <5>2
      <4> QED BY <4>1, <4>2
    <3>2. new[n + 1] = next'[new[n]] /\ n + 1 # 1 /\ n + 1 - 1 = n
      BY <1>1, <2>1, <2>3, <2>4
    <3>3. \A i \in 1 .. n + 1 : i \in 1 .. n \/ i = n + 1
      BY <2>3
    <3> QED BY <3>1, <3>2, <3>3
  <2>6. \A i, j \in 1 .. n + 1 : new[i] = new[j] => i = j
    <3>1. \A i \in 1 .. n + 1 : i \in 1 .. n \/ i = n + 1
      BY <2>3
    <3>2. \A i \in 1 .. n : new[i] # x
      BY <1>1, <1>3, <2>3
    <3> QED BY <1>3, <2>3, <3>1, <3>2
  <2>7. Following(first, next, new)' = NULL
    BY <1>1, <2>3 DEF Following
  <2>8. DOMAIN new = 1 .. n + 1
    BY <2>3
  <2>9. Walked(new)'
    BY <1>1, <2>3, <2>5, <2>6, <2>7, <2>8 DEF Walked, WalkIn, IsWalk
  <2> QED BY <2>2, <2>3, <2>9
<1> QED BY <1>4, <1>5, <1>6

\* A pop takes the head.
LEMMA PopWalks ==
  ASSUME QInv, NEW list, Walked(list), NEW x \in Items, queu_pop(x)
  PROVE  list # <<>> /\ Walked(Tail(list))'
<1>1. first = x /\ x \in heap /\ heap' = heap \ {x} /\ first' = next[x] /\ next' = next
  BY DEF queu_pop, QInv, NoDangling
<1>2. list # <<>>
  BY <1>1 DEF Walked, WalkIn, IsWalk, Following, Met
<1>3. PICK n, tail : n = Len(list) /\ tail = Tail(list)
  OBVIOUS
<1>4. /\ list \in Seq(heap) /\ n \in Nat \ {0} /\ DOMAIN list = 1 .. n
      /\ \A i, j \in 1 .. n : list[i] = list[j] => i = j
  BY <1>2, <1>3 DEF Walked, WalkIn, IsWalk
<1>5. list[1] = x
  BY <1>1, <1>3, <1>4, ListGoes
<1>6. /\ tail \in Seq(heap) /\ Len(tail) = n - 1 /\ DOMAIN tail = 1 .. n - 1
      /\ \A i \in 1 .. n - 1 : tail[i] = list[i + 1] /\ i + 1 \in 1 .. n /\ i + 1 # 1
  BY <1>2, <1>3, <1>4
<1>7. tail \in Seq(heap')
  <2>1. \A i \in 1 .. n - 1 : tail[i] \in heap'
    BY <1>1, <1>4, <1>5, <1>6
  <2> QED BY <1>6, <2>1
<1>8. \A i \in DOMAIN tail : tail[i] = IF i = 1 THEN first' ELSE next'[tail[i - 1]]
  <2>1. ASSUME NEW i \in 1 .. n - 1 PROVE tail[i] = IF i = 1 THEN first' ELSE next'[tail[i - 1]]
    <3>1. tail[i] = next[list[i]]
      BY <1>3, <1>6, ListGoes
    <3>2. i # 1 => i - 1 \in 1 .. n - 1 /\ tail[i - 1] = list[i]
      BY <1>4, <1>6
    <3> QED BY <1>1, <1>5, <3>1, <3>2
  <2> QED BY <1>6, <2>1
<1>9. \A i, j \in DOMAIN tail : tail[i] = tail[j] => i = j
  BY <1>4, <1>6
<1>10. Following(first, next, tail)' = Following(first, next, list)
  <2>1. Following(first, next, list) = next[list[n]]
    BY <1>2, <1>3 DEF Following
  <2>2. CASE n = 1
    <3>1. tail = <<>>
      BY <1>6, <2>2
    <3> QED BY <1>1, <1>5, <2>1, <2>2, <3>1 DEF Following
  <2>3. CASE n # 1
    <3>1. tail # <<>> /\ tail[n - 1] = list[n]
      BY <1>4, <1>6, <2>3
    <3> QED BY <1>1, <1>6, <2>1, <3>1 DEF Following
  <2> QED BY <2>2, <2>3
<1>11. Met(list) = Met(tail) \cup {x}
  <2>1. \A i \in 1 .. n : i = 1 \/ (i - 1 \in 1 .. n - 1 /\ list[i] = tail[i - 1])
    BY <1>4, <1>6
  <2>2. Met(tail) \subseteq Met(list) /\ x \in Met(list)
    BY <1>4, <1>5, <1>6 DEF Met
  <2>3. Met(list) \subseteq Met(tail) \cup {x}
    <3>1. \A i \in 1 .. n - 1 : tail[i] \in Met(tail)
      BY <1>6 DEF Met
    <3>2. \A i \in 1 .. n : list[i] \in Met(tail) \cup {x}
      BY <1>5, <2>1, <3>1
    <3> QED BY <1>4, <3>2 DEF Met
  <2> QED BY <2>2, <2>3
<1>12. Following(first, next, tail)' \notin heap' \ Met(tail)
  BY <1>1, <1>10, <1>11 DEF Walked, WalkIn, IsWalk
<1>13. Walked(tail)'
  BY <1>7, <1>8, <1>9, <1>12 DEF Walked, WalkIn, IsWalk, Met
<1> QED BY <1>2, <1>3, <1>13

\* Every call is one of the lossy queue, and leaves it walked.
LEMMA InitFifo == QInit => FifoInv /\ Fifo!Init
<1> SUFFICES ASSUME QInit PROVE FifoInv /\ Fifo!Init
  OBVIOUS
<1>1. heap = {} /\ first = NULL
  BY DEF QInit
<1>2. IsFiniteSet(heap)
  BY <1>1, FS_EmptySet
<1>3. Walked(<<>>)
  <2>1. <<>> \in Seq(heap) /\ DOMAIN <<>> = {}
    OBVIOUS
  <2> QED BY <1>1, <2>1 DEF Walked, WalkIn, IsWalk
<1>4. Contents = <<>>
  BY <1>2, <1>3, ContentsIs DEF ContentsWalked
<1> QED BY <1>2, <1>3, <1>4, QInitInv DEF FifoInv, Fifo!Init

LEMMA PushFifo ==
  ASSUME FifoInv, NEW x \in Items, queu_push(x)
  PROVE  FifoInv' /\ Fifo!Push(x)
<1>1. PICK list : Walked(list)
  BY DEF FifoInv
<1>2. QInv' /\ IsFiniteSet(heap)'
  BY PushInv, FS_AddElement DEF FifoInv, queu_push
<1>3. Contents = list
  BY <1>1, ContentsIs DEF FifoInv, ContentsWalked
<1>4. x \notin Fifo!ToSet(Contents)
  <2>1. list \in Seq(heap) /\ x \notin heap
    BY <1>1 DEF Walked, WalkIn, queu_push
  <2> QED BY <1>3, <2>1 DEF Fifo!ToSet
<1>5. CASE list # <<>> /\ Walked(list)'
  <2>1. Contents' = list
    BY <1>2, <1>5, ContentsIs DEF ContentsWalked
  <2> QED BY <1>2, <1>3, <1>4, <1>5, <2>1 DEF FifoInv, Fifo!Push
<1>6. ASSUME NEW n \in 0 .. Len(list), list # <<>> => n > 0, Walked(Append(SubSeq(list, 1, n), x))'
      PROVE  FifoInv' /\ Fifo!Push(x)
  <2>1. Contents' = Append(SubSeq(list, 1, n), x)
    BY <1>2, <1>6, ContentsIs DEF ContentsWalked
  <2> QED BY <1>2, <1>3, <1>4, <1>6, <2>1 DEF FifoInv, Fifo!Push, Fifo!PushAfter
<1> QED BY <1>1, <1>5, <1>6, PushWalks DEF FifoInv

LEMMA PopFifo ==
  ASSUME FifoInv, NEW x \in Items, queu_pop(x)
  PROVE  FifoInv' /\ Fifo!Pop
<1>1. PICK list : Walked(list)
  BY DEF FifoInv
<1>2. QInv' /\ IsFiniteSet(heap)'
  BY PopInv, FS_RemoveElement DEF FifoInv, queu_pop
<1>3. list # <<>> /\ Walked(Tail(list))'
  BY <1>1, PopWalks DEF FifoInv
<1>4. Contents = list /\ Contents' = Tail(list)
  BY <1>1, <1>2, <1>3, ContentsIs DEF FifoInv, ContentsWalked
<1> QED BY <1>2, <1>3, <1>4 DEF FifoInv, Fifo!Pop

LEMMA NextFifo == FifoInv /\ [QNext]_qvars => FifoInv' /\ [Fifo!Next]_Contents
<1> SUFFICES ASSUME FifoInv, [QNext]_qvars PROVE FifoInv' /\ [Fifo!Next]_Contents
  OBVIOUS
<1>1. ASSUME NEW x \in Items, queu_push(x) PROVE FifoInv' /\ Fifo!Next
  BY <1>1, PushFifo DEF Fifo!Next
<1>2. ASSUME NEW x \in Items, queu_pop(x) PROVE FifoInv' /\ Fifo!Next
  BY <1>2, PopFifo DEF Fifo!Next
<1>3. CASE UNCHANGED qvars
  BY <1>3 DEF qvars, FifoInv, QInv, QTypeOK, NoDangling, Linked, Walked, Contents
<1> QED BY <1>1, <1>2, <1>3 DEF QNext

\* Requests leave in the order they came, none twice, and the head is never
\* given up, for any number of requests and any mix of pushes and pops.
THEOREM ListIsLossyFifo == QSpec => ImplementsLossyFifo
BY InitFifo, NextFifo, PTL DEF QSpec, ImplementsLossyFifo, Fifo!Spec
=============================================================================
