--------------------------- MODULE CJsonListProofs ---------------------------
(***************************************************************************)
(* The links and the memory of cJSON's lists, for any number of arrays and *)
(* items: every edit keeps LinksOK, frees each item and string once, and   *)
(* does to the lists what it would do to sequences.                        *)
(* Each of the four operators that write links has a lemma; the actions    *)
(* are those operators with strings and memory, which the first invariant  *)
(* does not mention and the second is about.                               *)
(***************************************************************************)
EXTENDS CJsonList, DataProofs

ListType ==
  /\ child \in [Arrays -> Items \cup {NULL}]
  /\ next \in [Items -> Items \cup {NULL}]
  /\ prev \in [Items -> Items \cup {NULL}]
  /\ owner \in [Items -> Arrays \cup {Caller, Nobody}]
  /\ pos \in [Items -> Nat]

IInv == ListType /\ LinksOK

\* Appending to a list keeps the links of every list.
LEMMA AppendKeepsLinks ==
  ASSUME IInv, NEW a \in Arrays, NEW i \in Items, owner[i] \notin Arrays,
         add_item_to_array(a, i), Enters(i, a, End(a))
  PROVE  IInv'
<1> USE ListAssumption DEF IInv, ListType, In
<1>1. /\ next[i] = NULL /\ prev[i] = NULL
      /\ i # child[a]
      /\ \A j \in Items : i # next[j] /\ i # prev[j]
      /\ \A b \in Arrays : i # child[b]
  BY DEF LinksOK, Loose, LastIsKnown, Mirrored, InOneRow
<1>2. ListType'
  BY <1>1 DEF add_item_to_array, Enters, End, LinksOK, LastIsKnown, InOneRow
<1>3. Loose'
  BY <1>1 DEF add_item_to_array, Enters, End, LinksOK, LastIsKnown, Loose
<1>4. ASSUME NEW b \in Arrays PROVE LastIsKnown(b)' /\ Mirrored(b)' /\ InOneRow(b)'
  <2>1. CASE b # a
    BY <1>1, <1>4, <2>1 DEF add_item_to_array, Enters, End, LinksOK, LastIsKnown, Mirrored, InOneRow
  <2>2. CASE b = a /\ child[a] = NULL
    BY <1>1, <1>4, <2>2 DEF add_item_to_array, Enters, End, LinksOK, LastIsKnown, Mirrored, InOneRow
  <2>3. CASE b = a /\ child[a] # NULL
    BY <1>1, <1>4, <2>3 DEF add_item_to_array, Enters, End, LinksOK, LastIsKnown, Mirrored, InOneRow
  <2> QED BY <2>1, <2>2, <2>3
<1> QED BY <1>2, <1>3, <1>4 DEF LinksOK

\* So does taking an item out of a list.
LEMMA DetachKeepsLinks ==
  ASSUME IInv, NEW a \in Arrays, NEW i \in In(a), NEW to \in {Caller, Nobody},
         DetachItemViaPointer(a, i), Leaves(i, a, to)
  PROVE  IInv'
<1> USE ListAssumption DEF IInv, ListType, In
<1>1. ListType'
  BY DEF DetachItemViaPointer, Leaves
<1>2. Loose'
  BY DEF DetachItemViaPointer, Leaves, LinksOK, Loose, LastIsKnown, Mirrored, InOneRow
<1>3. ASSUME NEW b \in Arrays PROVE LastIsKnown(b)' /\ Mirrored(b)' /\ InOneRow(b)'
  <2>1. CASE b # a
    BY <1>3, <2>1 DEF DetachItemViaPointer, Leaves, LinksOK, LastIsKnown, Mirrored, InOneRow
  <2>2. CASE b = a /\ i = child[a] /\ next[i] = NULL
    BY <1>3, <2>2 DEF DetachItemViaPointer, Leaves, LinksOK, LastIsKnown, Mirrored, InOneRow
  <2>3. CASE b = a /\ i = child[a] /\ next[i] # NULL
    BY <1>3, <2>3 DEF DetachItemViaPointer, Leaves, LinksOK, LastIsKnown, Mirrored, InOneRow
  <2>4. CASE b = a /\ i # child[a] /\ next[i] = NULL
    BY <1>3, <2>4 DEF DetachItemViaPointer, Leaves, LinksOK, LastIsKnown, Mirrored, InOneRow
  <2>5. CASE b = a /\ i # child[a] /\ next[i] # NULL
    BY <1>3, <2>5 DEF DetachItemViaPointer, Leaves, LinksOK, LastIsKnown, Mirrored, InOneRow
  <2> QED BY <2>1, <2>2, <2>3, <2>4, <2>5
<1> QED BY <1>1, <1>2, <1>3 DEF LinksOK

\* So does putting an item before another.
LEMMA InsertKeepsLinks ==
  ASSUME IInv, NEW a \in Arrays, NEW t \in In(a), NEW i \in Items, owner[i] \notin Arrays,
         insert_before(a, t, i), Enters(i, a, pos[t])
  PROVE  IInv'
<1> USE ListAssumption DEF IInv, ListType, In
<1>1. /\ next[i] = NULL /\ prev[i] = NULL /\ i # t
      /\ \A j \in Items : i # next[j] /\ i # prev[j]
      /\ \A b \in Arrays : i # child[b]
  BY DEF LinksOK, Loose, LastIsKnown, Mirrored, InOneRow
<1>2. ListType'
  BY DEF insert_before, Enters
<1>3. Loose'
  BY <1>1 DEF insert_before, Enters, LinksOK, Loose, LastIsKnown, Mirrored, InOneRow
<1>4. ASSUME NEW b \in Arrays PROVE LastIsKnown(b)' /\ Mirrored(b)' /\ InOneRow(b)'
  <2>1. CASE b # a
    BY <1>1, <1>4, <2>1 DEF insert_before, Enters, LinksOK, LastIsKnown, Mirrored, InOneRow
  <2>2. CASE b = a /\ t = child[a]
    BY <1>1, <1>4, <2>2 DEF insert_before, Enters, LinksOK, LastIsKnown, Mirrored, InOneRow
  <2>3. CASE b = a /\ t # child[a]
    BY <1>1, <1>4, <2>3 DEF insert_before, Enters, LinksOK, LastIsKnown, Mirrored, InOneRow
  <2> QED BY <2>1, <2>2, <2>3
<1> QED BY <1>2, <1>3, <1>4 DEF LinksOK

\* So does putting an item in the place of another.
LEMMA ReplaceKeepsLinks ==
  ASSUME IInv, NEW a \in Arrays, NEW i \in In(a), NEW r \in Items, ReplaceItemViaPointer(a, i, r)
  PROVE  IInv'
<1> USE ListAssumption DEF IInv, ListType, In
<1>1. /\ next[r] = NULL /\ prev[r] = NULL /\ r # i /\ owner[r] = Caller
      /\ \A j \in Items : r # next[j] /\ r # prev[j]
      /\ \A b \in Arrays : r # child[b]
  BY DEF ReplaceItemViaPointer, Held, LinksOK, Loose, LastIsKnown, Mirrored, InOneRow
<1>2. ListType'
  BY DEF ReplaceItemViaPointer, replace
<1>3. Loose'
  BY <1>1 DEF ReplaceItemViaPointer, replace, LinksOK, Loose, LastIsKnown, Mirrored, InOneRow
<1>4. ASSUME NEW b \in Arrays PROVE LastIsKnown(b)' /\ Mirrored(b)' /\ InOneRow(b)'
  <2>1. CASE b # a
    BY <1>1, <1>4, <2>1 DEF ReplaceItemViaPointer, replace, LinksOK, LastIsKnown, Mirrored, InOneRow
  <2>2. CASE b = a /\ i = child[a] /\ next[i] = NULL
    BY <1>1, <1>4, <2>2 DEF ReplaceItemViaPointer, replace, LinksOK, LastIsKnown, Mirrored, InOneRow
  <2>3. CASE b = a /\ i = child[a] /\ next[i] # NULL
    BY <1>1, <1>4, <2>3 DEF ReplaceItemViaPointer, replace, LinksOK, LastIsKnown, Mirrored, InOneRow
  <2>4. CASE b = a /\ i # child[a] /\ next[i] = NULL
    BY <1>1, <1>4, <2>4 DEF ReplaceItemViaPointer, replace, LinksOK, LastIsKnown, Mirrored, InOneRow
  <2>5. CASE b = a /\ i # child[a] /\ next[i] # NULL
    BY <1>1, <1>4, <2>5 DEF ReplaceItemViaPointer, replace, LinksOK, LastIsKnown, Mirrored, InOneRow
  <2> QED BY <2>1, <2>2, <2>3, <2>4, <2>5
<1> QED BY <1>2, <1>3, <1>4 DEF LinksOK

\* So does making a whole list at once: s[k] is written at place k.
LEMMA CreateKeepsLinks ==
  ASSUME IInv, NEW a \in Arrays, NEW n \in Nat \ {0}, NEW s \in [1 .. n -> Items],
         NEW kind, IsInjective(s), CreateArray(a, s, kind)
  PROVE  IInv'
<1> USE ListAssumption DEF IInv, ListType, In
<1> DEFINE Made == {s[k] : k \in 1 .. n}
           At(i) == CHOOSE k \in 1 .. n : s[k] = i
<1>1. Len(s) = n /\ ToSet(s) = Made
  BY DEF ToSet
<1>2. /\ \A i \in Made : At(i) \in 1 .. n /\ s[At(i)] = i
      /\ \A k \in 1 .. n : s[k] \in Made /\ At(s[k]) = k
  <2>1. \A j, k \in 1 .. n : s[j] = s[k] => j = k
    BY DEF IsInjective
  <2> QED BY <2>1
<1> HIDE DEF At
<1>3. /\ child[a] = NULL /\ \A i \in Items : owner[i] # a
      /\ \A i \in Made : i \in Items /\ owner[i] \notin Arrays
      /\ child' = [child EXCEPT ![a] = s[1]]
      /\ next' = [i \in Items |-> IF i \notin Made THEN next[i]
                                  ELSE IF At(i) = n THEN NULL ELSE s[At(i) + 1]]
      /\ prev' = [i \in Items |-> IF i \notin Made THEN prev[i]
                                  ELSE IF At(i) = 1 THEN s[n] ELSE s[At(i) - 1]]
      /\ owner' = [i \in Items |-> IF i \in Made THEN a ELSE owner[i]]
      /\ pos' = [i \in Items |-> IF i \in Made THEN At(i) ELSE pos[i]]
  BY <1>1 DEF CreateArray, Free, At
<1> HIDE DEF Made
<1>4. ListType'
  BY <1>2, <1>3
<1>5. Loose'
  BY <1>3 DEF LinksOK, Loose
<1>6. ASSUME NEW b \in Arrays PROVE LastIsKnown(b)' /\ Mirrored(b)' /\ InOneRow(b)'
  <2>1. CASE b # a
    <3>1. \A i \in Items : owner'[i] = b <=> owner[i] = b
      BY <1>3, <1>6, <2>1
    <3>2. \A i \in Items : owner[i] = b => i \notin Made
      BY <1>3, <1>6
    <3>3. child'[b] = child[b]
      BY <1>3, <2>1
    <3> QED BY <1>3, <1>6, <3>1, <3>2, <3>3 DEF LinksOK, LastIsKnown, Mirrored, InOneRow
  <2>2. CASE b = a
    <3>1. /\ \A i \in Items : owner'[i] = a <=> i \in Made
          /\ child'[a] = s[1] /\ s[1] \in Made /\ s[1] # NULL
          /\ prev'[s[1]] = s[n] /\ s[n] \in Made /\ At(s[n]) = n /\ At(s[1]) = 1
      BY <1>2, <1>3
    <3>2. LastIsKnown(b)'
      BY <1>2, <1>3, <2>2, <3>1 DEF LastIsKnown
    <3>3. ASSUME NEW i \in Made
          PROVE  /\ At(i) # 1 => prev'[i] = s[At(i) - 1] /\ prev'[i] \in Made /\ At(prev'[i]) = At(i) - 1
                 /\ At(i) # n => next'[i] = s[At(i) + 1] /\ next'[i] \in Made /\ At(next'[i]) = At(i) + 1
                 /\ At(i) = n => next'[i] = NULL
                 /\ At(i) \in 1 .. n /\ s[At(i)] = i
      BY <1>2, <1>3, <3>3
    <3>4. Mirrored(b)'
      BY <1>2, <1>3, <2>2, <3>1, <3>3 DEF Mirrored
    <3>5. InOneRow(b)'
      BY <1>2, <1>3, <2>2, <3>1, <3>3 DEF InOneRow
    <3> QED BY <3>2, <3>4, <3>5
  <2> QED BY <2>1, <2>2
<1> QED BY <1>4, <1>5, <1>6 DEF LinksOK

\* An item that passes between the caller and nobody is in no list.
LEMMA OutsideKeepsLinks ==
  ASSUME IInv, UNCHANGED <<links, pos>>, NEW i \in Items, owner[i] \notin Arrays,
         NEW to \in {Caller, Nobody}, owner' = [owner EXCEPT ![i] = to]
  PROVE  IInv'
<1> USE ListAssumption DEF IInv, ListType, In, links
<1>1. ListType' /\ Loose'
  BY DEF LinksOK, Loose
<1>2. \A b \in Arrays : In(b)' = In(b)
  OBVIOUS
<1>3. ASSUME NEW b \in Arrays PROVE LastIsKnown(b)' /\ Mirrored(b)' /\ InOneRow(b)'
  BY <1>2, <1>3 DEF LinksOK, LastIsKnown, Mirrored, InOneRow
<1> QED BY <1>1, <1>3 DEF LinksOK

\* What leaves the links alone keeps them.
LEMMA SameLinks ==
  ASSUME IInv, UNCHANGED <<links, history>>
  PROVE  IInv'
BY DEF IInv, ListType, links, history, LinksOK, Loose, LastIsKnown, Mirrored, InOneRow, In

LEMMA InitLinks == Init => IInv
BY ListAssumption DEF Init, IInv, ListType, LinksOK, Loose, LastIsKnown, Mirrored, InOneRow, In

\* An item of no list is free or held.
LEMMA Outside ==
  ASSUME IInv, NEW i \in Items, Free(i) \/ i \in Held
  PROVE  owner[i] \notin Arrays
BY ListAssumption DEF Free, Held, In

LEMMA RemoveKeepsLinks ==
  ASSUME IInv, NEW a \in Arrays, NEW i \in In(a), RemoveItem(a, i)
  PROVE  IInv'
BY DetachKeepsLinks DEF RemoveItem, DetachItem, DeleteItem

LEMMA InsertActionKeepsLinks ==
  ASSUME IInv, NEW a \in Arrays, NEW which, NEW i \in Items, InsertItemInArray(a, which, i)
  PROVE  IInv'
<1> DEFINE t == get_array_item(a, which)
<1> HIDE DEF t
<1>1. owner[i] \notin Arrays
  BY Outside DEF InsertItemInArray
<1>2. CASE t \notin In(a)
  BY <1>1, <1>2, AppendKeepsLinks DEF InsertItemInArray, t
<1>3. CASE t \in In(a)
  BY <1>1, <1>3, InsertKeepsLinks DEF InsertItemInArray, t
<1> QED BY <1>2, <1>3

LEMMA ReplaceObjectKeepsLinks ==
  ASSUME IInv, NEW a \in Arrays, NEW name, NEW r \in Items, NEW case_sensitive,
         ReplaceItemInObject(a, name, r, case_sensitive)
  PROVE  IInv'
<1> DEFINE i == get_object_item(a, name, case_sensitive)
<1> HIDE DEF i
<1>1. \/ UNCHANGED <<links, history>>
      \/ i \in In(a) /\ ReplaceItemViaPointer(a, i, r)
  BY DEF ReplaceItemInObject, i
<1> QED BY <1>1, SameLinks, ReplaceKeepsLinks

LEMMA NextKeepsLinks == IInv /\ [Next]_vars => IInv'
<1> SUFFICES ASSUME IInv, [Next]_vars PROVE IInv'
  OBVIOUS
<1>1. CASE \E i \in Items : Delete(i) \/ \E kind \in Kinds : Create(i, kind)
  BY <1>1, Outside, OutsideKeepsLinks DEF Delete, Create, Moves
<1>2. CASE \E a \in Arrays, n \in 1 .. Cardinality(Items) :
             \E s \in [1 .. n -> Items], kind \in {"none", "own"} : IsInjective(s) /\ CreateArray(a, s, kind)
  <2>1. PICK a \in Arrays, n \in 1 .. Cardinality(Items) :
          \E s \in [1 .. n -> Items], kind \in {"none", "own"} : IsInjective(s) /\ CreateArray(a, s, kind)
    BY <1>2
  <2>2. PICK s \in [1 .. n -> Items], kind \in {"none", "own"} : IsInjective(s) /\ CreateArray(a, s, kind)
    BY <2>1
  <2>3. n \in Nat \ {0}
    BY <2>1
  <2> QED BY <2>2, <2>3, CreateKeepsLinks
<1>3. CASE \E a \in Arrays, i \in Items, name \in Names :
             \/ \E const \in BOOLEAN : AddItemToObject(a, name, i, const)
             \/ \E kind \in {"none", "own"} : AddNewToObject(a, name, i, kind)
             \/ \E case_sensitive \in BOOLEAN : ReplaceItemInObject(a, name, i, case_sensitive)
  <2> SUFFICES ASSUME NEW a \in Arrays, NEW i \in Items, NEW name \in Names,
                      NEW const \in BOOLEAN, NEW kind \in {"none", "own"}, NEW case_sensitive \in BOOLEAN,
                      \/ AddItemToObject(a, name, i, const)
                      \/ AddNewToObject(a, name, i, kind)
                      \/ ReplaceItemInObject(a, name, i, case_sensitive)
               PROVE  IInv'
    BY <1>3
  <2>1. CASE AddItemToObject(a, name, i, const)
    BY <2>1, Outside, AppendKeepsLinks DEF AddItemToObject
  <2>2. CASE AddNewToObject(a, name, i, kind)
    BY <2>2, Outside, AppendKeepsLinks DEF AddNewToObject
  <2>3. CASE ReplaceItemInObject(a, name, i, case_sensitive)
    BY <2>3, ReplaceObjectKeepsLinks
  <2> QED BY <2>1, <2>2, <2>3
<1>4. CASE \E a \in Arrays, i \in Items : AddItemToArray(a, i) \/ (i \in In(a) /\ RemoveItem(a, i))
  BY <1>4, Outside, AppendKeepsLinks, RemoveKeepsLinks DEF AddItemToArray
<1>5. CASE \E a \in Arrays, which \in 0 .. Cardinality(Items), i \in Items :
             InsertItemInArray(a, which, i) \/ ReplaceItemInArray(a, which, i)
  BY <1>5, InsertActionKeepsLinks, ReplaceKeepsLinks DEF ReplaceItemInArray
<1>6. CASE \E a \in Arrays, which \in 0 .. Cardinality(Items) : DetachItemFromArray(a, which)
  BY <1>6, RemoveKeepsLinks DEF DetachItemFromArray
<1>7. CASE \E a \in Arrays, name \in Names, case_sensitive \in BOOLEAN :
             DetachItemFromObject(a, name, case_sensitive)
  BY <1>7, RemoveKeepsLinks DEF DetachItemFromObject
<1>8. ASSUME NEW reference \in Items, NEW i \in Items,
             \/ LoseReference(reference, i)
             \/ \E a \in Arrays :
                  \/ AddItemReferenceToArray(a, reference, i)
                  \/ \E name \in Names : AddItemReferenceToObject(a, name, reference, i)
      PROVE  IInv'
  <2>1. owner[reference] \notin Arrays
    BY <1>8, Outside DEF LoseReference, AddItemReferenceToArray, AddItemReferenceToObject,
                         create_reference, Shares
  <2> QED
    BY <1>8, <2>1, AppendKeepsLinks, SameLinks
    DEF LoseReference, AddItemReferenceToArray, AddItemReferenceToObject
<1>9. CASE UNCHANGED vars
  BY <1>9, SameLinks DEF vars, links, history
<1> QED BY <1>1, <1>2, <1>3, <1>4, <1>5, <1>6, <1>7, <1>8, <1>9 DEF Next

\* Whatever the order of appends, inserts, replacements and removals, the links
\* of every list mirror each other, the first item knows the last, next goes
\* through the whole list in order, and what is in no list has no links.
THEOREM LinksAlwaysOK == Spec => []LinksOK
<1>1. IInv => LinksOK
  BY DEF IInv
<1> QED BY <1>1, InitLinks, NextKeepsLinks, PTL DEF Spec
-----------------------------------------------------------------------------
(***************************************************************************)
(* The memory: the strings that are allocated are those that the items of  *)
(* the heap own.  OneItem says what an edit of one item does to the total; *)
(* a replacement edits two, and an array is made of many.                  *)
(***************************************************************************)
\* The strings that the items own, counted item by item.
OwnedBy == [i \in Items |-> Owned(i)]
Total == SumOver(OwnedBy, heap)

MemType ==
  /\ heap \in SUBSET Items /\ IsFiniteSet(heap)
  /\ string \in [Items -> Names \cup {NULL}]
  /\ constant \in [Items -> BOOLEAN]
  /\ value \in [Items -> Kinds]
Allocated ==
  \A i \in Items :
    /\ owner[i] # Nobody => i \in heap
    /\ i \in heap /\ owner[i] = Nobody => value[i] # "own"
Mem == MemType /\ Allocated /\ strings = Total

\* What an item of the heap counts for.
Counts(i) == IF i \in heap THEN Owned(i) ELSE 0

LEMMA OwnedInt == ASSUME NEW i PROVE Owned(i) \in 0 .. 2 /\ Counts(i) \in 0 .. 2
BY DEF Owned, Counts

LEMMA TotalInt == ASSUME MemType PROVE Total \in Int
<1>1. \A i \in heap : OwnedBy[i] \in Int
  BY OwnedInt DEF MemType, OwnedBy
<1> PICK f, S : f = OwnedBy /\ S = heap
  OBVIOUS
<1> QED BY <1>1, SumInt DEF MemType, Total

\* The total when one item has come, gone or changed.
LEMMA OneItem ==
  ASSUME MemType, NEW x \in Items, heap' \ {x} = heap \ {x},
         \A i \in Items : i # x => string'[i] = string[i] /\ constant'[i] = constant[i] /\ value'[i] = value[i]
  PROVE  IsFiniteSet(heap') /\ Total' = Total - Counts(x) + Counts(x)'
<1> PICK f, g, S, R : f = OwnedBy /\ g = OwnedBy' /\ S = heap /\ R = heap'
  OBVIOUS
<1>1. /\ \A y \in S : f[y] \in Int
      /\ \A y \in R : g[y] \in Int
      /\ \A y \in S \ {x} : f[y] = g[y]
  <2>1. S \subseteq Items /\ R \subseteq Items
    BY DEF MemType
  <2>2. \A i \in Items : f[i] = Owned(i) /\ g[i] = Owned(i)'
    BY DEF OwnedBy
  <2>3. \A i \in Items : i # x => Owned(i)' = Owned(i)
    BY DEF Owned
  <2>4. \A i : Owned(i) \in Int /\ Owned(i)' \in Int
    BY DEF Owned
  <2> QED BY <2>1, <2>2, <2>3, <2>4
<1>2. IsFiniteSet(S) /\ R \ {x} = S \ {x}
  BY DEF MemType
<1>4. SumOver(g, R) = SumOver(f, S) - Part(f, S, x) + Part(g, R, x)
  BY <1>1, <1>2, SumChange
<1>5. IsFiniteSet(R)
  BY <1>2, FiniteChange
<1>3. Part(f, S, x) = Counts(x) /\ Part(g, R, x) = Counts(x)'
  BY DEF Part, Counts, OwnedBy
<1> QED BY <1>3, <1>4, <1>5 DEF Total

LEMMA TotalIsFold ==
  ASSUME MemType
  PROVE  Total = FoldFunction(LAMBDA n, m : n + m, 0, [i \in heap |-> Owned(i)])
<1> PICK f, g, S : f = OwnedBy /\ g = [i \in heap |-> Owned(i)] /\ S = heap
  OBVIOUS
<1>1. \A x \in S : f[x] = g[x]
  BY DEF OwnedBy, MemType
<1>2. SumOver(f, S) = SumOver(g, S)
  BY <1>1, SumAgrees DEF MemType
<1>3. FoldFunction(LAMBDA n, m : n + m, 0, g) = SumOver(g, DOMAIN g)
  BY FoldIsSum
<1> QED BY <1>2, <1>3 DEF Total

LEMMA InitMem == Init => Mem
<1> SUFFICES ASSUME Init PROVE Mem
  OBVIOUS
<1>1. MemType /\ Allocated
  BY FS_EmptySet DEF Init, MemType, Allocated, Kinds
<1>2. Total = 0
  <2> PICK f : f = OwnedBy
    OBVIOUS
  <2>1. SumOver(f, {}) = 0
    BY FS_EmptySet, SumEquation
  <2> QED BY <2>1 DEF Total, Init
<1> QED BY <1>1, <1>2 DEF Mem, Init
-----------------------------------------------------------------------------
\* The item that comes to the heap.
LEMMA CreateMem ==
  ASSUME ListType, Mem, NEW i \in Items, NEW kind \in Kinds, Create(i, kind)
  PROVE  Mem'
<1>1. /\ i \notin heap /\ owner[i] = Nobody
      /\ heap' = heap \cup {i}
      /\ string' = [string EXCEPT ![i] = NULL] /\ constant' = [constant EXCEPT ![i] = FALSE]
      /\ value' = [value EXCEPT ![i] = kind]
      /\ strings' = strings + (IF kind = "own" THEN 1 ELSE 0)
      /\ owner' = [owner EXCEPT ![i] = Caller]
  BY DEF Create, Free, New, Moves
<1>2. IsFiniteSet(heap') /\ Total' = Total - Counts(i) + Counts(i)'
  BY <1>1, OneItem DEF Mem, MemType
<1>3. Counts(i) = 0 /\ Counts(i)' = IF kind = "own" THEN 1 ELSE 0
  BY <1>1 DEF Mem, MemType, Counts, Owned
<1>4. MemType' /\ Allocated'
  BY <1>1, <1>2, ListAssumption DEF Mem, MemType, Allocated, ListType
<1> QED BY <1>1, <1>2, <1>3, <1>4, TotalInt DEF Mem

\* Who is deleted takes its strings along.
LEMMA DeleteMem ==
  ASSUME ListType, Mem, NEW i \in heap, cJSON_Delete(i), owner'[i] = Nobody,
         \A j \in Items : j # i => (owner'[j] = Nobody <=> owner[j] = Nobody)
  PROVE  Mem'
<1>1. /\ heap' = heap \ {i}
      /\ string' = [string EXCEPT ![i] = NULL] /\ constant' = [constant EXCEPT ![i] = FALSE]
      /\ value' = [value EXCEPT ![i] = "none"]
      /\ strings' = strings - Owned(i) /\ i \in Items
  BY DEF cJSON_Delete, Blank, Mem, MemType
<1>2. IsFiniteSet(heap') /\ Total' = Total - Counts(i) + Counts(i)'
  BY <1>1, OneItem DEF Mem, MemType
<1>3. Counts(i) = Owned(i) /\ Counts(i)' = 0
  BY <1>1 DEF Counts
<1>4. MemType' /\ Allocated'
  BY <1>1, <1>2, ListAssumption DEF Mem, MemType, Allocated, ListType, Kinds
<1> QED BY <1>1, <1>2, <1>3, <1>4, TotalInt, OwnedInt DEF Mem

\* Passing an item on changes no memory.
LEMMA PassMem ==
  ASSUME ListType, Mem, UNCHANGED <<heap, texts, strings>>, NEW i \in heap, NEW to \in Arrays \cup {Caller},
         owner' = [owner EXCEPT ![i] = to]
  PROVE  Mem'
<1>1. Total' = Total
  BY DEF Total, OwnedBy, Owned, texts
<1>2. MemType' /\ Allocated'
  BY ListAssumption DEF Mem, MemType, Allocated, ListType, texts
<1> QED BY <1>1, <1>2 DEF Mem

\* An item that gets a name.
LEMMA NameMem ==
  ASSUME ListType, Mem, NEW i \in heap, NEW name \in Names, NEW const \in BOOLEAN, SetName(i, name, const),
         NEW to \in Arrays \cup {Caller}, owner' = [owner EXCEPT ![i] = to]
  PROVE  Mem'
<1>1. /\ string' = [string EXCEPT ![i] = name] /\ constant' = [constant EXCEPT ![i] = const]
      /\ strings' = strings + (IF const THEN 0 ELSE 1) - (IF string[i] # NULL /\ ~ constant[i] THEN 1 ELSE 0)
      /\ UNCHANGED <<heap, value>> /\ i \in Items
  BY DEF SetName, Mem, MemType
<1>2. Total' = Total - Counts(i) + Counts(i)'
  BY <1>1, OneItem DEF Mem, MemType
<1>3. Counts(i) = Owned(i) /\ Counts(i)' = Owned(i)'
  BY <1>1 DEF Counts
<1>4. /\ Owned(i) = (IF string[i] # NULL /\ ~ constant[i] THEN 1 ELSE 0) + (IF value[i] = "own" THEN 1 ELSE 0)
      /\ Owned(i)' = (IF const THEN 0 ELSE 1) + (IF value[i] = "own" THEN 1 ELSE 0)
  BY <1>1, NamesAssumption DEF Mem, MemType, Owned
<1>5. MemType' /\ Allocated'
  BY <1>1, ListAssumption DEF Mem, MemType, Allocated, ListType
<1> PICK p, q, v : /\ p = (IF string[i] # NULL /\ ~ constant[i] THEN 1 ELSE 0)
                   /\ q = (IF const THEN 0 ELSE 1)
                   /\ v = (IF value[i] = "own" THEN 1 ELSE 0)
  OBVIOUS
<1>6. p \in Int /\ q \in Int /\ v \in Int
  OBVIOUS
<1>7. strings' = strings + q - p /\ Total' = Total - (p + v) + (q + v)
  BY <1>1, <1>2, <1>3, <1>4
<1> QED BY <1>5, <1>6, <1>7, TotalInt DEF Mem

\* A reference with a name owns the name.
LEMMA NamedReferenceMem ==
  ASSUME ListType, Mem, NEW a \in Arrays, NEW name \in Names, NEW r \in Items, NEW i \in Items,
         AddItemReferenceToObject(a, name, r, i)
  PROVE  Mem'
<1>1. /\ r \notin heap /\ owner[r] = Nobody
      /\ heap' = heap \cup {r}
      /\ string' = [string EXCEPT ![r] = name] /\ constant' = [constant EXCEPT ![r] = FALSE]
      /\ value' = [value EXCEPT ![r] = IF value[i] = "none" THEN "none" ELSE "shared"]
      /\ strings' = strings + 1
      /\ owner' = [owner EXCEPT ![r] = a]
  BY DEF AddItemReferenceToObject, Shares, Free, Enters
<1>2. IsFiniteSet(heap') /\ Total' = Total - Counts(r) + Counts(r)'
  BY <1>1, OneItem DEF Mem, MemType
<1>3. Counts(r) = 0 /\ Counts(r)' = 1
  BY <1>1, NamesAssumption DEF Mem, MemType, Counts, Owned
<1>4. MemType' /\ Allocated'
  BY <1>1, <1>2, ListAssumption DEF Mem, MemType, Allocated, ListType, Kinds
<1> QED BY <1>1, <1>2, <1>3, <1>4, TotalInt DEF Mem

\* A new item with a name.
LEMMA NewNamedMem ==
  ASSUME ListType, Mem, NEW a \in Arrays, NEW i \in Items, NEW name \in Names, NEW kind \in {"none", "own"},
         AddNewToObject(a, name, i, kind)
  PROVE  Mem'
<1>1. /\ i \notin heap /\ owner[i] = Nobody
      /\ heap' = heap \cup {i}
      /\ string' = [string EXCEPT ![i] = name] /\ constant' = [constant EXCEPT ![i] = FALSE]
      /\ value' = [value EXCEPT ![i] = kind]
      /\ strings' = strings + (IF kind = "own" THEN 2 ELSE 1)
      /\ owner' = [owner EXCEPT ![i] = a]
  BY DEF AddNewToObject, Free, Enters
<1>2. IsFiniteSet(heap') /\ Total' = Total - Counts(i) + Counts(i)'
  BY <1>1, OneItem DEF Mem, MemType
<1>3. Counts(i) = 0 /\ Counts(i)' = IF kind = "own" THEN 2 ELSE 1
  BY <1>1, NamesAssumption DEF Mem, MemType, Counts, Owned
<1>4. MemType' /\ Allocated'
  BY <1>1, <1>2, ListAssumption DEF Mem, MemType, Allocated, ListType, Kinds
<1> QED BY <1>1, <1>2, <1>3, <1>4, TotalInt DEF Mem

\* A reference owns nothing.
LEMMA ReferenceMem ==
  ASSUME ListType, Mem, NEW r \in Items, NEW i \in Items, create_reference(r, i), UNCHANGED strings,
         NEW to \in Arrays \cup {Nobody}, owner' = [owner EXCEPT ![r] = to]
  PROVE  Mem'
<1>1. /\ r \notin heap /\ owner[r] = Nobody
      /\ heap' = heap \cup {r}
      /\ string' = [string EXCEPT ![r] = NULL]
      /\ constant' = [constant EXCEPT ![r] = constant[i]]
      /\ value' = [value EXCEPT ![r] = IF value[i] = "none" THEN "none" ELSE "shared"]
  BY DEF create_reference, Shares, Free
<1>2. IsFiniteSet(heap') /\ Total' = Total - Counts(r) + Counts(r)'
  BY <1>1, OneItem DEF Mem, MemType
<1>3. Counts(r) = 0 /\ Counts(r)' = 0
  BY <1>1 DEF Mem, MemType, Counts, Owned
<1>4. MemType' /\ Allocated'
  BY <1>1, <1>2, ListAssumption DEF Mem, MemType, Allocated, ListType, Kinds
<1> QED BY <1>1, <1>2, <1>3, <1>4, TotalInt DEF Mem

\* An array made at once: every item of it is new, and owns a value or nothing.
LEMMA CreateArrayMem ==
  ASSUME ListType, Mem, NEW a \in Arrays, NEW n \in Nat \ {0}, NEW s \in [1 .. n -> Items],
         NEW kind \in {"none", "own"}, IsInjective(s), CreateArray(a, s, kind)
  PROVE  Mem'
<1> DEFINE Made == {s[k] : k \in 1 .. n}
           c == IF kind = "own" THEN 1 ELSE 0
<1>1. ToSet(s) = Made /\ Len(s) = n
  BY DEF ToSet
<1>2. /\ \A i \in Made : i \in Items /\ i \notin heap /\ owner[i] = Nobody
      /\ string' = [i \in Items |-> IF i \in Made THEN NULL ELSE string[i]]
      /\ constant' = [i \in Items |-> IF i \in Made THEN FALSE ELSE constant[i]]
      /\ value' = [i \in Items |-> IF i \in Made THEN kind ELSE value[i]]
      /\ heap' = heap \cup Made
      /\ owner' = [i \in Items |-> IF i \in Made THEN a ELSE owner[i]]
      /\ strings' = strings + (IF kind = "own" THEN n ELSE 0)
  <2>1. \A i \in Made : i \in Items
    OBVIOUS
  <2> HIDE DEF Made
  <2> QED BY <1>1, <2>1 DEF CreateArray, Free
<1>3. IsFiniteSet(Made) /\ Cardinality(Made) = n
  <2>1. IsFiniteSet(1 .. n) /\ Cardinality(1 .. n) = n
    BY FS_Interval
  <2>2. s \in Bijection(1 .. n, Made)
    <3>1. \A j, k \in 1 .. n : s[j] = s[k] => j = k
      BY DEF IsInjective
    <3> QED BY <3>1 DEF Bijection, Injection, Surjection
  <2>3. ExistsBijection(1 .. n, Made)
    BY <2>2 DEF ExistsBijection
  <2> HIDE DEF Made
  <2> QED BY <2>1, <2>3, FS_Bijection
<1> HIDE DEF Made
<1>4. MemType' /\ Allocated'
  <2>1. IsFiniteSet(heap \cup Made)
    BY <1>3, FS_Union DEF Mem, MemType
  <2> QED BY <1>2, <2>1, ListAssumption DEF Mem, MemType, Allocated, ListType, Kinds
<1>5. Total' = Total + (IF kind = "own" THEN n ELSE 0)
  <2> PICK f, g, S, M : f = OwnedBy /\ g = OwnedBy' /\ S = heap /\ M = Made
    OBVIOUS
  <2>1. (\A y \in S : f[y] = g[y]) /\ (\A y \in M : g[y] = c) /\ S \cap M = {}
    BY <1>2 DEF Mem, MemType, OwnedBy, Owned
  <2>2. \A y \in S \cup M : g[y] \in Int
    <3>1. \A i \in Items : OwnedBy[i]' \in Int
      BY DEF OwnedBy, Owned
    <3>2. S \cup M \subseteq Items
      BY <1>2 DEF Mem, MemType
    <3> QED BY <3>1, <3>2
  <2>3. IsFiniteSet(S) /\ IsFiniteSet(M) /\ Cardinality(M) = n
    BY <1>3 DEF Mem, MemType
  <2>4. SumOver(g, S \cup M) = SumOver(g, S) + SumOver(g, M)
    BY <2>1, <2>2, <2>3, SumUnion
  <2>5. SumOver(f, S) = SumOver(g, S)
    BY <2>1, <2>3, SumAgrees
  <2>6. SumOver(g, M) = IF c = 1 THEN Cardinality(M) ELSE 0
    <3>1. c \in {0, 1}
      OBVIOUS
    <3> HIDE DEF c
    <3> QED BY <2>1, <2>3, <3>1, SumOfOnes
  <2>7. Total = SumOver(f, S) /\ Total' = SumOver(g, S \cup M)
    BY <1>2 DEF Total
  <2> QED BY <2>3, <2>4, <2>5, <2>6, <2>7
<1> QED BY <1>2, <1>4, <1>5 DEF Mem

\* An item in the place of another, by name: it takes the name, and the other is
\* deleted.
LEMMA ReplaceByNameMem ==
  ASSUME ListType, Mem, NEW a \in Arrays, NEW name \in Names, NEW r \in Items, NEW case_sensitive,
         ReplaceItemInObject(a, name, r, case_sensitive)
  PROVE  Mem'
<1> DEFINE i == get_object_item(a, name, case_sensitive)
           freed == IF string[r] # NULL /\ ~ constant[r] THEN 1 ELSE 0
<1> HIDE DEF i
<1>1. r \in heap /\ owner[r] = Caller
  BY ListAssumption DEF ReplaceItemInObject, Held, In, Mem, Allocated
<1>2. CASE /\ string' = [string EXCEPT ![r] = NULL]
           /\ strings' = strings - freed
           /\ UNCHANGED <<links, heap, constant, value, history>>
  <2>1. Total' = Total - Counts(r) + Counts(r)'
    BY <1>2, OneItem DEF Mem, MemType
  <2>2. Counts(r) = freed + (IF value[r] = "own" THEN 1 ELSE 0) /\ Counts(r)' = IF value[r] = "own" THEN 1 ELSE 0
    BY <1>1, <1>2 DEF Mem, MemType, Counts, Owned
  <2>3. MemType' /\ Allocated'
    BY <1>2 DEF Mem, MemType, Allocated, history
  <2> PICK p, v : p = freed /\ v = IF value[r] = "own" THEN 1 ELSE 0
    OBVIOUS
  <2>4. p \in Int /\ v \in Int
    OBVIOUS
  <2> HIDE DEF freed
  <2>5. strings' = strings - p /\ Total' = Total - (p + v) + v
    BY <1>2, <2>1, <2>2
  <2> QED BY <2>3, <2>4, <2>5, TotalInt DEF Mem
<1>3. CASE SetName(r, name, FALSE) /\ UNCHANGED <<links, history>>
  <2>1. owner' = [owner EXCEPT ![r] = Caller]
    BY <1>1, <1>3 DEF history, ListType
  <2> QED BY <1>1, <1>3, <2>1, NameMem
<1>4. CASE /\ i \in In(a) /\ ReplaceItemViaPointer(a, i, r)
           /\ string' = [string EXCEPT ![r] = name, ![i] = NULL]
           /\ constant' = [constant EXCEPT ![r] = FALSE, ![i] = FALSE]
           /\ strings' = strings + 1 - freed - Owned(i)
           /\ Blank(i)
  <2>1. /\ i \in Items /\ i # r /\ i \in heap
        /\ heap' = heap \ {i} /\ value' = [value EXCEPT ![i] = "none"]
        /\ owner' = [owner EXCEPT ![r] = a, ![i] = Nobody]
    BY <1>1, <1>4, ListAssumption DEF In, ReplaceItemViaPointer, Blank, Mem, Allocated
  <2>2. IsFiniteSet(heap') /\ heap' \subseteq Items
    BY <2>1, FS_Subset DEF Mem, MemType
  <2>3. MemType'
    BY <1>4, <2>1, <2>2 DEF Mem, MemType, Kinds
  <2>4. Allocated'
    BY <1>1, <2>1, ListAssumption DEF Mem, MemType, Allocated, ListType
  <2> PICK f, g, S, R : f = OwnedBy /\ g = OwnedBy' /\ S = heap /\ R = heap'
    OBVIOUS
  <2> PICK j, p, v : j = i /\ p = freed /\ v = IF value[r] = "own" THEN 1 ELSE 0
    OBVIOUS
  <2>5. /\ R = S \ {j} /\ r \in R /\ j \in S /\ r # j
        /\ \A y \in S : f[y] \in Int
        /\ \A y \in R : g[y] \in Int
        /\ \A y \in R \ {r} : f[y] = g[y]
    <3>1. S \subseteq Items /\ R \subseteq Items
      BY <2>2 DEF Mem, MemType
    <3>2. \A x \in Items : f[x] = Owned(x) /\ g[x] = Owned(x)'
      BY DEF OwnedBy
    <3>3. \A x \in Items : x # r /\ x # i => Owned(x)' = Owned(x)
      BY <1>4, <2>1 DEF Owned, Mem, MemType
    <3>4. \A x : Owned(x) \in Int /\ Owned(x)' \in Int
      BY DEF Owned
    <3> QED BY <1>1, <2>1, <3>1, <3>2, <3>3, <3>4
  <2>6. f[j] = Owned(j) /\ f[r] = p + v /\ g[r] = 1 + v
    BY <1>1, <1>4, <2>1, NamesAssumption DEF OwnedBy, Owned, Mem, MemType
  <2>7. SumOver(f, S) = f[j] + SumOver(f, R)
    <3>1. IsFiniteSet(S)
      BY DEF Mem, MemType
    <3> QED BY <2>5, <3>1, SumWithout
  <2>8. SumOver(g, R) = SumOver(f, R) - Part(f, R, r) + Part(g, R, r)
    <3>1. IsFiniteSet(R) /\ R \ {r} = R \ {r} /\ \A y \in R : f[y] \in Int
      BY <2>2, <2>5
    <3> QED BY <2>5, <3>1, SumChange
  <2>9. Part(f, R, r) = p + v /\ Part(g, R, r) = 1 + v
    BY <2>5, <2>6 DEF Part
  <2>10. SumOver(f, R) \in Int /\ p \in Int /\ v \in Int /\ f[j] \in Int
    BY <2>2, <2>5, SumInt
  <2>11. strings = SumOver(f, S) /\ strings' = strings + 1 - p - Owned(j) /\ Total' = SumOver(g, R)
    BY <1>4 DEF Mem, Total
  <2> HIDE DEF freed
  <2>12. strings' = Total'
    BY <2>6, <2>7, <2>8, <2>9, <2>10, <2>11
  <2> QED BY <2>3, <2>4, <2>12 DEF Mem
<1> QED BY <1>2, <1>3, <1>4 DEF ReplaceItemInObject, i

LEMMA RemoveMem ==
  ASSUME ListType, Mem, NEW a \in Arrays, NEW i \in In(a), RemoveItem(a, i)
  PROVE  Mem'
<1>1. i \in heap /\ owner \in [Items -> Arrays \cup {Caller, Nobody}]
  BY ListAssumption DEF Mem, Allocated, In, ListType
<1>2. CASE DetachItem(a, i)
  BY <1>1, <1>2, PassMem DEF DetachItem, Leaves
<1>3. CASE DeleteItem(a, i)
  <2>1. i \in Items /\ owner' = [owner EXCEPT ![i] = Nobody] /\ cJSON_Delete(i)
    BY <1>3 DEF DeleteItem, Leaves, In
  <2> QED BY <1>1, <2>1, DeleteMem
<1> QED BY <1>2, <1>3 DEF RemoveItem

LEMMA ReplaceByPlaceMem ==
  ASSUME ListType, Mem, NEW a \in Arrays, NEW which, NEW r \in Items, ReplaceItemInArray(a, which, r)
  PROVE  Mem'
<1>1. PICK i \in In(a) : ReplaceItemViaPointer(a, i, r) /\ cJSON_Delete(i)
  BY DEF ReplaceItemInArray
<1>2. i \in heap /\ r # i /\ owner[r] = Caller /\ owner \in [Items -> Arrays \cup {Caller, Nobody}] /\ i \in Items
  BY <1>1, ListAssumption DEF Mem, Allocated, In, Held, ListType, ReplaceItemViaPointer
<1>3. owner' = [owner EXCEPT ![r] = a, ![i] = Nobody]
  BY <1>1 DEF ReplaceItemViaPointer
<1> QED BY <1>1, <1>2, <1>3, ListAssumption, DeleteMem

\* An item that somebody has is in the heap.
LEMMA HeldInHeap == ASSUME Mem, NEW i \in Held PROVE i \in heap /\ i \in Items
BY ListAssumption DEF Mem, Allocated, Held, In

LEMMA NextKeepsMem == ListType /\ Mem /\ [Next]_vars => Mem'
<1> SUFFICES ASSUME ListType, Mem, [Next]_vars PROVE Mem'
  OBVIOUS
<1>1. ASSUME NEW i \in Items, Delete(i) PROVE Mem'
  <2>1. /\ i \in heap /\ cJSON_Delete(i) /\ owner' = [owner EXCEPT ![i] = Nobody]
        /\ owner \in [Items -> Arrays \cup {Caller, Nobody}]
    BY <1>1, HeldInHeap DEF Delete, Moves, ListType
  <2> QED BY <2>1, DeleteMem
<1>2. ASSUME NEW i \in Items, NEW kind \in Kinds, Create(i, kind) PROVE Mem'
  BY <1>2, CreateMem
<1>3. ASSUME NEW a \in Arrays, NEW n \in 1 .. Cardinality(Items), NEW s \in [1 .. n -> Items],
             NEW kind \in {"none", "own"}, IsInjective(s), CreateArray(a, s, kind)
      PROVE  Mem'
  <2>1. n \in Nat \ {0}
    OBVIOUS
  <2> QED BY <1>3, <2>1, CreateArrayMem
<1>4. ASSUME NEW a \in Arrays, NEW i \in Items, NEW name \in Names,
             \/ \E const \in BOOLEAN : AddItemToObject(a, name, i, const)
             \/ \E kind \in {"none", "own"} : AddNewToObject(a, name, i, kind)
             \/ \E case_sensitive \in BOOLEAN : ReplaceItemInObject(a, name, i, case_sensitive)
      PROVE  Mem'
  BY <1>4, HeldInHeap, NameMem, NewNamedMem, ReplaceByNameMem DEF AddItemToObject, Enters
<1>5. ASSUME NEW a \in Arrays, NEW i \in Items, AddItemToArray(a, i) \/ (i \in In(a) /\ RemoveItem(a, i))
      PROVE  Mem'
  BY <1>5, HeldInHeap, PassMem, RemoveMem DEF AddItemToArray, Enters
<1>6. ASSUME NEW a \in Arrays, NEW which, NEW i \in Items,
             InsertItemInArray(a, which, i) \/ ReplaceItemInArray(a, which, i)
      PROVE  Mem'
  <2>1. CASE InsertItemInArray(a, which, i)
    <3>1. i \in Held /\ owner' = [owner EXCEPT ![i] = a] /\ UNCHANGED <<heap, texts, strings>>
      BY <2>1 DEF InsertItemInArray, Enters
    <3> QED BY <3>1, HeldInHeap, PassMem
  <2> QED BY <1>6, <2>1, ReplaceByPlaceMem
<1>7. ASSUME NEW a \in Arrays, NEW i \in In(a), RemoveItem(a, i) PROVE Mem'
  BY <1>7, RemoveMem
<1>8. ASSUME NEW r \in Items, NEW i \in Items,
             \/ LoseReference(r, i)
             \/ \E a \in Arrays :
                  \/ AddItemReferenceToArray(a, r, i)
                  \/ \E name \in Names : AddItemReferenceToObject(a, name, r, i)
      PROVE  Mem'
  <2>1. CASE LoseReference(r, i)
    <3>1. create_reference(r, i) /\ strings' = strings /\ owner' = [owner EXCEPT ![r] = Nobody]
      BY <2>1 DEF LoseReference, history, create_reference, Shares, Free, ListType
    <3> QED BY <3>1, ReferenceMem
  <2>2. CASE \E a \in Arrays : AddItemReferenceToArray(a, r, i)
    BY <2>2, ReferenceMem DEF AddItemReferenceToArray, Enters
  <2>3. CASE \E a \in Arrays, name \in Names : AddItemReferenceToObject(a, name, r, i)
    BY <2>3, NamedReferenceMem
  <2> QED BY <1>8, <2>1, <2>2, <2>3
<1>9. CASE UNCHANGED vars
  BY <1>9 DEF vars, Mem, MemType, Allocated, Total, OwnedBy, Owned
<1>10. CASE Next
  BY <1>1, <1>2, <1>3, <1>4, <1>5, <1>6, <1>7, <1>8, <1>10
  DEF Next, DetachItemFromArray, DetachItemFromObject
<1> QED BY <1>9, <1>10

\* Whatever the edits, and whichever of them fails: an item is allocated as
\* long as somebody can reach it and no longer, only a reference can be lost,
\* and the names and values that are allocated are those the items own, so that
\* each is freed once (cJSON_Delete, the replacement of a name).
THEOREM EverythingFreedOnce == Spec => []FreedOnce
<1>1. Init => IInv /\ Mem
  BY InitLinks, InitMem
<1>2. IInv /\ Mem /\ [Next]_vars => IInv' /\ Mem'
  BY NextKeepsLinks, NextKeepsMem DEF IInv
<1>3. Mem => FreedOnce
  BY TotalIsFold DEF Mem, Allocated, FreedOnce
<1> QED BY <1>1, <1>2, <1>3, PTL DEF Spec
-----------------------------------------------------------------------------
(***************************************************************************)
(* The lists as sequences.  The history says what the list of each array   *)
(* is, item by item (Rows); walking along next gives exactly that          *)
(* (RowIsContents, by LinksOK), so that what an edit does to the sequences     *)
(* follows from what it does to the history.                               *)
(***************************************************************************)
\* The items of the array, each at its place.
Row(a, list) ==
  /\ list \in Seq(Items)
  /\ \A i \in In(a) : pos[i] \in DOMAIN list /\ list[pos[i]] = i
  /\ \A k \in DOMAIN list : list[k] \in In(a) /\ pos[list[k]] = k
Rows(l) == l \in [Arrays -> Seq(Items)] /\ \A a \in Arrays : Row(a, l[a])

\* No place before the last is empty.
LEMMA PlacesTaken ==
  ASSUME IInv, NEW a \in Arrays, child[a] # NULL, NEW k \in 1 .. pos[prev[child[a]]]
  PROVE  \E i \in In(a) : pos[i] = k
<1> PICK n : n = pos[prev[child[a]]]
  OBVIOUS
<1>1. n \in Nat /\ child[a] \in In(a) /\ pos[child[a]] = 1
  BY DEF IInv, ListType, LinksOK, LastIsKnown, InOneRow, In
<1> DEFINE W == {m \in Nat : m \in 1 .. n /\ \A i \in In(a) : pos[i] # m}
<1> SUFFICES ASSUME W # {} PROVE FALSE
  BY <1>1
<1>2. PICK m \in W : \A j \in W : m <= j
  <2> HIDE DEF W
  <2>1. W \in SUBSET Nat
    BY DEF W
  <2> QED BY <2>1, SmallestNumber
<1>3. m \in 2 .. n /\ m - 1 \in Nat /\ m - 1 \in 1 .. n /\ ~ (m <= m - 1)
  BY <1>1, <1>2
<1>4. PICK i \in In(a) : pos[i] = m - 1
  BY <1>2, <1>3
<1>5. next[i] # NULL
  BY <1>1, <1>3, <1>4 DEF IInv, LinksOK, Mirrored
<1>6. next[i] \in In(a) /\ pos[next[i]] = m
  BY <1>3, <1>4, <1>5 DEF IInv, LinksOK, Mirrored, InOneRow
<1> QED BY <1>2, <1>6

LEMMA RowExists == ASSUME IInv, NEW a \in Arrays PROVE \E list : Row(a, list)
<1>1. CASE child[a] = NULL
  <2>1. <<>> \in Seq(Items) /\ DOMAIN <<>> = {}
    OBVIOUS
  <2>2. In(a) = {}
    BY <1>1 DEF IInv, LinksOK, LastIsKnown
  <2>3. Row(a, <<>>)
    BY <2>1, <2>2 DEF Row
  <2> QED BY <2>3
<1>2. CASE child[a] # NULL
  <2> PICK n : n = pos[prev[child[a]]]
    OBVIOUS
  <2>1. n \in Nat
    BY <1>2 DEF IInv, ListType, LinksOK, LastIsKnown, In
  <2> DEFINE list == [k \in 1 .. n |-> CHOOSE i \in In(a) : pos[i] = k]
  <2>2. \A k \in 1 .. n : list[k] \in In(a) /\ pos[list[k]] = k
    BY <1>2, PlacesTaken
  <2>3. list \in Seq(Items) /\ DOMAIN list = 1 .. n
    <3>1. \A k \in 1 .. n : list[k] \in Items
      BY <2>2 DEF In
    <3>2. list = [k \in 1 .. n |-> list[k]]
      OBVIOUS
    <3> HIDE DEF list
    <3>3. list \in [1 .. n -> Items]
      BY <3>1, <3>2
    <3> QED BY <2>1, <3>3
  <2>4. \A i \in In(a) : pos[i] \in 1 .. n /\ \A j \in In(a) : pos[i] = pos[j] => i = j
    BY DEF IInv, LinksOK, InOneRow
  <2> HIDE DEF list
  <2>5. Row(a, list)
    BY <2>2, <2>3, <2>4 DEF Row
  <2> QED BY <2>5
<1> QED BY <1>1, <1>2

\* There is one table of the cells met along next: where two part, they would
\* part before.
IsAlong(a, f) ==
  f = [n \in 0 .. Cardinality(heap) |->
         IF n = 0 THEN child[a] ELSE IF f[n - 1] = NULL THEN NULL ELSE next[f[n - 1]]]

LEMMA OneAlong ==
  ASSUME NEW a, NEW f, IsAlong(a, f), NEW g, IsAlong(a, g), Cardinality(heap) \in Nat
  PROVE  f = g
<1> PICK C : C = Cardinality(heap)
  OBVIOUS
<1>1. /\ DOMAIN f = 0 .. C /\ DOMAIN g = 0 .. C /\ C \in Nat
      /\ f = [n \in 0 .. C |-> f[n]] /\ g = [n \in 0 .. C |-> g[n]]
  BY DEF IsAlong
<1>2. \A n \in 0 .. C : /\ f[n] = IF n = 0 THEN child[a] ELSE IF f[n - 1] = NULL THEN NULL ELSE next[f[n - 1]]
                        /\ g[n] = IF n = 0 THEN child[a] ELSE IF g[n - 1] = NULL THEN NULL ELSE next[g[n - 1]]
  BY DEF IsAlong
<1> DEFINE W == {n \in Nat : n \in 0 .. C /\ f[n] # g[n]}
<1>3. ASSUME W # {} PROVE FALSE
  <2>1. PICK n \in W : \A m \in W : n <= m
    <3> HIDE DEF W
    <3>1. W \in SUBSET Nat
      BY DEF W
    <3> QED BY <1>3, <3>1, SmallestNumber
  <2>2. n # 0
    BY <1>2, <2>1
  <2>3. n - 1 \in Nat /\ n - 1 \in 0 .. C /\ ~ (n <= n - 1)
    BY <1>1, <2>1, <2>2
  <2>4. f[n - 1] = g[n - 1]
    BY <2>1, <2>3
  <2> QED BY <1>2, <2>1, <2>4
<1>4. \A n \in 0 .. C : f[n] = g[n]
  BY <1>1, <1>3
<1> QED BY <1>1, <1>4

\* Walking along next meets the items of the array in their places.
LEMMA RowGoes ==
  ASSUME IInv, NEW a \in Arrays, NEW list, Row(a, list), NEW k \in 1 .. Len(list)
  PROVE  /\ k = 1 => list[k] = child[a]
         /\ k # Len(list) => next[list[k]] = list[k + 1]
         /\ k = Len(list) => next[list[k]] = NULL
<1> PICK n, x : n = Len(list) /\ x = list[k]
  OBVIOUS
<1>1. n \in Nat /\ list \in Seq(Items) /\ DOMAIN list = 1 .. n
  BY DEF Row
<1>2. \A j \in 1 .. n : list[j] \in In(a) /\ pos[list[j]] = j
  BY <1>1 DEF Row
<1>3. \A i \in In(a) : pos[i] \in 1 .. n /\ list[pos[i]] = i
  BY <1>1 DEF Row
<1>4. x \in In(a) /\ pos[x] = k
  BY <1>2
<1>5. k = 1 => x = child[a]
  BY <1>4 DEF IInv, LinksOK, InOneRow
<1>6. next[x] # NULL => next[x] \in In(a) /\ pos[next[x]] = k + 1
  BY <1>4 DEF IInv, LinksOK, Mirrored, InOneRow
<1>7. next[x] # NULL => k + 1 \in 1 .. n /\ list[k + 1] = next[x]
  BY <1>3, <1>6
<1>8. next[x] = NULL => k = n
  <2> SUFFICES ASSUME next[x] = NULL PROVE k = n
    OBVIOUS
  <2> PICK y : y = list[n]
    OBVIOUS
  <2>1. n \in 1 .. n /\ y \in In(a) /\ pos[y] = n
    BY <1>1, <1>2
  <2>2. prev[child[a]] = x
    BY <1>4 DEF IInv, LinksOK, Mirrored
  <2>3. pos[y] \in 1 .. pos[x]
    BY <2>1, <2>2 DEF IInv, LinksOK, InOneRow
  <2> QED BY <1>1, <1>4, <2>1, <2>3
<1> QED BY <1>1, <1>5, <1>7, <1>8

LEMMA RowIsContents ==
  ASSUME IInv, Mem, NEW a \in Arrays, NEW list, Row(a, list)
  PROVE  Contents(a) = list
<1> PICK n, C : n = Len(list) /\ C = Cardinality(heap)
  OBVIOUS
<1>1. n \in Nat /\ list \in Seq(Items) /\ DOMAIN list = 1 .. n /\ list = [k \in 1 .. n |-> list[k]]
  BY DEF Row
<1>2. \A k \in 1 .. n : list[k] \in heap /\ list[k] # NULL /\ pos[list[k]] = k
  <2>1. \A k \in 1 .. n : list[k] \in In(a) /\ pos[list[k]] = k
    BY <1>1 DEF Row
  <2>2. \A i \in In(a) : i \in heap /\ i # NULL
    BY ListAssumption DEF In, Mem, Allocated
  <2> QED BY <2>1, <2>2
<1>3. C \in Nat /\ n <= C
  <2>1. list \in Injection(1 .. n, heap)
    <3>1. list \in [1 .. n -> heap]
      BY <1>1, <1>2
    <3>2. \A j, k \in 1 .. n : list[j] = list[k] => j = k
      BY <1>2
    <3> QED BY <1>1, <3>1, <3>2 DEF Injection, IsInjective
  <2>2. IsFiniteSet(heap)
    BY DEF Mem, MemType
  <2>3. Cardinality(1 .. n) <= C /\ C \in Nat
    BY <2>1, <2>2, FS_Injection, FS_CardinalityType
  <2>4. Cardinality(1 .. n) = n
    <3>1. n \in Int /\ 1 \in Int /\ (IF 1 > n THEN 0 ELSE n - 1 + 1) = n
      BY <1>1
    <3> QED BY <3>1, FS_Interval
  <2> QED BY <2>3, <2>4
<1> DEFINE f == [k \in 0 .. C |-> IF k < n THEN list[k + 1] ELSE NULL]
<1>4. ASSUME NEW k \in 0 .. C
      PROVE  f[k] = IF k = 0 THEN child[a] ELSE IF f[k - 1] = NULL THEN NULL ELSE next[f[k - 1]]
  <2>1. f[k] = IF k < n THEN list[k + 1] ELSE NULL
    OBVIOUS
  <2>2. k # 0 => f[k - 1] = IF k - 1 < n THEN list[k] ELSE NULL
    BY <1>3
  <2> HIDE DEF f
  <2>3. CASE k = 0 /\ n = 0
    <3>1. In(a) = {}
      BY <1>1, <2>3 DEF Row
    <3>2. child[a] = NULL
      BY <3>1 DEF IInv, LinksOK, LastIsKnown
    <3> QED BY <2>1, <2>3, <3>2
  <2>4. CASE k = 0 /\ n # 0
    <3>1. 1 \in 1 .. n /\ k < n /\ k + 1 = 1
      BY <1>1, <2>4
    <3>2. list[1] = child[a]
      BY <3>1, RowGoes
    <3> QED BY <2>1, <2>4, <3>1, <3>2
  <2>5. CASE k # 0 /\ k < n
    <3>1. k \in 1 .. n /\ k # n /\ k - 1 < n
      BY <1>1, <2>5
    <3>2. next[list[k]] = list[k + 1]
      BY <3>1, RowGoes
    <3> QED BY <1>2, <2>1, <2>2, <2>5, <3>1, <3>2
  <2>6. CASE k # 0 /\ k = n
    <3>1. k \in 1 .. n /\ k - 1 < n /\ ~ (k < n)
      BY <1>1, <2>6
    <3>2. next[list[k]] = NULL
      BY <2>6, <3>1, RowGoes
    <3> QED BY <1>2, <2>1, <2>2, <2>6, <3>1, <3>2
  <2>7. CASE k # 0 /\ k > n
    <3>1. ~ (k - 1 < n) /\ ~ (k < n)
      BY <1>1, <2>7
    <3> QED BY <2>1, <2>2, <2>7, <3>1
  <2> QED BY <1>1, <2>3, <2>4, <2>5, <2>6, <2>7
<1>5. IsAlong(a, f)
  BY <1>4 DEF IsAlong
<1> HIDE DEF f
<1>6. Along(a) = CHOOSE g : IsAlong(a, g)
  BY Zenon DEF Along, IsAlong
<1>7. IsAlong(a, Along(a))
  BY <1>5, <1>6
<1>8. Along(a) = f
  BY <1>3, <1>5, <1>7, OneAlong
<1>9. {k \in DOMAIN f : f[k] # NULL} = 0 .. n - 1
  BY <1>1, <1>2, <1>3 DEF f
<1>10. Cardinality(0 .. n - 1) = n
  <2>1. 0 \in Int /\ n - 1 \in Int /\ (IF 0 > n - 1 THEN 0 ELSE n - 1 - 0 + 1) = n
    BY <1>1
  <2> QED BY <2>1, FS_Interval
<1>11. \A k \in 1 .. n : f[k - 1] = list[k]
  BY <1>1, <1>3 DEF f
<1>12. Contents(a) = [k \in 1 .. n |-> f[k - 1]]
  BY <1>8, <1>9, <1>10 DEF Contents
<1> QED BY <1>1, <1>11, <1>12

\* So the lists are what the history says.
ListsAre == \A l : IInv /\ Mem /\ Rows(l) => [a \in Arrays |-> Contents(a)] = l
RowsExist == IInv => \E l : Rows(l)

LEMMA ContentsAreRows == ListsAre /\ ListsAre'
<1>1. ListsAre
  <2> SUFFICES ASSUME NEW l, IInv, Mem, Rows(l) PROVE [a \in Arrays |-> Contents(a)] = l
    BY DEF ListsAre
  <2>1. ASSUME NEW a \in Arrays PROVE Contents(a) = l[a]
    BY RowIsContents DEF Rows
  <2> QED BY <2>1 DEF Rows
<1> QED BY <1>1, PTL

LEMMA SomeRows == RowsExist /\ RowsExist'
<1>1. RowsExist
  <2> SUFFICES ASSUME IInv PROVE \E l : Rows(l)
    BY DEF RowsExist
  <2> DEFINE l == [a \in Arrays |-> CHOOSE list : Row(a, list)]
  <2>1. \A a \in Arrays : Row(a, l[a])
    BY RowExists
  <2>2. l \in [Arrays -> Seq(Items)]
    BY <2>1 DEF Row
  <2> HIDE DEF l
  <2> QED BY <2>1, <2>2 DEF Rows
<1> QED BY <1>1, PTL
-----------------------------------------------------------------------------
\* Two sequences in a row.
LEMMA JoinedLen ==
  ASSUME NEW S, NEW s \in Seq(S), NEW t \in Seq(S)
  PROVE  s \o t \in Seq(S) /\ Len(s \o t) = Len(s) + Len(t)
OBVIOUS

LEMMA JoinedLeft ==
  ASSUME NEW S, NEW s \in Seq(S), NEW t \in Seq(S), NEW j \in 1 .. Len(s)
  PROVE  (s \o t)[j] = s[j]
OBVIOUS

LEMMA JoinedRight ==
  ASSUME NEW S, NEW s \in Seq(S), NEW t \in Seq(S), NEW j, j \in Len(s) + 1 .. Len(s) + Len(t)
  PROVE  (s \o t)[j] = t[j - Len(s)]
OBVIOUS

\* A part of a sequence.
LEMMA PartLen ==
  ASSUME NEW S, NEW s \in Seq(S), NEW m \in 1 .. Len(s) + 1, NEW n \in m - 1 .. Len(s)
  PROVE  SubSeq(s, m, n) \in Seq(S) /\ Len(SubSeq(s, m, n)) = n - m + 1
OBVIOUS

LEMMA PartAt ==
  ASSUME NEW S, NEW s \in Seq(S), NEW m \in 1 .. Len(s) + 1, NEW n \in m - 1 .. Len(s),
         NEW j \in 1 .. n - m + 1
  PROVE  SubSeq(s, m, n)[j] = s[m + j - 1]
OBVIOUS

\* An element put at place k, and one taken out from there.
LEMMA InsertedLen ==
  ASSUME NEW S, NEW s \in Seq(S), NEW e \in S, NEW k \in 1 .. Len(s) + 1
  PROVE  InsertAt(s, k, e) \in Seq(S) /\ Len(InsertAt(s, k, e)) = Len(s) + 1
<1>0. PICK n, b, c, o, d : n = Len(s) /\ b = SubSeq(s, 1, k - 1) /\ c = SubSeq(s, k, n) /\ o = <<e>> /\ d = b \o o
  OBVIOUS
<1>1. n \in Nat /\ k \in 1 .. n + 1 /\ 1 \in 1 .. n + 1 /\ k - 1 \in 0 .. n /\ n \in k - 1 .. n
  BY <1>0
<1>2. b \in Seq(S) /\ Len(b) = k - 1
  BY <1>0, <1>1, PartLen
<1>3. c \in Seq(S) /\ Len(c) = n - k + 1
  BY <1>0, <1>1, PartLen
<1>4. o \in Seq(S) /\ Len(o) = 1
  BY <1>0
<1>5. d \in Seq(S) /\ Len(d) = k
  BY <1>0, <1>1, <1>2, <1>4, JoinedLen
<1>6. d \o c \in Seq(S) /\ Len(d \o c) = n + 1
  BY <1>1, <1>3, <1>5, JoinedLen
<1> QED BY <1>0, <1>6 DEF InsertAt

LEMMA InsertedAt ==
  ASSUME NEW S, NEW s \in Seq(S), NEW e \in S, NEW k \in 1 .. Len(s) + 1, NEW j \in 1 .. Len(s) + 1
  PROVE  InsertAt(s, k, e)[j] = IF j < k THEN s[j] ELSE IF j = k THEN e ELSE s[j - 1]
<1>0. PICK n, b, c, o, d : n = Len(s) /\ b = SubSeq(s, 1, k - 1) /\ c = SubSeq(s, k, n) /\ o = <<e>> /\ d = b \o o
  OBVIOUS
<1>1. n \in Nat /\ k \in 1 .. n + 1 /\ j \in 1 .. n + 1 /\ 1 \in 1 .. n + 1 /\ k - 1 \in 0 .. n /\ n \in k - 1 .. n
  BY <1>0
<1>2. b \in Seq(S) /\ Len(b) = k - 1
  BY <1>0, <1>1, PartLen
<1>3. c \in Seq(S) /\ Len(c) = n - k + 1
  BY <1>0, <1>1, PartLen
<1>4. o \in Seq(S) /\ Len(o) = 1 /\ o[1] = e
  BY <1>0
<1>5. d \in Seq(S) /\ Len(d) = k
  BY <1>0, <1>1, <1>2, <1>4, JoinedLen
<1>6. InsertAt(s, k, e) = d \o c
  BY <1>0 DEF InsertAt
<1>7. CASE j < k
  <2>1. j \in 1 .. k /\ j \in 1 .. k - 1
    BY <1>1, <1>7
  <2>2. (d \o c)[j] = d[j]
    BY <1>3, <1>5, <2>1, JoinedLeft
  <2>3. d[j] = b[j]
    BY <1>0, <1>2, <1>4, <2>1, JoinedLeft
  <2>4. b[j] = s[j]
    <3>1. j \in 1 .. (k - 1) - 1 + 1 /\ 1 + j - 1 = j
      BY <1>1, <2>1
    <3>2. b[j] = s[1 + j - 1]
      BY <1>0, <1>1, <3>1, PartAt
    <3> QED BY <3>1, <3>2
  <2> QED BY <1>6, <1>7, <2>2, <2>3, <2>4
<1>8. CASE j = k
  <2>1. k \in 1 .. k /\ k \in Len(b) + 1 .. Len(b) + Len(o) /\ k - Len(b) = 1
    BY <1>1, <1>2, <1>4
  <2>2. (d \o c)[k] = d[k]
    BY <1>3, <1>5, <2>1, JoinedLeft
  <2>3. d[k] = o[k - Len(b)]
    BY <1>0, <1>2, <1>4, <2>1, JoinedRight
  <2>4. d[k] = e
    BY <1>4, <2>1, <2>3
  <2> QED BY <1>1, <1>6, <1>8, <2>2, <2>4
<1>9. CASE j > k
  <2>0. PICK m : m = j - k
    OBVIOUS
  <2>1. j \in Len(d) + 1 .. Len(d) + Len(c) /\ m \in 1 .. n - k + 1 /\ k + m - 1 = j - 1
    BY <1>1, <1>3, <1>5, <1>9, <2>0
  <2>2. (d \o c)[j] = c[j - Len(d)]
    BY <1>3, <1>5, <2>1, JoinedRight
  <2>3. (d \o c)[j] = c[m]
    BY <1>5, <2>0, <2>2
  <2>4. c[m] = s[k + m - 1]
    BY <1>0, <1>1, <2>1, PartAt
  <2>5. c[m] = s[j - 1]
    BY <2>1, <2>4
  <2> QED BY <1>1, <1>6, <1>9, <2>3, <2>5
<1> QED BY <1>0, <1>1, <1>7, <1>8, <1>9

LEMMA RemovedLen ==
  ASSUME NEW S, NEW s \in Seq(S), NEW k \in 1 .. Len(s)
  PROVE  RemoveAt(s, k) \in Seq(S) /\ Len(RemoveAt(s, k)) = Len(s) - 1
<1>0. PICK n, b, c : n = Len(s) /\ b = SubSeq(s, 1, k - 1) /\ c = SubSeq(s, k + 1, n)
  OBVIOUS
<1>1. /\ n \in Nat /\ k \in 1 .. n /\ 1 \in 1 .. n + 1 /\ k - 1 \in 0 .. n
      /\ k + 1 \in 1 .. n + 1 /\ n \in (k + 1) - 1 .. n
  BY <1>0
<1>2. b \in Seq(S) /\ Len(b) = k - 1
  BY <1>0, <1>1, PartLen
<1>3. c \in Seq(S) /\ Len(c) = n - k
  BY <1>0, <1>1, PartLen
<1>4. b \o c \in Seq(S) /\ Len(b \o c) = n - 1
  BY <1>1, <1>2, <1>3, JoinedLen
<1> QED BY <1>0, <1>4 DEF RemoveAt

LEMMA RemovedAt ==
  ASSUME NEW S, NEW s \in Seq(S), NEW k \in 1 .. Len(s), NEW j \in 1 .. Len(s) - 1
  PROVE  RemoveAt(s, k)[j] = IF j < k THEN s[j] ELSE s[j + 1]
<1>0. PICK n, b, c : n = Len(s) /\ b = SubSeq(s, 1, k - 1) /\ c = SubSeq(s, k + 1, n)
  OBVIOUS
<1>1. /\ n \in Nat /\ k \in 1 .. n /\ j \in 1 .. n - 1 /\ 1 \in 1 .. n + 1 /\ k - 1 \in 0 .. n
      /\ k + 1 \in 1 .. n + 1 /\ n \in (k + 1) - 1 .. n
  BY <1>0
<1>2. b \in Seq(S) /\ Len(b) = k - 1
  BY <1>0, <1>1, PartLen
<1>3. c \in Seq(S) /\ Len(c) = n - k
  BY <1>0, <1>1, PartLen
<1>4. RemoveAt(s, k) = b \o c
  BY <1>0 DEF RemoveAt
<1>5. CASE j < k
  <2>1. j \in 1 .. k - 1 /\ j \in 1 .. (k - 1) - 1 + 1 /\ 1 + j - 1 = j
    BY <1>1, <1>5
  <2>2. (b \o c)[j] = b[j]
    BY <1>2, <1>3, <2>1, JoinedLeft
  <2>3. b[j] = s[1 + j - 1]
    BY <1>0, <1>1, <2>1, PartAt
  <2> QED BY <1>4, <1>5, <2>1, <2>2, <2>3
<1>6. CASE ~ (j < k)
  <2>0. PICK m : m = j - (k - 1)
    OBVIOUS
  <2>1. /\ j \in Len(b) + 1 .. Len(b) + Len(c) /\ m \in 1 .. n - (k + 1) + 1
        /\ (k + 1) + m - 1 = j + 1
    BY <1>1, <1>2, <1>3, <1>6, <2>0
  <2>2. (b \o c)[j] = c[j - Len(b)]
    BY <1>2, <1>3, <2>1, JoinedRight
  <2>3. (b \o c)[j] = c[m]
    BY <1>2, <2>0, <2>2
  <2>4. c[m] = s[(k + 1) + m - 1]
    BY <1>0, <1>1, <2>1, PartAt
  <2>5. c[m] = s[j + 1]
    BY <2>1, <2>4
  <2> QED BY <1>4, <1>6, <2>3, <2>5
<1> QED BY <1>5, <1>6

\* What an edit of one array does to its history, it does to that array alone.
LEMMA OtherRows ==
  ASSUME NEW l, Rows(l), NEW a \in Arrays, NEW list \in Seq(Items), Row(a, list)',
         \A b \in Arrays : b # a => In(b)' = In(b) /\ \A i \in In(b) : pos'[i] = pos[i]
  PROVE  Rows([l EXCEPT ![a] = list])'
<1> PICK m : m = [l EXCEPT ![a] = list]
  OBVIOUS
<1>1. m \in [Arrays -> Seq(Items)] /\ m[a] = list /\ \A b \in Arrays : b # a => m[b] = l[b]
  BY DEF Rows
<1>2. ASSUME NEW b \in Arrays, b # a PROVE Row(b, l[b])'
  <2> PICK s : s = l[b]
    OBVIOUS
  <2>1. /\ s \in Seq(Items)
        /\ \A i \in In(b) : pos[i] \in DOMAIN s /\ s[pos[i]] = i
        /\ \A k \in DOMAIN s : s[k] \in In(b) /\ pos[s[k]] = k
    BY DEF Rows, Row
  <2>2. In(b)' = In(b) /\ \A i \in In(b) : pos'[i] = pos[i]
    BY <1>2
  <2>3. Row(b, s)'
    BY <2>1, <2>2 DEF Row
  <2> QED BY <2>3
<1> QED BY <1>1, <1>2 DEF Rows

\* The item that comes has its place from then on.
LEMMA EnterRows ==
  ASSUME ListType, NEW l, Rows(l), NEW a \in Arrays, NEW i \in Items, owner[i] \notin Arrays,
         NEW k \in 1 .. Len(l[a]) + 1, Enters(i, a, k)
  PROVE  Rows([l EXCEPT ![a] = InsertAt(l[a], k, i)])'
<1> PICK s, new : s = l[a] /\ new = InsertAt(s, k, i)
  OBVIOUS
<1>1. /\ s \in Seq(Items) /\ DOMAIN s = 1 .. Len(s) /\ k \in 1 .. Len(s) + 1 /\ Len(s) \in Nat
      /\ \A j \in In(a) : pos[j] \in 1 .. Len(s) /\ s[pos[j]] = j
      /\ \A j \in 1 .. Len(s) : s[j] \in In(a) /\ pos[s[j]] = j
  BY DEF Rows, Row
<1>2. /\ new \in Seq(Items) /\ DOMAIN new = 1 .. Len(s) + 1
      /\ \A j \in 1 .. Len(s) + 1 : new[j] = IF j < k THEN s[j] ELSE IF j = k THEN i ELSE s[j - 1]
  <2>1. new \in Seq(Items) /\ Len(new) = Len(s) + 1
    BY <1>1, InsertedLen
  <2>2. \A j \in 1 .. Len(s) + 1 : new[j] = IF j < k THEN s[j] ELSE IF j = k THEN i ELSE s[j - 1]
    BY <1>1, InsertedAt
  <2> QED BY <2>1, <2>2
<1>3. /\ In(a)' = In(a) \cup {i} /\ i \notin In(a)
      /\ \A b \in Arrays : b # a => In(b)' = In(b) /\ i \notin In(b)
  BY DEF Enters, In, ListType
<1>4. /\ pos'[i] = k
      /\ \A j \in In(a) : pos'[j] = IF pos[j] >= k THEN pos[j] + 1 ELSE pos[j]
      /\ \A b \in Arrays : b # a => \A j \in In(b) : pos'[j] = pos[j]
  BY <1>3 DEF Enters, In
<1>5. ASSUME NEW j \in In(a)' PROVE pos'[j] \in DOMAIN new /\ new[pos'[j]] = j
  <2>1. CASE j = i
    BY <1>1, <1>2, <1>4, <2>1
  <2>2. CASE j # i
    <3> PICK p : p = pos[j]
      OBVIOUS
    <3>1. j \in In(a) /\ p \in 1 .. Len(s) /\ s[p] = j
      BY <1>1, <1>3, <2>2
    <3>2. CASE p >= k
      <4>1. pos'[j] = p + 1 /\ p + 1 \in 1 .. Len(s) + 1 /\ ~ (p + 1 < k) /\ p + 1 # k /\ p + 1 - 1 = p
        BY <1>1, <1>4, <3>1, <3>2
      <4> QED BY <1>2, <3>1, <4>1
    <3>3. CASE ~ (p >= k)
      <4>1. pos'[j] = p /\ p \in 1 .. Len(s) + 1 /\ p < k
        BY <1>1, <1>4, <3>1, <3>3
      <4> QED BY <1>2, <3>1, <4>1
    <3> QED BY <3>2, <3>3
  <2> QED BY <2>1, <2>2
<1>6. ASSUME NEW j \in DOMAIN new PROVE new[j] \in In(a)' /\ pos'[new[j]] = j
  <2>1. CASE j < k
    <3>1. j \in 1 .. Len(s) /\ new[j] = s[j] /\ ~ (j >= k)
      BY <1>1, <1>2, <2>1
    <3> QED BY <1>1, <1>3, <1>4, <3>1
  <2>2. CASE j = k
    BY <1>2, <1>3, <1>4, <2>2
  <2>3. CASE j > k
    <3>1. j - 1 \in 1 .. Len(s) /\ new[j] = s[j - 1] /\ j - 1 >= k /\ j - 1 + 1 = j
      BY <1>1, <1>2, <2>3
    <3> QED BY <1>1, <1>3, <1>4, <3>1
  <2> QED BY <1>1, <1>2, <2>1, <2>2, <2>3
<1>7. Row(a, new)'
  BY <1>2, <1>5, <1>6 DEF Row
<1> QED BY <1>2, <1>3, <1>4, <1>7, OtherRows

\* Those behind the item that goes move up.
LEMMA LeaveRows ==
  ASSUME ListType, NEW l, Rows(l), NEW a \in Arrays, NEW i \in In(a), NEW to \in {Caller, Nobody},
         Leaves(i, a, to), NEW k, k = pos[i]
  PROVE  Rows([l EXCEPT ![a] = RemoveAt(l[a], k)])'
<1> PICK s, new : s = l[a] /\ new = RemoveAt(s, k)
  OBVIOUS
<1>1. /\ s \in Seq(Items) /\ DOMAIN s = 1 .. Len(s) /\ Len(s) \in Nat
      /\ \A j \in In(a) : pos[j] \in 1 .. Len(s) /\ s[pos[j]] = j
      /\ \A j \in 1 .. Len(s) : s[j] \in In(a) /\ pos[s[j]] = j
  BY DEF Rows, Row
<1>2. k \in 1 .. Len(s) /\ s[k] = i /\ i \in Items
  BY <1>1 DEF In
<1>3. /\ new \in Seq(Items) /\ DOMAIN new = 1 .. Len(s) - 1
      /\ \A j \in 1 .. Len(s) - 1 : new[j] = IF j < k THEN s[j] ELSE s[j + 1]
  <2>1. new \in Seq(Items) /\ Len(new) = Len(s) - 1
    BY <1>1, <1>2, RemovedLen
  <2>2. \A j \in 1 .. Len(s) - 1 : new[j] = IF j < k THEN s[j] ELSE s[j + 1]
    BY <1>1, <1>2, RemovedAt
  <2> QED BY <2>1, <2>2
<1>4. /\ In(a)' = In(a) \ {i}
      /\ \A b \in Arrays : b # a => In(b)' = In(b) /\ i \notin In(b)
  BY ListAssumption DEF Leaves, In, ListType
<1>5. /\ \A j \in In(a) : j # i => pos'[j] = IF pos[j] > k THEN pos[j] - 1 ELSE pos[j]
      /\ \A b \in Arrays : b # a => \A j \in In(b) : pos'[j] = pos[j]
  BY <1>4 DEF Leaves, In
<1>6. ASSUME NEW j \in In(a)' PROVE pos'[j] \in DOMAIN new /\ new[pos'[j]] = j
  <2> PICK p : p = pos[j]
    OBVIOUS
  <2>1. j \in In(a) /\ j # i /\ p \in 1 .. Len(s) /\ s[p] = j /\ p # k
    BY <1>1, <1>2, <1>4
  <2>2. CASE p > k
    <3>1. pos'[j] = p - 1 /\ p - 1 \in 1 .. Len(s) - 1 /\ ~ (p - 1 < k) /\ p - 1 + 1 = p
      BY <1>1, <1>2, <1>5, <2>1, <2>2
    <3> QED BY <1>3, <2>1, <3>1
  <2>3. CASE ~ (p > k)
    <3>1. pos'[j] = p /\ p \in 1 .. Len(s) - 1 /\ p < k
      BY <1>1, <1>2, <1>5, <2>1, <2>3
    <3> QED BY <1>3, <2>1, <3>1
  <2> QED BY <2>2, <2>3
<1>7. ASSUME NEW j \in DOMAIN new PROVE new[j] \in In(a)' /\ pos'[new[j]] = j
  <2>1. CASE j < k
    <3>1. j \in 1 .. Len(s) /\ new[j] = s[j] /\ ~ (j > k) /\ j # k
      BY <1>1, <1>2, <1>3, <2>1
    <3>2. s[j] \in In(a) /\ pos[s[j]] = j /\ s[j] # i
      BY <1>1, <1>2, <3>1
    <3> QED BY <1>4, <1>5, <3>1, <3>2
  <2>2. CASE ~ (j < k)
    <3>1. j + 1 \in 1 .. Len(s) /\ new[j] = s[j + 1] /\ j + 1 > k /\ j + 1 - 1 = j /\ j + 1 # k
      BY <1>1, <1>2, <1>3, <2>2
    <3> PICK x : x = s[j + 1]
      OBVIOUS
    <3>2. x \in In(a) /\ pos[x] = j + 1 /\ x # i /\ new[j] = x
      BY <1>1, <1>2, <3>1
    <3>3. x \in In(a)' /\ pos'[x] = j
      BY <1>4, <1>5, <3>1, <3>2
    <3> QED BY <3>2, <3>3
  <2> QED BY <2>1, <2>2
<1>8. Row(a, new)'
  BY <1>3, <1>6, <1>7 DEF Row
<1> QED BY <1>3, <1>4, <1>5, <1>8, OtherRows

\* The replacement has the place of the item it replaces.
LEMMA ReplaceRows ==
  ASSUME ListType, NEW l, Rows(l), NEW a \in Arrays, NEW i \in In(a), NEW r \in Items,
         ReplaceItemViaPointer(a, i, r), NEW k, k = pos[i]
  PROVE  k \in DOMAIN l[a] /\ Rows([l EXCEPT ![a] = [l[a] EXCEPT ![k] = r]])'
<1> PICK s, new : s = l[a] /\ new = [s EXCEPT ![k] = r]
  OBVIOUS
<1>1. /\ s \in Seq(Items) /\ DOMAIN s = 1 .. Len(s) /\ Len(s) \in Nat
      /\ \A j \in In(a) : pos[j] \in 1 .. Len(s) /\ s[pos[j]] = j
      /\ \A j \in 1 .. Len(s) : s[j] \in In(a) /\ pos[s[j]] = j
  BY DEF Rows, Row
<1>2. k \in 1 .. Len(s) /\ s[k] = i /\ i \in Items
  BY <1>1 DEF In
<1>3. /\ new \in Seq(Items) /\ DOMAIN new = 1 .. Len(s)
      /\ \A j \in 1 .. Len(s) : new[j] = IF j = k THEN r ELSE s[j]
  BY <1>1, <1>2
<1>4. /\ r # i /\ r \notin In(a) /\ In(a)' = (In(a) \ {i}) \cup {r}
      /\ \A b \in Arrays : b # a => In(b)' = In(b) /\ i \notin In(b) /\ r \notin In(b)
  BY ListAssumption DEF ReplaceItemViaPointer, Held, In, ListType
<1>5. /\ pos'[r] = k
      /\ \A j \in Items : j # i /\ j # r => pos'[j] = pos[j]
  BY <1>2, <1>4 DEF ReplaceItemViaPointer, ListType
<1>6. ASSUME NEW j \in In(a)' PROVE pos'[j] \in DOMAIN new /\ new[pos'[j]] = j
  <2>1. CASE j = r
    BY <1>2, <1>3, <1>5, <2>1
  <2>2. CASE j # r
    <3> PICK p : p = pos[j]
      OBVIOUS
    <3>1. j \in In(a) /\ j # i /\ p \in 1 .. Len(s) /\ s[p] = j /\ p # k /\ j \in Items
      BY <1>1, <1>2, <1>4, <2>2 DEF In
    <3>2. pos'[j] = p
      BY <1>5, <2>2, <3>1
    <3> QED BY <1>3, <3>1, <3>2
  <2> QED BY <2>1, <2>2
<1>7. ASSUME NEW j \in DOMAIN new PROVE new[j] \in In(a)' /\ pos'[new[j]] = j
  <2>1. CASE j = k
    BY <1>2, <1>3, <1>4, <1>5, <2>1
  <2>2. CASE j # k
    <3> PICK x : x = s[j]
      OBVIOUS
    <3>1. x \in In(a) /\ pos[x] = j /\ x # i /\ x # r /\ new[j] = x /\ x \in Items
      BY <1>1, <1>2, <1>3, <1>4, <2>2 DEF In
    <3>2. x \in In(a)' /\ pos'[x] = j
      BY <1>4, <1>5, <3>1
    <3> QED BY <3>1, <3>2
  <2> QED BY <2>1, <2>2
<1>8. Row(a, new)'
  BY <1>3, <1>6, <1>7 DEF Row
<1>9. \A b \in Arrays : b # a => In(b)' = In(b) /\ \A j \in In(b) : pos'[j] = pos[j]
  BY <1>4, <1>5 DEF In
<1>10. Rows([l EXCEPT ![a] = new])'
  BY <1>3, <1>8, <1>9, OtherRows
<1>11. k \in DOMAIN s
  BY <1>1, <1>2
<1> QED BY <1>10, <1>11

\* The items of a new array are in the order in which they were made.
LEMMA CreateRows ==
  ASSUME ListType, NEW l, Rows(l), NEW a \in Arrays, NEW n \in Nat \ {0}, NEW s \in [1 .. n -> Items],
         NEW kind, IsInjective(s), CreateArray(a, s, kind)
  PROVE  l[a] = <<>> /\ Rows([l EXCEPT ![a] = s])'
<1> DEFINE At(i) == CHOOSE k \in 1 .. n : s[k] = i
<1>1. Len(s) = n /\ s \in Seq(Items) /\ DOMAIN s = 1 .. n
  OBVIOUS
<1>2. /\ In(a) = {}
      /\ \A i \in ToSet(s) : owner[i] = Nobody
      /\ owner' = [i \in Items |-> IF i \in ToSet(s) THEN a ELSE owner[i]]
      /\ pos' = [i \in Items |-> IF i \in ToSet(s) THEN At(i) ELSE pos[i]]
  BY <1>1 DEF CreateArray, Free
<1>3. \A k \in 1 .. n : s[k] \in ToSet(s) /\ s[k] \in Items /\ At(s[k]) = k
  <2>1. \A j, k \in 1 .. n : s[j] = s[k] => j = k
    BY DEF IsInjective
  <2> QED BY <1>1, <2>1 DEF ToSet
<1>4. \A i \in ToSet(s) : At(i) \in 1 .. n /\ s[At(i)] = i
  BY <1>1, <1>3 DEF ToSet
<1> HIDE DEF At
<1>5. In(a)' = ToSet(s) /\ \A i \in ToSet(s) : i \in Items /\ pos'[i] = At(i)
  <2>1. ToSet(s) \subseteq Items
    BY <1>1 DEF ToSet
  <2> QED BY <1>2, <2>1 DEF In
<1>6. Row(a, s)'
  BY <1>1, <1>3, <1>4, <1>5 DEF Row
<1>7. \A b \in Arrays : b # a => In(b)' = In(b) /\ \A i \in In(b) : pos'[i] = pos[i]
  BY <1>2, ListAssumption DEF In
<1>8. Rows([l EXCEPT ![a] = s])'
  BY <1>1, <1>6, <1>7, OtherRows
<1>9. l[a] = <<>>
  <2> PICK t : t = l[a]
    OBVIOUS
  <2>1. t \in Seq(Items) /\ \A k \in DOMAIN t : t[k] \in In(a)
    BY DEF Rows, Row
  <2>2. 1 \notin DOMAIN t
    BY <1>2, <2>1
  <2> QED BY <2>1, <2>2
<1> QED BY <1>8, <1>9

\* Who goes from the caller to nobody, or back, was in no array.
LEMMA SameRows ==
  ASSUME NEW l, Rows(l), \A a \in Arrays : In(a)' = In(a), pos' = pos
  PROVE  Rows(l)'
<1>1. ASSUME NEW a \in Arrays PROVE Row(a, l[a])'
  <2> PICK s : s = l[a]
    OBVIOUS
  <2>1. /\ s \in Seq(Items)
        /\ \A i \in In(a) : pos[i] \in DOMAIN s /\ s[pos[i]] = i
        /\ \A k \in DOMAIN s : s[k] \in In(a) /\ pos[s[k]] = k
    BY DEF Rows, Row
  <2>2. Row(a, s)'
    BY <2>1 DEF Row
  <2> QED BY <2>2
<1> QED BY <1>1 DEF Rows
-----------------------------------------------------------------------------
\* What the caller sees of a step is what it does to these sequences.
LEMMA Mapped ==
  ASSUME IInv, Mem, IInv', Mem', NEW l, Rows(l), NEW m, Rows(m)'
  PROVE  [a \in Arrays |-> Contents(a)] = l /\ [a \in Arrays |-> Contents(a)]' = m
BY ContentsAreRows DEF ListsAre

LEMMA EndIs == ASSUME IInv, NEW l, Rows(l), NEW a \in Arrays PROVE End(a) = Len(l[a]) + 1
<1> PICK s : s = l[a]
  OBVIOUS
<1>1. /\ s \in Seq(Items) /\ DOMAIN s = 1 .. Len(s) /\ Len(s) \in Nat
      /\ \A i \in In(a) : pos[i] \in 1 .. Len(s) /\ s[pos[i]] = i
      /\ \A k \in 1 .. Len(s) : s[k] \in In(a) /\ pos[s[k]] = k
  BY DEF Rows, Row
<1>2. CASE child[a] = NULL
  <2>1. In(a) = {}
    BY <1>2 DEF IInv, LinksOK, LastIsKnown
  <2>2. 1 \notin 1 .. Len(s)
    BY <1>1, <2>1
  <2>3. Len(s) = 0
    BY <1>1, <2>2
  <2> QED BY <1>2, <2>3 DEF End
<1>3. CASE child[a] # NULL
  <2> PICK p, t : t = prev[child[a]] /\ p = pos[t]
    OBVIOUS
  <2>1. t \in In(a) /\ child[a] \in In(a)
    BY <1>3 DEF IInv, LinksOK, LastIsKnown
  <2>2. p \in 1 .. Len(s)
    BY <1>1, <2>1
  <2>3. Len(s) \in 1 .. Len(s) /\ s[Len(s)] \in In(a) /\ pos[s[Len(s)]] = Len(s)
    BY <1>1, <2>2
  <2>4. pos[s[Len(s)]] \in 1 .. p
    BY <2>3 DEF IInv, LinksOK, InOneRow
  <2>5. p = Len(s)
    BY <1>1, <2>2, <2>3, <2>4
  <2> QED BY <1>3, <2>5 DEF End
<1> QED BY <1>2, <1>3

LEMMA Unlisted ==
  ASSUME NEW l, Rows(l), NEW i \in Items, owner[i] \notin Arrays
  PROVE  i \notin UNION {ToSet(l[b]) : b \in Arrays}
<1>1. ASSUME NEW b \in Arrays PROVE i \notin ToSet(l[b])
  <2> PICK s : s = l[b]
    OBVIOUS
  <2>1. \A k \in DOMAIN s : s[k] \in In(b)
    BY DEF Rows, Row
  <2>2. i \notin In(b)
    BY DEF In
  <2> QED BY <2>1, <2>2 DEF ToSet
<1> QED BY <1>1

\* An item the caller had is in an array, at place k.
LEMMA InsertMaps ==
  ASSUME IInv, Mem, IInv', Mem', NEW a \in Arrays, NEW i \in Held, NEW k, Enters(i, a, k),
         \A l : Rows(l) => k \in 1 .. Len(l[a]) + 1
  PROVE  Lists!Next
<1>1. PICK l : Rows(l)
  BY SomeRows DEF RowsExist
<1>2. k \in 1 .. Len(l[a]) + 1
  BY <1>1
<1>3. i \in Items /\ owner[i] = Caller /\ owner[i] \notin Arrays
  BY ListAssumption DEF Held, In
<1> PICK m : m = [l EXCEPT ![a] = InsertAt(l[a], k, i)]
  OBVIOUS
<1>4. Rows(m)'
  BY <1>1, <1>2, <1>3, EnterRows DEF IInv
<1>5. [b \in Arrays |-> Contents(b)] = l /\ [b \in Arrays |-> Contents(b)]' = m
  BY <1>1, <1>4, Mapped
<1>6. i \in Held /\ Held' = Held \ {i}
  BY <1>3, ListAssumption DEF Enters, Held, In, IInv, ListType
<1>7. Lists!Insert(a, k, i)
  BY <1>5, <1>6 DEF Lists!Insert, Lists!Take, Lists!Becomes, Lists!InsertAt, InsertAt
<1>8. [b \in Arrays |-> Contents(b)][a] = l[a]
  BY <1>5
<1> QED BY <1>2, <1>3, <1>7, <1>8 DEF Lists!Next

\* An item made for it is last in an array.
LEMMA AddMaps ==
  ASSUME IInv, Mem, IInv', Mem', NEW a \in Arrays, NEW i \in Items, Free(i), Enters(i, a, End(a))
  PROVE  Lists!Next
<1>1. PICK l : Rows(l)
  BY SomeRows DEF RowsExist
<1> PICK s, k : s = l[a] /\ k = Len(s) + 1
  OBVIOUS
<1>2. s \in Seq(Items) /\ k \in 1 .. Len(s) + 1 /\ Enters(i, a, k)
  BY <1>1, EndIs DEF Rows
<1>3. owner[i] = Nobody /\ owner[i] \notin Arrays
  BY ListAssumption DEF Free
<1> PICK m : m = [l EXCEPT ![a] = InsertAt(l[a], k, i)]
  OBVIOUS
<1>4. Rows(m)'
  BY <1>1, <1>2, <1>3, EnterRows DEF IInv
<1>5. [b \in Arrays |-> Contents(b)] = l /\ [b \in Arrays |-> Contents(b)]' = m
  BY <1>1, <1>4, Mapped
<1>6. i \notin Held /\ Held' = Held
  BY <1>3, ListAssumption DEF Enters, Held, In, IInv, ListType
<1>7. InsertAt(s, k, i) = Append(s, i)
  <2>1. InsertAt(s, k, i) \in Seq(Items) /\ Len(InsertAt(s, k, i)) = k
    BY <1>2, InsertedLen
  <2>2. \A j \in 1 .. k : InsertAt(s, k, i)[j] = IF j < k THEN s[j] ELSE IF j = k THEN i ELSE s[j - 1]
    BY <1>2, InsertedAt
  <2>3. Append(s, i) \in Seq(Items) /\ Len(Append(s, i)) = k /\ \A j \in 1 .. k : Append(s, i)[j] = IF j < k THEN s[j] ELSE i
    BY <1>2
  <2> QED BY <2>1, <2>2, <2>3
<1>8. i \notin UNION {ToSet(l[b]) : b \in Arrays}
  BY <1>1, <1>3, Unlisted
<1>9. Lists!Listed = UNION {ToSet(l[b]) : b \in Arrays}
  BY <1>5 DEF Lists!Listed, Lists!ToSet, ToSet
<1>10. Lists!Add(a, i)
  BY <1>5, <1>6, <1>7, <1>8, <1>9 DEF Lists!Add, Lists!Becomes
<1> QED BY <1>10 DEF Lists!Next

\* An item of an array is with the caller, or gone.
LEMMA RemoveMaps ==
  ASSUME IInv, Mem, IInv', Mem', NEW a \in Arrays, NEW i \in In(a), RemoveItem(a, i)
  PROVE  Lists!Next
<1>1. PICK l : Rows(l)
  BY SomeRows DEF RowsExist
<1>2. PICK to \in {Caller, Nobody} : Leaves(i, a, to)
  BY DEF RemoveItem, DetachItem, DeleteItem
<1> PICK k : k = pos[i]
  OBVIOUS
<1> PICK m : m = [l EXCEPT ![a] = RemoveAt(l[a], k)]
  OBVIOUS
<1>3. k \in DOMAIN l[a] /\ l[a][k] = i
  BY <1>1 DEF Rows, Row
<1>4. Rows(m)'
  <2>1. ListType
    BY DEF IInv
  <2>2. Rows([l EXCEPT ![a] = RemoveAt(l[a], k)])'
    BY <1>1, <1>2, <2>1, LeaveRows
  <2> QED BY <2>2
<1>5. [b \in Arrays |-> Contents(b)] = l /\ [b \in Arrays |-> Contents(b)]' = m
  BY <1>1, <1>4, Mapped
<1>6. Held' = IF to = Caller THEN Held \cup {i} ELSE Held
  BY <1>2, ListAssumption DEF Leaves, Held, In, IInv, ListType
<1>7. [b \in Arrays |-> Contents(b)][a] = l[a]
  BY <1>5
<1>8. Lists!Detach(a, k) \/ Lists!Drop(a, k)
  BY <1>2, <1>3, <1>5, <1>6 DEF Lists!Detach, Lists!Drop, Lists!Becomes, Lists!RemoveAt, RemoveAt
<1> QED BY <1>3, <1>7, <1>8 DEF Lists!Next

\* An item of the caller is where the item of an array was.
LEMMA ReplaceMaps ==
  ASSUME IInv, Mem, IInv', Mem', NEW a \in Arrays, NEW i \in In(a), NEW r \in Items,
         ReplaceItemViaPointer(a, i, r)
  PROVE  Lists!Next
<1>1. PICK l : Rows(l)
  BY SomeRows DEF RowsExist
<1> PICK k : k = pos[i]
  OBVIOUS
<1> PICK m : m = [l EXCEPT ![a] = [l[a] EXCEPT ![k] = r]]
  OBVIOUS
<1>2. k \in DOMAIN l[a] /\ Rows(m)'
  BY <1>1, ReplaceRows DEF IInv
<1>3. [b \in Arrays |-> Contents(b)] = l /\ [b \in Arrays |-> Contents(b)]' = m
  BY <1>1, <1>2, Mapped
<1>4. r \in Held /\ Held' = Held \ {r}
  BY ListAssumption DEF ReplaceItemViaPointer, Held, In, IInv, ListType
<1>5. [b \in Arrays |-> Contents(b)][a] = l[a]
  BY <1>3
<1>6. Lists!Replace(a, k, r)
  BY <1>3, <1>4 DEF Lists!Replace, Lists!Take, Lists!Becomes
<1> QED BY <1>2, <1>5, <1>6 DEF Lists!Next

\* A new array is filled in one step.
LEMMA FillMaps ==
  ASSUME IInv, Mem, IInv', Mem', NEW a \in Arrays, NEW n \in Nat \ {0}, NEW s \in [1 .. n -> Items],
         NEW kind, IsInjective(s), CreateArray(a, s, kind)
  PROVE  Lists!Next
<1>1. PICK l : Rows(l)
  BY SomeRows DEF RowsExist
<1> PICK m : m = [l EXCEPT ![a] = s]
  OBVIOUS
<1>2. l[a] = <<>> /\ Rows(m)'
  BY <1>1, CreateRows DEF IInv
<1>3. [b \in Arrays |-> Contents(b)] = l /\ [b \in Arrays |-> Contents(b)]' = m
  BY <1>1, <1>2, Mapped
<1>4. \A i \in ToSet(s) : i \in Items /\ owner[i] = Nobody
  BY DEF CreateArray, Free, ToSet
<1>5. Held' = Held /\ ToSet(s) \cap Held = {}
  BY <1>4, ListAssumption DEF CreateArray, Held, In
<1>6. Lists!Listed = UNION {ToSet(l[b]) : b \in Arrays}
  BY <1>3 DEF Lists!Listed, Lists!ToSet, ToSet
<1>7. \A i \in ToSet(s) : i \notin Lists!Listed
  BY <1>1, <1>4, <1>6, Unlisted, ListAssumption
<1>8. Lists!Fill(a, s)
  BY <1>2, <1>3, <1>5, <1>7 DEF Lists!Fill, Lists!Becomes, Lists!ToSet, ToSet, Lists!IsInjective, IsInjective
<1>9. [b \in Arrays |-> Contents(b)]'[a] = s
  BY <1>1, <1>3 DEF Rows
<1> QED BY <1>8, <1>9 DEF Lists!Next

\* Neither the arrays nor what the caller has.
LEMMA StayMaps ==
  ASSUME IInv, Mem, IInv', Mem', \A a \in Arrays : In(a)' = In(a), pos' = pos
  PROVE  [a \in Arrays |-> Contents(a)]' = [a \in Arrays |-> Contents(a)]
<1>1. PICK l : Rows(l)
  BY SomeRows DEF RowsExist
<1>2. Rows(l)'
  BY <1>1, SameRows
<1> QED BY <1>1, <1>2, Mapped

\* An item that the caller makes or deletes.
LEMMA OutsideMaps ==
  ASSUME IInv, Mem, IInv', Mem', NEW i \in Items, Delete(i) \/ \E kind \in Kinds : Create(i, kind)
  PROVE  Lists!Next
<1>1. PICK l : Rows(l)
  BY SomeRows DEF RowsExist
<1>2. /\ owner[i] \notin Arrays /\ pos' = pos
      /\ \/ owner[i] = Caller /\ owner' = [owner EXCEPT ![i] = Nobody]
         \/ owner[i] = Nobody /\ owner' = [owner EXCEPT ![i] = Caller]
  BY ListAssumption DEF Delete, Create, Moves, Free, Held, In
<1>3. \A a \in Arrays : In(a)' = In(a)
  BY <1>2, ListAssumption DEF In, IInv, ListType
<1>4. [b \in Arrays |-> Contents(b)] = l /\ [b \in Arrays |-> Contents(b)]' = [b \in Arrays |-> Contents(b)]
  <2>1. Rows(l)'
    BY <1>1, <1>2, <1>3, SameRows
  <2> QED BY <1>1, <2>1, Mapped
<1>5. i \notin Lists!Listed
  <2>1. Lists!Listed = UNION {ToSet(l[b]) : b \in Arrays}
    BY <1>4 DEF Lists!Listed, Lists!ToSet, ToSet
  <2> QED BY <1>1, <1>2, <2>1, Unlisted
<1>6. \/ i \in Held /\ Held' = Held \ {i}
      \/ i \notin Held /\ Held' = Held \cup {i}
  BY <1>2, ListAssumption DEF Held, In, IInv, ListType
<1>7. Lists!Create(i) \/ Lists!Delete(i)
  BY <1>4, <1>5, <1>6 DEF Lists!Create, Lists!Delete
<1> QED BY <1>7 DEF Lists!Next

LEMMA AppendMaps ==
  ASSUME IInv, Mem, IInv', Mem', NEW a \in Arrays, NEW i \in Held, Enters(i, a, End(a))
  PROVE  Lists!Next
<1> PICK k : k = End(a)
  OBVIOUS
<1>1. ASSUME NEW l, Rows(l) PROVE k \in 1 .. Len(l[a]) + 1
  <2>1. l[a] \in Seq(Items)
    BY <1>1 DEF Rows
  <2> QED BY <1>1, <2>1, EndIs
<1> QED BY <1>1, InsertMaps

\* In the middle or at the end.
LEMMA InsertActionMaps ==
  ASSUME IInv, Mem, IInv', Mem', NEW a \in Arrays, NEW which, NEW i \in Items, InsertItemInArray(a, which, i)
  PROVE  Lists!Next
<1> DEFINE t == get_array_item(a, which)
<1> HIDE DEF t
<1>1. i \in Held
  BY DEF InsertItemInArray
<1>2. CASE t \notin In(a)
  BY <1>1, <1>2, AppendMaps DEF InsertItemInArray, t
<1>3. CASE t \in In(a)
  <2> PICK k : k = pos[t]
    OBVIOUS
  <2>1. Enters(i, a, k)
    BY <1>3 DEF InsertItemInArray, t
  <2>2. ASSUME NEW l, Rows(l) PROVE k \in 1 .. Len(l[a]) + 1
    <3>1. k \in DOMAIN l[a] /\ l[a] \in Seq(Items)
      BY <1>3, <2>2 DEF Rows, Row
    <3> QED BY <3>1
  <2> QED BY <1>1, <2>1, <2>2, InsertMaps
<1> QED BY <1>2, <1>3

\* Each step of the code is a step of the sequences, or none.
LEMMA NextMaps ==
  IInv /\ Mem /\ IInv' /\ Mem' /\ [Next]_vars
    => [Lists!Next]_(<<[a \in Arrays |-> Contents(a)], Held>>)
<1> DEFINE Step == [Lists!Next]_(<<[a \in Arrays |-> Contents(a)], Held>>)
<1> SUFFICES ASSUME IInv, Mem, IInv', Mem', [Next]_vars PROVE Step
  OBVIOUS
<1>0. CASE UNCHANGED history
  <2>1. Held' = Held /\ (\A a \in Arrays : In(a)' = In(a)) /\ pos' = pos
    BY <1>0 DEF history, Held, In
  <2> QED BY <2>1, StayMaps
<1>1. ASSUME NEW i \in Items, Delete(i) \/ \E kind \in Kinds : Create(i, kind) PROVE Lists!Next
  BY <1>1, OutsideMaps
<1>2. ASSUME NEW a \in Arrays, NEW n \in 1 .. Cardinality(Items), NEW s \in [1 .. n -> Items],
             NEW kind \in {"none", "own"}, IsInjective(s), CreateArray(a, s, kind)
      PROVE  Lists!Next
  <2>1. n \in Nat \ {0}
    OBVIOUS
  <2> QED BY <1>2, <2>1, FillMaps
<1>3. ASSUME NEW a \in Arrays, NEW i \in Items, NEW name \in Names, NEW const \in BOOLEAN,
             AddItemToObject(a, name, i, const)
      PROVE  Lists!Next
  BY <1>3, AppendMaps DEF AddItemToObject
<1>4. ASSUME NEW a \in Arrays, NEW i \in Items, NEW name \in Names, NEW kind \in {"none", "own"},
             AddNewToObject(a, name, i, kind)
      PROVE  Lists!Next
  BY <1>4, AddMaps DEF AddNewToObject
<1>5. ASSUME NEW a \in Arrays, NEW r \in Items, NEW name \in Names, NEW case_sensitive \in BOOLEAN,
             ReplaceItemInObject(a, name, r, case_sensitive)
      PROVE  Step
  <2> DEFINE i == get_object_item(a, name, case_sensitive)
  <2> HIDE DEF i
  <2>1. UNCHANGED history \/ (i \in In(a) /\ ReplaceItemViaPointer(a, i, r))
    BY <1>5 DEF ReplaceItemInObject, i
  <2>2. CASE i \in In(a) /\ ReplaceItemViaPointer(a, i, r)
    BY <2>2, ReplaceMaps
  <2> QED BY <1>0, <2>1, <2>2
<1>6. ASSUME NEW a \in Arrays, NEW i \in Items, AddItemToArray(a, i) \/ (i \in In(a) /\ RemoveItem(a, i))
      PROVE  Lists!Next
  BY <1>6, AppendMaps, RemoveMaps DEF AddItemToArray
<1>7. ASSUME NEW a \in Arrays, NEW which, NEW r \in Items,
             InsertItemInArray(a, which, r) \/ ReplaceItemInArray(a, which, r)
      PROVE  Lists!Next
  BY <1>7, InsertActionMaps, ReplaceMaps DEF ReplaceItemInArray
<1>8. ASSUME NEW a \in Arrays, NEW i \in In(a), RemoveItem(a, i) PROVE Lists!Next
  BY <1>8, RemoveMaps
<1>9. ASSUME NEW r \in Items, NEW i \in Items, LoseReference(r, i) PROVE Step
  BY <1>0, <1>9 DEF LoseReference
<1>10. ASSUME NEW r \in Items, NEW i \in Items, NEW a \in Arrays,
              \/ AddItemReferenceToArray(a, r, i)
              \/ \E name \in Names : AddItemReferenceToObject(a, name, r, i)
       PROVE  Lists!Next
  BY <1>10, AddMaps DEF AddItemReferenceToArray, AddItemReferenceToObject, create_reference, Shares
<1>11. CASE UNCHANGED vars
  BY <1>0, <1>11 DEF vars, history
<1>12. CASE Next
  <2> HIDE DEF Step
  <2>1. Lists!Next \/ Step
    BY <1>1, <1>2, <1>3, <1>4, <1>5, <1>6, <1>7, <1>8, <1>9, <1>10, <1>12
    DEF Next, DetachItemFromArray, DetachItemFromObject
  <2> QED BY <2>1 DEF Step
<1> QED BY <1>11, <1>12

LEMMA InitMaps == Init => Lists!Init
<1> SUFFICES ASSUME Init PROVE Lists!Init
  OBVIOUS
<1>1. IInv /\ Mem
  BY InitLinks, InitMem
<1>2. \A a \in Arrays : In(a) = {}
  BY ListAssumption DEF Init, In
<1>3. Rows([a \in Arrays |-> <<>>])
  <2>1. <<>> \in Seq(Items) /\ DOMAIN <<>> = {}
    OBVIOUS
  <2> QED BY <1>2, <2>1 DEF Rows, Row
<1>4. [a \in Arrays |-> Contents(a)] = [a \in Arrays |-> <<>>]
  BY <1>1, <1>3, ContentsAreRows DEF ListsAre
<1>5. Held = {}
  BY ListAssumption DEF Init, Held, In
<1> QED BY <1>4, <1>5 DEF Lists!Init

\* Whatever the order of the edits, and on any number of arrays and items, each
\* is to the children of the arrays one edit of a sequence, at some place, that
\* leaves the others in their order, and an item is in one list, with the
\* caller, or nowhere.
THEOREM ListsAreSequences == Spec => ImplementsLists
<1>1. Init => IInv /\ Mem
  BY InitLinks, InitMem
<1>2. IInv /\ Mem /\ [Next]_vars => IInv' /\ Mem'
  BY NextKeepsLinks, NextKeepsMem DEF IInv
<1> QED BY <1>1, <1>2, InitMaps, NextMaps, PTL DEF Spec, ImplementsLists, Lists!Spec
=============================================================================
