------------------------------ MODULE CJsonList ------------------------------
(***************************************************************************)
(* cJSON.c: the functions that build and edit the children of an array or  *)
(* an object.                                                              *)
(*                                                                         *)
(* The children hang from child, linked by next and prev; the prev of the  *)
(* first is the last.  Items here have no children.  Memory is the items   *)
(* that are allocated and the strings they own: any copy of a string may   *)
(* be the one that fails.  The caller keeps to the contract: it passes an  *)
(* item that no list holds, or one of that list.                           *)
(***************************************************************************)
EXTENDS Naturals, Sequences, SequencesExt, FiniteSets

CONSTANTS
  Arrays, Items, NULL,
  Caller, Nobody,   \* who else can own an item
  Names, Fold       \* the names, and what tolower makes of each

ASSUME ListAssumption ==
  /\ NULL \notin Items
  /\ Caller \notin Arrays /\ Nobody \notin Arrays /\ Caller # Nobody
  /\ Fold \in [Names -> Names]
ASSUME NamesAssumption == NULL \notin Names

VARIABLES
  child,      \* the first item of each array
  next, prev,
  heap,       \* the items that are allocated
  string,     \* the name of an item, or NULL
  constant,   \* cJSON_StringIsConst
  value,      \* its valuestring: "none", "own" or "shared" (cJSON_IsReference)
  strings,    \* how many strings are allocated
  owner,      \* history: the array, the caller, or nobody
  pos         \* history: the place in the array, from 1, or 0

links == <<child, next, prev>>
texts == <<string, constant, value>>
vars == <<child, next, prev, heap, string, constant, value, strings, owner, pos>>
history == <<owner, pos>>

Init ==
  /\ child = [a \in Arrays |-> NULL]
  /\ next = [i \in Items |-> NULL] /\ prev = [i \in Items |-> NULL]
  /\ heap = {}
  /\ string = [i \in Items |-> NULL] /\ constant = [i \in Items |-> FALSE]
  /\ value = [i \in Items |-> "none"]
  /\ strings = 0
  /\ owner = [i \in Items |-> Nobody] /\ pos = [i \in Items |-> 0]

\* The children, met along next.
Along(a) ==
  LET cell[n \in 0 .. Cardinality(heap)] ==
        IF n = 0 THEN child[a] ELSE IF cell[n - 1] = NULL THEN NULL ELSE next[cell[n - 1]]
  IN  cell
Contents(a) ==
  LET cell == Along(a)
  IN  [k \in 1 .. Cardinality({n \in DOMAIN cell : cell[n] # NULL}) |-> cell[k - 1]]

get_array_item(a, which) == IF which \in DOMAIN Along(a) THEN Along(a)[which] ELSE NULL

get_object_item(a, name, case_sensitive) ==
  LET Stops(i) == IF case_sensitive THEN string[i] \in {NULL, name}
                  ELSE string[i] # NULL /\ Fold[string[i]] = Fold[name]
      k == SelectInSeq(Contents(a), Stops)
  IN  IF k = 0 THEN NULL ELSE IF string[Contents(a)[k]] = NULL THEN NULL ELSE Contents(a)[k]
-----------------------------------------------------------------------------
\* The links.

\* Mutant of add_item_to_array: the last item is not recorded in the first.
add_item_to_array_NoTail(a, i) ==
  LET first == child[a]
      last == IF first = NULL THEN NULL ELSE prev[first]
  IN  /\ child' = [child EXCEPT ![a] = IF first = NULL THEN i ELSE first]
      /\ next' = [j \in Items |-> IF j = i /\ first = NULL THEN NULL
                                  ELSE IF j = last THEN i ELSE next[j]]
      /\ prev' = [prev EXCEPT ![i] = IF first = NULL THEN i ELSE last]

\* Appended by way of the prev of the first; next of the item is not written
\* unless the list was empty.
add_item_to_array(a, i) ==
  LET first == child[a]
      last == IF first = NULL THEN NULL ELSE prev[first]
  IN  /\ child' = [child EXCEPT ![a] = IF first = NULL THEN i ELSE first]
      /\ next' = [j \in Items |-> IF j = i /\ first = NULL THEN NULL
                                  ELSE IF j = last THEN i ELSE next[j]]
      /\ prev' = [j \in Items |-> IF first = NULL THEN IF j = i THEN i ELSE prev[j]
                                  ELSE IF last = NULL THEN prev[j]
                                  ELSE IF j = first THEN i ELSE IF j = i THEN last ELSE prev[j]]

\* Mutant of DetachItemViaPointer: detaching the last leaves the prev of the first.
DetachItemViaPointer_OldTail(a, i) ==
  /\ child' = [child EXCEPT ![a] = IF i = @ THEN next[i] ELSE @]
  /\ next' = [j \in Items |-> IF j = i THEN NULL
                              ELSE IF i # child[a] /\ j = prev[i] THEN next[i] ELSE next[j]]
  /\ prev' = [j \in Items |-> IF j = i THEN NULL ELSE IF j = next[i] THEN prev[i] ELSE prev[j]]

DetachItemViaPointer(a, i) ==
  /\ child' = [child EXCEPT ![a] = IF i = @ THEN next[i] ELSE @]
  /\ next' = [j \in Items |-> IF j = i THEN NULL
                              ELSE IF i # child[a] /\ j = prev[i] THEN next[i] ELSE next[j]]
  /\ prev' = [j \in Items |->
                IF j = i THEN NULL
                ELSE IF j = next[i] \/ (next[i] = NULL /\ j = child[a]) THEN prev[i] ELSE prev[j]]

\* Before the item that is at that place.
insert_before(a, after_inserted, i) ==
  /\ child' = [child EXCEPT ![a] = IF after_inserted = @ THEN i ELSE @]
  /\ next' = [j \in Items |->
                IF j = i THEN after_inserted
                ELSE IF after_inserted # child[a] /\ j = prev[after_inserted] THEN i ELSE next[j]]
  /\ prev' = [j \in Items |-> IF j = i THEN prev[after_inserted]
                              ELSE IF j = after_inserted THEN i ELSE prev[j]]

replace(a, i, replacement) ==
  /\ child' = [child EXCEPT ![a] = IF i = @ THEN replacement ELSE @]
  /\ next' = [j \in Items |->
                IF j = i THEN NULL ELSE IF j = replacement THEN next[i]
                ELSE IF i # child[a] /\ j = prev[i] THEN replacement ELSE next[j]]
  /\ prev' = [j \in Items |->
                IF j = i THEN NULL
                ELSE IF j = replacement
                     THEN IF i = child[a] /\ prev[i] = i THEN replacement ELSE prev[i]
                ELSE IF j = next[i] \/ (next[i] = NULL /\ j = child[a]) THEN replacement
                ELSE prev[j]]
-----------------------------------------------------------------------------
\* The items and their strings.
Owned(i) == (IF string[i] # NULL /\ ~ constant[i] THEN 1 ELSE 0) + (IF value[i] = "own" THEN 1 ELSE 0)

New(i, kind) ==
  /\ string' = [string EXCEPT ![i] = NULL] /\ constant' = [constant EXCEPT ![i] = FALSE]
  /\ value' = [value EXCEPT ![i] = kind]
  /\ heap' = heap \cup {i}

\* What was in the item is not told any more.
Blank(i) ==
  /\ heap' = heap \ {i}
  /\ value' = [value EXCEPT ![i] = "none"]
cJSON_Delete(i) ==
  /\ Blank(i) /\ strings' = strings - Owned(i)
  /\ string' = [string EXCEPT ![i] = NULL] /\ constant' = [constant EXCEPT ![i] = FALSE]

\* Mutant of SetName: the old name is not freed.
SetName_Leak(i, name, const) ==
  /\ string' = [string EXCEPT ![i] = name] /\ constant' = [constant EXCEPT ![i] = const]
  /\ strings' = strings + (IF const THEN 0 ELSE 1)
  /\ UNCHANGED <<heap, value>>

\* The name of an item, freed if the item owns it, becomes another: a constant,
\* or a copy.
SetName(i, name, const) ==
  /\ string' = [string EXCEPT ![i] = name] /\ constant' = [constant EXCEPT ![i] = const]
  /\ strings' = strings + (IF const THEN 0 ELSE 1) - (IF string[i] # NULL /\ ~ constant[i] THEN 1 ELSE 0)
  /\ UNCHANGED <<heap, value>>

Free(i) == i \in Items \ heap /\ owner[i] = Nobody
In(a) == {i \in Items : owner[i] = a}
Held == In(Caller)
Moves(i, to) == owner' = [owner EXCEPT ![i] = to] /\ UNCHANGED pos
Enters(i, a, k) ==
  /\ owner' = [owner EXCEPT ![i] = a]
  /\ pos' = [j \in Items |-> IF j = i THEN k
                             ELSE IF j \in In(a) /\ pos[j] >= k THEN pos[j] + 1 ELSE pos[j]]
Leaves(i, a, to) ==
  /\ owner' = [owner EXCEPT ![i] = to]
  /\ pos' = [j \in Items |-> IF j = i THEN 0
                             ELSE IF j \in In(a) /\ pos[j] > pos[i] THEN pos[j] - 1 ELSE pos[j]]
End(a) == IF child[a] = NULL THEN 1 ELSE pos[prev[child[a]]] + 1

\* cJSON_CreateNull and the others: some have a valuestring of their own, or
\* one that belongs to somebody else.  One that cannot be copied leaves nothing.
Create(i, kind) ==
  /\ Free(i)
  /\ New(i, kind)
  /\ strings' = strings + (IF kind = "own" THEN 1 ELSE 0)
  /\ Moves(i, Caller)
  /\ UNCHANGED links

Delete(i) == i \in Held /\ cJSON_Delete(i) /\ Moves(i, Nobody) /\ UNCHANGED links

\* The four functions that make an array of C values: the links are written as
\* the items are made, the prev of the first after the last of them.  One item
\* that cannot be made leaves nothing.
CreateArray(a, s, kind) ==
  LET n == Len(s)
      At(i) == CHOOSE k \in 1 .. n : s[k] = i
  IN  /\ child[a] = NULL /\ In(a) = {} /\ n > 0 /\ \A i \in ToSet(s) : Free(i)
      /\ child' = [child EXCEPT ![a] = s[1]]
      /\ next' = [i \in Items |-> IF i \notin ToSet(s) THEN next[i]
                                  ELSE IF At(i) = n THEN NULL ELSE s[At(i) + 1]]
      /\ prev' = [i \in Items |-> IF i \notin ToSet(s) THEN prev[i]
                                  ELSE IF At(i) = 1 THEN s[n] ELSE s[At(i) - 1]]
      /\ string' = [i \in Items |-> IF i \in ToSet(s) THEN NULL ELSE string[i]]
      /\ constant' = [i \in Items |-> IF i \in ToSet(s) THEN FALSE ELSE constant[i]]
      /\ value' = [i \in Items |-> IF i \in ToSet(s) THEN kind ELSE value[i]]
      /\ heap' = heap \cup ToSet(s)
      /\ owner' = [i \in Items |-> IF i \in ToSet(s) THEN a ELSE owner[i]]
      /\ pos' = [i \in Items |-> IF i \in ToSet(s) THEN At(i) ELSE pos[i]]
      /\ strings' = strings + (IF kind = "own" THEN n ELSE 0)

AddItemToArray(a, i) ==
  i \in Held /\ add_item_to_array(a, i) /\ Enters(i, a, End(a)) /\ UNCHANGED <<heap, texts, strings>>

\* When its name cannot be copied nothing changes.
AddItemToObject(a, name, i, const) ==
  i \in Held /\ SetName(i, name, const) /\ add_item_to_array(a, i) /\ Enters(i, a, End(a))

\* cJSON_AddNullToObject and the others: a new item, deleted if it cannot be
\* added.
AddNewToObject(a, name, i, kind) ==
  /\ Free(i)
  /\ string' = [string EXCEPT ![i] = name] /\ constant' = [constant EXCEPT ![i] = FALSE]
  /\ value' = [value EXCEPT ![i] = kind]
  /\ heap' = heap \cup {i}
  /\ strings' = strings + (IF kind = "own" THEN 2 ELSE 1)
  /\ add_item_to_array(a, i) /\ Enters(i, a, End(a))

\* A copy of an item that owns nothing: its value is the other's.
Shares(reference, i) ==
  /\ Free(reference) /\ i \in heap
  /\ value' = [value EXCEPT ![reference] = IF value[i] = "none" THEN "none" ELSE "shared"]
  /\ heap' = heap \cup {reference}

\* Without the name of the item.
create_reference(reference, i) ==
  /\ Shares(reference, i)
  /\ string' = [string EXCEPT ![reference] = NULL]
  /\ constant' = [constant EXCEPT ![reference] = constant[i]]

AddItemReferenceToArray(a, reference, i) ==
  /\ create_reference(reference, i)
  /\ add_item_to_array(a, reference) /\ Enters(reference, a, End(a))
  /\ UNCHANGED strings

\* The reference gets a copy of a name of its own.
AddItemReferenceToObject(a, name, reference, i) ==
  /\ Shares(reference, i)
  /\ string' = [string EXCEPT ![reference] = name] /\ constant' = [constant EXCEPT ![reference] = FALSE]
  /\ strings' = strings + 1
  /\ add_item_to_array(a, reference) /\ Enters(reference, a, End(a))

\* When that name cannot be copied the reference is nobody's.
LoseReference(reference, i) ==
  create_reference(reference, i) /\ UNCHANGED <<links, strings, history>>

DetachItem(a, i) ==
  DetachItemViaPointer(a, i) /\ Leaves(i, a, Caller) /\ UNCHANGED <<heap, texts, strings>>

\* Mutant of DeleteItem: the detached item is not deleted.
DeleteItem_Keep(a, i) ==
  DetachItemViaPointer(a, i) /\ Leaves(i, a, Nobody) /\ UNCHANGED <<heap, texts, strings>>

DeleteItem(a, i) ==
  DetachItemViaPointer(a, i) /\ cJSON_Delete(i) /\ Leaves(i, a, Nobody)

\* Detached or deleted: by pointer, by place, by name.
RemoveItem(a, i) == DetachItem(a, i) \/ DeleteItem(a, i)
DetachItemFromArray(a, which) ==
  \E i \in In(a) : i = get_array_item(a, which) /\ RemoveItem(a, i)
DetachItemFromObject(a, name, case_sensitive) ==
  \E i \in In(a) : i = get_object_item(a, name, case_sensitive) /\ RemoveItem(a, i)

InsertItemInArray(a, which, i) ==
  LET after_inserted == get_array_item(a, which)
  IN  /\ i \in Held
      /\ IF after_inserted \notin In(a) THEN add_item_to_array(a, i) /\ Enters(i, a, End(a))
         ELSE /\ after_inserted = child[a] \/ prev[after_inserted] # NULL
              /\ insert_before(a, after_inserted, i) /\ Enters(i, a, pos[after_inserted])
      /\ UNCHANGED <<heap, texts, strings>>

\* The item that was there is deleted.
ReplaceItemViaPointer(a, i, replacement) ==
  /\ replacement \in Held
  /\ replace(a, i, replacement)
  /\ owner' = [owner EXCEPT ![replacement] = a, ![i] = Nobody]
  /\ pos' = [pos EXCEPT ![replacement] = pos[i], ![i] = 0]

ReplaceItemInArray(a, which, replacement) ==
  \E i \in In(a) : i = get_array_item(a, which) /\ ReplaceItemViaPointer(a, i, replacement) /\ cJSON_Delete(i)

\* The replacement takes the name, whether it then finds an item or not; a name
\* that cannot be copied leaves it none.
ReplaceItemInObject(a, name, replacement, case_sensitive) ==
  LET i == get_object_item(a, name, case_sensitive)
      freed == IF string[replacement] # NULL /\ ~ constant[replacement] THEN 1 ELSE 0
  IN  /\ replacement \in Held
      /\ \/ /\ string' = [string EXCEPT ![replacement] = NULL]
            /\ strings' = strings - freed
            /\ UNCHANGED <<links, heap, constant, value, history>>
         \/ i \notin In(a) /\ SetName(replacement, name, FALSE) /\ UNCHANGED <<links, history>>
         \/ /\ i \in In(a) /\ ReplaceItemViaPointer(a, i, replacement)
            /\ string' = [string EXCEPT ![replacement] = name, ![i] = NULL]
            /\ constant' = [constant EXCEPT ![replacement] = FALSE, ![i] = FALSE]
            /\ strings' = strings + 1 - freed - Owned(i)
            /\ Blank(i)

Kinds == {"none", "own", "shared"}

Next ==
  \/ \E i \in Items : Delete(i) \/ \E kind \in Kinds : Create(i, kind)
  \/ \E a \in Arrays, n \in 1 .. Cardinality(Items) :
       \E s \in [1 .. n -> Items], kind \in {"none", "own"} : IsInjective(s) /\ CreateArray(a, s, kind)
  \/ \E a \in Arrays, i \in Items, name \in Names :
       \/ \E const \in BOOLEAN : AddItemToObject(a, name, i, const)
       \/ \E kind \in {"none", "own"} : AddNewToObject(a, name, i, kind)
       \/ \E case_sensitive \in BOOLEAN : ReplaceItemInObject(a, name, i, case_sensitive)
  \/ \E a \in Arrays, i \in Items : AddItemToArray(a, i) \/ (i \in In(a) /\ RemoveItem(a, i))
  \/ \E a \in Arrays, which \in 0 .. Cardinality(Items), i \in Items :
       InsertItemInArray(a, which, i) \/ ReplaceItemInArray(a, which, i)
  \/ \E a \in Arrays, which \in 0 .. Cardinality(Items) : DetachItemFromArray(a, which)
  \/ \E a \in Arrays, name \in Names, case_sensitive \in BOOLEAN : DetachItemFromObject(a, name, case_sensitive)
  \/ \E reference \in Items, i \in Items :
       \/ LoseReference(reference, i)
       \/ \E a \in Arrays :
            \/ AddItemReferenceToArray(a, reference, i)
            \/ \E name \in Names : AddItemReferenceToObject(a, name, reference, i)

Spec == Init /\ [][Next]_vars
-----------------------------------------------------------------------------
\* The links of a list mirror each other: next and prev of neighbours, and the
\* prev of the first is the one and only last, which appending goes by.  Walking
\* along next meets every item of the list, each once.  An item outside the
\* lists has no links, as appending relies on: it does not write next.
LastIsKnown(a) ==
  IF child[a] = NULL THEN In(a) = {}
  ELSE child[a] \in In(a) /\ prev[child[a]] \in In(a) /\ next[prev[child[a]]] = NULL
Mirrored(a) ==
  \A i \in In(a) :
    /\ i # child[a] => prev[i] \in In(a) /\ next[prev[i]] = i
    /\ next[i] # NULL => next[i] \in In(a) /\ prev[next[i]] = i /\ next[i] # child[a]
    /\ next[i] = NULL => prev[child[a]] = i
InOneRow(a) ==
  \A i \in In(a) :
    /\ pos[i] \in 1 .. pos[prev[child[a]]]
    /\ i = child[a] <=> pos[i] = 1
    /\ next[i] # NULL => pos[next[i]] = pos[i] + 1
    /\ \A j \in In(a) : pos[i] = pos[j] => i = j
Loose == \A i \in Items : owner[i] \notin Arrays => next[i] = NULL /\ prev[i] = NULL
LinksOK == Loose /\ \A a \in Arrays : LastIsKnown(a) /\ Mirrored(a) /\ InOneRow(a)

\* Every edit is, to the children of each array, one edit of a sequence: an item
\* appended, put in at one place, taken out of one place or put in the place of
\* one, and the others stay in their order.  Which place the lookups by place
\* and by name give (get_array_item, get_object_item) is not part of it.
Lists == INSTANCE JsonLists WITH lists <- [a \in Arrays |-> Contents(a)], held <- Held
ImplementsLists == Lists!Spec

\* An item is allocated as long as somebody can reach it, and no longer; only a
\* reference can be lost.  Every name and every value is freed once, with its
\* item or when it is replaced.
FreedOnce ==
  /\ \A i \in Items :
       /\ owner[i] # Nobody => i \in heap
       /\ i \in heap /\ owner[i] = Nobody => value[i] # "own"
  /\ strings = FoldFunction(LAMBDA n, m : n + m, 0, [i \in heap |-> Owned(i)])
=============================================================================
