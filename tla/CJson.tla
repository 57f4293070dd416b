------------------------------- MODULE CJson -------------------------------
(***************************************************************************)
(* A caller of cJSON.c: it parses a text (as it came, or minified), prints *)
(* the item, parses what it printed, copies the item and compares the two. *)
(* Any allocation may be the one that fails: the memory has some number of *)
(* blocks, and no more.                                                    *)
(*                                                                         *)
(* A document is [text, item, kind, clean, escaped]: its bytes, what was   *)
(* written into it, whether it is JSON, JSON with comments or neither,     *)
(* whether nothing follows the value, whether a backslash is escaped in it.*)
(***************************************************************************)
EXTENDS CJsonItems

CONSTANTS Documents, Budgets, Lengths

VARIABLES doc,     \* the document
          text,    \* its text, minified or not
          phase,   \* what was done last
          item,    \* the parsed item
          result   \* the outcome of the last call
vars == <<doc, text, phase, item, result>>

Outcome(ok, live, over, it, s) == [ok |-> ok, live |-> live, over |-> over, item |-> it, text |-> s]
OfParse(p) == Outcome(p.ok, p.live, p.over, IF p.ok THEN p.item ELSE NoItem, <<>>)
OfPrint(o) == Outcome(o.ok, o.live, o.over, NoItem, IF o.ok THEN CString(o.buf) ELSE <<>>)

Init ==
  /\ doc \in Documents
  /\ text = doc.text
  /\ phase = "text"
  /\ item = NoItem
  /\ result = Outcome(TRUE, 0, FALSE, NoItem, <<>>)

Minify ==
  /\ phase = "text"
  /\ text' = cJSON_Minify(text)
  /\ phase' = "minified"
  /\ UNCHANGED <<doc, item, result>>

Parse(blocks, require) ==
  /\ phase \in {"text", "minified"}
  /\ result' = OfParse(cJSON_ParseWithOpts(text, require, blocks))
  /\ item' = result'.item
  /\ phase' = IF require THEN "required" ELSE "parsed"
  /\ UNCHANGED <<doc, text>>

Parsed == phase \in {"parsed", "required"} /\ result.ok

PrintItem(blocks, format) ==
  /\ Parsed
  /\ result' = OfPrint(print(item, format, blocks))
  /\ phase' = "printed"
  /\ UNCHANGED <<doc, text, item>>

PrintBuffered(blocks, prebuffer, format) ==
  /\ Parsed
  /\ result' = OfPrint(cJSON_PrintBuffered(item, prebuffer, format, blocks))
  /\ phase' = "printed"
  /\ UNCHANGED <<doc, text, item>>

\* Into a buffer so many bytes longer than the text and its NUL.
PrintPreallocated(spare, format) ==
  /\ Parsed
  /\ LET size == Len(CString(print(item, format, 100).buf)) + 1 + spare
     IN  result' = OfPrint(cJSON_PrintPreallocated(item, size, format))
  /\ phase' = IF spare >= 5 THEN "preallocated" ELSE "tight"
  /\ UNCHANGED <<doc, text, item>>

ParseAgain ==
  /\ phase \in {"printed", "preallocated", "tight"} /\ result.ok
  /\ result' = OfParse(cJSON_Parse(result.text))
  /\ phase' = "again"
  /\ UNCHANGED <<doc, text, item>>

Duplicate(blocks) ==
  /\ Parsed
  /\ result' = OfParse(cJSON_Duplicate(item,
       [live |-> 0, left |-> blocks, over |-> FALSE, ok |-> TRUE, item |-> NoItem]))
  /\ phase' = "copied"
  /\ UNCHANGED <<doc, text, item>>

Next ==
  \/ Minify
  \/ \E n \in Budgets, r \in BOOLEAN : Parse(n, r)
  \/ \E n \in Budgets, f \in BOOLEAN : PrintItem(n, f)
  \/ \E n \in Budgets, l \in Lengths, f \in BOOLEAN : PrintBuffered(n, l, f)
  \/ \E s \in {-1, 0, 1, 5}, f \in BOOLEAN : PrintPreallocated(s, f)
  \/ ParseAgain
  \/ \E n \in Budgets : Duplicate(n)

Spec == Init /\ [][Next]_vars
-----------------------------------------------------------------------------
Plenty == 100
Holds(r) ==
  IF ~ r.ok \/ phase \in {"text", "minified", "preallocated", "tight"} THEN 0
  ELSE IF phase = "printed" THEN 1 ELSE Blocks(r.item)

\* Whichever allocation fails, wherever the text stops making sense, what was
\* allocated on the way is freed; and a call that succeeds leaves what its
\* result holds and nothing else.
NoLeak == result.live = Holds(result)

\* Nothing is ever written past the block it goes to: parse_string and the
\* printers measure first and write later, and each counts the escapes its own
\* way.
NoOverrun == ~ result.over

MinifiedValue == OfParse(cJSON_Parse(text)).item = doc.item

\* A parse that succeeds found what was written, and nothing that is not
\* well-formed passes: no text that stops in the middle of a value is taken
\* for a shorter value.  Memory is the only reason to refuse a well-formed
\* text.  Without its blanks and comments a text has the value it had, as long
\* as it has no escaped backslash, after which cJSON_Minify takes the quote
\* that ends a string for an escaped one.
AsWritten ==
  /\ phase \in {"parsed", "required"} /\ text = doc.text /\ result.ok =>
       doc.kind = "JSON" /\ item = doc.item /\ (phase = "required" => doc.clean)
  /\ phase = "text" /\ doc.kind = "JSON" =>
       \A r \in {FALSE, doc.clean} : cJSON_ParseWithOpts(text, r, Plenty).ok
  /\ phase = "minified" /\ doc.kind # "bad" /\ ~ doc.escaped => MinifiedValue

\* What is printed, in either format and from a buffer that grows, reads back
\* as the item it was printed from; and, as the note at cJSON.h:162 says, five
\* bytes more than the text needs are enough for a buffer of the caller's.
ReadsBack ==
  /\ phase = "again" => result.ok /\ result.item = item
  /\ phase = "preallocated" => result.ok

RECURSIVE UniqueNames(_)
UniqueNames(it) ==
  /\ \A i, j \in DOMAIN it.child :
       it.type = "Object" /\ i # j => it.child[i].string # it.child[j].string
  /\ \A i \in DOMAIN it.child : UniqueNames(it.child[i])

\* A copy is the same item, and cJSON_Compare says so when no two members of
\* an object share a name (it always finds the first of a name).
CopyIsEqual ==
  phase = "copied" /\ result.ok =>
    result.item = item /\ (UniqueNames(item) => cJSON_Compare(item, result.item, TRUE))
=============================================================================
