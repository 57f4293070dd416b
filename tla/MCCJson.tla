------------------------------ MODULE MCCJson ------------------------------
(***************************************************************************)
(* Two callers of cJSON, one at a time: one converts texts (CJson), the    *)
(* other edits the children of an array (CJsonList).  No names and no      *)
(* variables are common to both.                                           *)
(***************************************************************************)
EXTENDS CJsonList, TLC

CONSTANTS CJSON_NESTING_LIMIT, DefaultSize, Budgets, Lengths
VARIABLES doc, text, phase, item, result
textVars == <<doc, text, phase, item, result>>

Source == INSTANCE MCCJsonTexts
Texts == INSTANCE CJson WITH Documents <- Source!MCDocuments

MCNames == {"name", "NAME"}
MCFold == [n \in MCNames |-> "name"]

Symmetry == Permutations(Items) \cup Permutations(Arrays)

NoTexts ==
  /\ doc = [Source!Bad(<<>>) EXCEPT !.kind = "none"]
  /\ text = <<>> /\ phase = "none" /\ item = Source!NoItem
  /\ result = Texts!Outcome(FALSE, 0, FALSE, Source!NoItem, <<>>)

MCInit == Init /\ (NoTexts \/ Texts!Init)
MCNext ==
  \/ phase = "none" /\ Next /\ UNCHANGED textVars
  \/ Texts!Next /\ UNCHANGED vars

MCSpec == MCInit /\ [][MCNext]_<<vars, textVars>>
-----------------------------------------------------------------------------
\* The properties of CJson, each stated there.

\* cJSON_Parse, cJSON_Print*, cJSON_Duplicate: whichever allocation fails,
\* nothing allocated on the way is left.
NoLeak == Texts!NoLeak

\* parse_string and the printers never write past the block they allocated.
NoOverrun == Texts!NoOverrun

\* cJSON_ParseWithOpts takes a text, minified or not, for what was written into
\* it, or refuses it.
AsWritten == Texts!AsWritten

\* cJSON_Print* and cJSON_Parse are inverse to each other.
ReadsBack == Texts!ReadsBack

\* cJSON_Duplicate gives an item that cJSON_Compare finds equal.
CopyIsEqual == Texts!CopyIsEqual
=============================================================================
