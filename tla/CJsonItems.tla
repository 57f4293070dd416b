----------------------------- MODULE CJsonItems -----------------------------
(***************************************************************************)
(* cJSON.c: looking into items, copying them, comparing them, and the      *)
(* rewriting of a text without its blanks and comments.                    *)
(***************************************************************************)
EXTENDS CJsonPrinter

tolower(c) == IF c \in 65 .. 90 THEN c + 32 ELSE c
Lower(s) == [i \in DOMAIN s |-> tolower(s[i])]

\* Two strings that are not there are not equal.
case_insensitive_strcmp(s, t) ==
  IF NoString \in {s, t} \/ Lower(s) # Lower(t) THEN 1 ELSE 0

\* The result of a search that finds nothing.
NoItem == [NewItem EXCEPT !.type = "None"]

\* Mutant of get_object_item: the case never counts.
get_object_item_AnyCase(object, name, case_sensitive) ==
  LET Stops(c) == case_insensitive_strcmp(name, c.string) = 0
      i == SelectInSeq(object.child, Stops)
  IN  IF NoString = name \/ i = 0 THEN NoItem ELSE object.child[i]

\* The first child of that name.  A case-sensitive search stops at a child
\* that has no name.
get_object_item(object, name, case_sensitive) ==
  LET Stops(c) == IF case_sensitive THEN c.string \in {NoString, name}
                  ELSE case_insensitive_strcmp(name, c.string) = 0
      i == SelectInSeq(object.child, Stops)
  IN  IF NoString = name \/ i = 0 \/ object.child[i].string = NoString THEN NoItem
      ELSE object.child[i]

\* Equal types are enough for what has no value; members are looked up by name,
\* those of a in b, then those of b in a.
RECURSIVE cJSON_Compare(_, _, _)
cJSON_Compare(a, b, case_sensitive) ==
  LET Found(x, y) ==
        \A i \in DOMAIN x.child :
          cJSON_Compare(x.child[i], get_object_item(y, x.child[i].string, case_sensitive),
                        case_sensitive)
  IN  /\ a.type = b.type
      /\ CASE a.type \in {"False", "True", "NULL"} -> TRUE
           [] a.type = "Number" -> a.valuedouble = b.valuedouble
           [] a.type \in {"String", "Raw"} ->
                a.valuestring # NoString /\ a.valuestring = b.valuestring
           [] a.type = "Array" ->
                /\ Len(a.child) = Len(b.child)
                /\ \A i \in DOMAIN a.child :
                     cJSON_Compare(a.child[i], b.child[i], case_sensitive)
           [] a.type = "Object" -> Found(a, b) /\ Found(b, a)
           [] OTHER -> FALSE

\* A copy, in memory m = [live, left, ok, item]; one that fails is deleted with
\* what it holds by then.
cJSON_strdup(m, s, Set(_, _)) ==
  IF s = NoString \/ ~ m.ok THEN m
  ELSE IF m.left = 0 THEN [m EXCEPT !.ok = FALSE]
  ELSE [m EXCEPT !.live = @ + 1, !.left = @ - 1, !.item = Set(@, s)]

RECURSIVE cJSON_Duplicate(_, _)
cJSON_Duplicate(item, m) ==
  LET new == Allocate([m EXCEPT !.item = [item EXCEPT !.string = NoString,
                                            !.valuestring = NoString, !.child = <<>>]])
      named == cJSON_strdup(cJSON_strdup(new, item.valuestring,
                                         LAMBDA n, s : [n EXCEPT !.valuestring = s]),
                            item.string, LAMBDA n, s : [n EXCEPT !.string = s])
      Child(q, c) ==
        LET d == cJSON_Duplicate(c, q)
        IN  IF ~ q.ok THEN q
            ELSE [d EXCEPT !.item = IF d.ok THEN [q.item EXCEPT !.child = Append(@, d.item)]
                                    ELSE q.item]
      all == FoldLeft(Child, named, item.child)
  IN  IF ~ new.ok THEN new ELSE IF all.ok THEN all ELSE Free(all, Blocks(all.item))
-----------------------------------------------------------------------------
\* cJSON_Minify: each of these takes what is left of the text and gives what is
\* left after it, and what it writes.
Rest(b, i) == SubSeq(b, i, Len(b))

skip_oneline_comment(b) == Rest(b, Find(b, 3, {LF}) + 1)

skip_multiline_comment(b) ==
  LET ends == {i \in 3 .. Len(b) - 1 : b[i] = 42 /\ b[i + 1] = SLASH}
  IN  IF ends = {} THEN <<>> ELSE Rest(b, Min(ends) + 2)

\* Mutant of StringEnd: an escaped quote ends the string.
StringEnd_AnyQuote(b, i) == Find(b, i, {QUOTE})

\* The quote that ends a string.  A backslash counts only before a quote, and
\* is not looked at itself: after an escaped backslash a quote is skipped.
RECURSIVE StringEnd(_, _)
StringEnd(b, i) ==
  IF AtEnd(b, i) THEN i ELSE
  CASE b[i] = QUOTE -> i
    [] b[i] = BACKSLASH /\ ~ AtEnd(b, i + 1) /\ b[i + 1] = QUOTE -> StringEnd(b, i + 2)
    [] OTHER -> StringEnd(b, i + 1)

minify_string(b) == SubSeq(b, 1, Min({StringEnd(b, 2), Len(b)}))

RECURSIVE cJSON_Minify(_)
cJSON_Minify(b) ==
  IF b = <<>> THEN <<>> ELSE
  CASE b[1] \in {SP, HT, CR, LF} -> cJSON_Minify(Tail(b))
    [] b[1] = SLASH ->
         cJSON_Minify(CASE Len(b) > 1 /\ b[2] = SLASH -> skip_oneline_comment(b)
                        [] Len(b) > 1 /\ b[2] = 42 -> skip_multiline_comment(b)
                        [] OTHER -> Tail(b))
    [] b[1] = QUOTE -> minify_string(b) \o cJSON_Minify(Rest(b, StringEnd(b, 2) + 1))
    [] OTHER -> <<b[1]>> \o cJSON_Minify(Tail(b))
=============================================================================
