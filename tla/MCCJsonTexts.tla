--------------------------- MODULE MCCJsonTexts ---------------------------
(* Documents for CJson, put together with the items they stand for. *)
EXTENDS CJsonItems

\* Texts of a value.
T(s, it, kind) == [text |-> s, item |-> it, kind |-> kind, clean |-> TRUE, escaped |-> FALSE]
Ok(s, it) == T(s, it, "JSON")
Bad(s) == T(s, NoItem, "bad")
Num(tenths) == [NewItem EXCEPT !.type = "Number", !.valuedouble = tenths]
Str(s) == [NewItem EXCEPT !.type = "String", !.valuestring = s]
Q(s) == <<QUOTE>> \o s \o <<QUOTE>>
U(a, b, c, d) == <<BACKSLASH, 117, a, b, c, d>>

Scalars == {
  Ok(null, [NewItem EXCEPT !.type = "NULL"]), Ok(true, [NewItem EXCEPT !.type = "True"]),
  Ok(false, [NewItem EXCEPT !.type = "False"]), Ok(<<MINUS, 49, 50, DOT, 53>>, Num(-125)),
  Ok(<<55, DOT, 48>>, Num(70)), Ok(<<QUOTE, QUOTE>>, Str(<<>>)), Ok(Q(<<97, 1>>), Str(<<97, 1>>)),
  Ok(Q(<<BACKSLASH, 110, BACKSLASH, QUOTE, BACKSLASH, SLASH>>), Str(<<LF, QUOTE, SLASH>>)),
  Ok(Q(<<SP, SLASH, SLASH, SP>>), Str(<<SP, SLASH, SLASH, SP>>)),
  Ok(Q(U(48, 48, 101, 57) \o U(50, 48, 97, 67)), Str(<<195, 169, 226, 130, 172>>)),
  Ok(Q(U(100, 56, 51, 52) \o U(68, 68, 49, 69)), Str(<<240, 157, 132, 158>>)),
  [Ok(Q(<<BACKSLASH, BACKSLASH>>), Str(<<BACKSLASH>>)) EXCEPT !.escaped = TRUE]}
Wrong == {Bad(t) : t \in {
  <<>>, <<MINUS>>, <<110, 117, 108>>, Q(<<97, BACKSLASH, 120>>), <<QUOTE, 97>>, <<QUOTE, BACKSLASH>>,
  Q(U(100, 56, 51, 52)), Q(U(100, 56, 51, 52) \o <<98, 98, 98, 98, 98, 98>>), Q(U(68, 68, 49, 69)),
  Q(<<97>> \o U(100, 56, 51, 52) \o U(48, 48, 101, 57))}}

\* Lists of documents: blanks go between the parts.
Join(parts, it) ==
  [text |-> FoldLeft(LAMBDA t, p : t \o p.text, <<>>, parts), item |-> it,
   kind |-> IF \E i \in DOMAIN parts : parts[i].kind = "bad" THEN "bad"
            ELSE IF \E i \in DOMAIN parts : parts[i].kind = "commented" THEN "commented" ELSE "JSON",
   clean |-> TRUE, escaped |-> \E i \in DOMAIN parts : parts[i].escaped]
Part(s) == Ok(s, NoItem)
List(type, s) == [NewItem EXCEPT !.type = type, !.child = s]
Blank == Part(<<SP, LF>>)
Comment == T(<<SLASH, 42, 42, QUOTE, SLASH, 42, SLASH, SP, SLASH, SLASH, 93, LF>>, NoItem, "commented")
Gaps == {Part(<<>>), Blank, Comment}

Array0 == {Join(<<Part(<<LBRACKET>>), g, Part(<<RBRACKET>>)>>, List("Array", <<>>)) : g \in Gaps}
Array1(D) == {Join(<<Part(<<LBRACKET>>), g, d, g, Part(<<RBRACKET>>)>>, List("Array", <<d.item>>)) :
                d \in D, g \in Gaps}
Array2(D, E) == {Join(<<Part(<<LBRACKET>>), d, Part(<<COMMA>>), Blank, e, Part(<<RBRACKET>>)>>,
                      List("Array", <<d.item, e.item>>)) : d \in D, e \in E}
Named(d, s) == [d.item EXCEPT !.string = s]
Object1(D) == {Join(<<Part(<<LBRACE, SP>> \o Q(n)), g, Part(<<COLON>>), d, g, Part(<<RBRACE>>)>>,
                    List("Object", <<Named(d, n)>>)) :
                 d \in D, g \in Gaps, n \in {<<>>, <<97>>}}
Object2(D, E, n) ==
  {Join(<<Part(<<LBRACE>> \o Q(<<97>>) \o <<COLON, SP>>), d, Part(<<SP, COMMA>> \o Q(n) \o <<COLON>>),
          e, Part(<<RBRACE>>)>>, List("Object", <<Named(d, <<97>>), Named(e, n)>>)) :
     d \in D, e \in E}

Some == {Ok(<<49>>, Num(10)), Ok(Q(<<98>>), Str(<<98>>))}
Lists == Array0 \cup Array1((Scalars \cup Wrong) \ {Bad(<<>>)}) \cup Array2(Some, Some) \cup Object1(Scalars)
          \cup Object2(Some, Some, <<65>>)
Nested == Array1(Array1(Some) \cup Object1(Some)) \cup Array2(Some, Object1(Some))
           \cup Object1(Array2(Some, Some))
           \cup {[d EXCEPT !.kind = "bad"] : d \in Array1(Array1(Array0))}

\* What an edit makes of a list: it loses its last byte or its first comma or
\* colon, or gains a comma before the end.
Edited(d) ==
  LET t == d.text
      mark == Find(t, 1, {COMMA, COLON})
  IN  {Bad(SubSeq(t, 1, Len(t) - 1)), Bad(SubSeq(t, 1, Len(t) - 1) \o <<COMMA, t[Len(t)]>>),
       Bad(SubSeq(t, 1, mark - 1) \o IF AtEnd(t, mark) THEN <<SP, SLASH>> ELSE Rest(t, mark + 1))}

Followed(d) ==
  {[d EXCEPT !.text = @ \o <<SP, 120>>, !.clean = FALSE], [d EXCEPT !.text = @ \o <<SP, LF>>],
   [d EXCEPT !.text = <<239, 187, 191>> \o @ \o <<SP>>]}
SameName == Object2(Some, Some, <<97>>)

Plain == Scalars \cup Wrong \cup Lists \cup Nested \cup UNION {Followed(d) : d \in Some \cup Array0}
Broken == UNION {Edited(d) : d \in {l \in Array2(Some, Some) \cup Object1(Some) \cup Array1(Array2(Some, Some)) :
                                      l.kind = "JSON"}}
MCDocuments == Plain \cup Broken \cup SameName
=============================================================================
