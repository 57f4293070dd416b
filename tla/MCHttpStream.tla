---------------------------- MODULE MCHttpStream ----------------------------
(* Wires for HttpStream, put together from pieces that are well-formed or not. *)
EXTENDS HttpStream, FiniteSets

CONSTANT MaxChunks

CRLF == <<CR, LF>>
Good(b) == [b |-> b, ok |-> TRUE]
Bad(b) == [b |-> b, ok |-> FALSE]
Field(n, v) == [name |-> n, value |-> v]
Block(b, ok, fields) == [b |-> b, ok |-> ok, fields |-> fields]

Version == <<72, 84, 84, 80, SLASH, 49, DOT, 48>>
G == <<71>>
P == <<SLASH, 112>>
S == <<50, 48, 52>>

\* The pieces of a text; the first of each is the usual one.
Leads == <<Good(<<>>), Good(CRLF), Good(<<LF>>), Bad(<<CR>>)>>
Methods == <<Good(G), Bad(<<>>), Bad(<<71, COMMA>>)>>
Paths == <<Good(P), Bad(P \o <<DEL>>)>>
Versions == <<Good(Version), Bad(<<72, 84, 84, 80, SLASH, 50, DOT, 48>>)>>
Gaps == <<Good(<<SP>>), Good(<<SP, SP>>), Bad(<<HT>>)>>
Eols == <<Good(CRLF), Good(<<LF>>), Bad(<<CR>>), Bad(<<SP>> \o CRLF)>>
Ends == SubSeq(Eols, 1, 3)
Bodies == <<Good(<<>>), Good(CRLF), Good(<<CR, 120>>)>>
Blocks == <<
  Block(<<97, COLON, SP, 98>> \o CRLF, TRUE, <<Field(<<97>>, <<98>>)>>),
  Block(<<>>, TRUE, <<>>),
  Block(<<97, COLON, HT, 98, SP, 99, SP, LF>>, TRUE, <<Field(<<97>>, <<98, SP, 99>>)>>),
  Block(<<97, COLON, 98>> \o CRLF \o <<SP, 99>> \o CRLF, TRUE,
        <<Field(<<97>>, <<98>>), Field(<<>>, <<SP, 99>>)>>),
  Block(<<97, COLON, LF, 100, COLON, COLON>> \o CRLF, TRUE,
        <<Field(<<97>>, <<>>), Field(<<100>>, <<COLON>>)>>),
  Block(<<97, COLON, LF, 97, COLON, LF, 97, COLON, LF>>, FALSE, <<>>),
  Block(<<COLON, 98>> \o CRLF, FALSE, <<>>),
  Block(<<97, SP, COLON, 98>> \o CRLF, FALSE, <<>>),
  Block(<<97, COLON, NUL, 98>> \o CRLF, FALSE, <<>>),
  Block(<<97, COLON, 98, CR, CR, LF>>, FALSE, <<>>)>>
Codes == <<Good(S), Bad(<<50, 48>>), Bad(<<50, 48, 52, 52>>)>>
Texts == <<Good(<<SP, 79, 75>>), Good(<<>>), Bad(<<79>>), Bad(<<SP, DEL>>)>>

\* Pieces in a row; at most two of them are not the usual ones.
Usual(choices) == [i \in DOMAIN choices |-> choices[i][1]]
OneOdd(choices, pieces) ==
  UNION {{[pieces EXCEPT ![i] = choices[i][j]] : j \in DOMAIN choices[i]} : i \in DOMAIN choices}
Pieces(choices) == UNION {OneOdd(choices, p) : p \in OneOdd(choices, Usual(choices))}

Wire(kind, pieces, first, second, fields) ==
  LET last == Len(pieces)
      head == FoldLeft(LAMBDA b, p : b \o p.b, <<>>, SubSeq(pieces, 1, last - 1))
  IN  [kind |-> kind, bytes |-> head \o pieces[last].b,
       sent |-> IF \A i \in DOMAIN pieces : pieces[i].ok
                THEN Parsed(Len(head), first, second, fields) ELSE NotParsed(Failed)]

Rest(text) == IF text = <<>> THEN <<>> ELSE Tail(text)

Requests == {Wire("request", p, G, P, p[8].fields) : p \in
  Pieces(<<Leads, Methods, Gaps, Paths, Gaps, Versions, Eols, Blocks, Ends, Bodies>>)}
Responses == {Wire("response", p, S, Rest(p[4].b), p[6].fields) : p \in
  Pieces(<<Versions, Gaps, Codes, Texts, Ends, Blocks, Ends, Bodies>>)}
\* An empty block that comes in two reads is never complete for is_complete,
\* which asks for two line ends; a caller cannot mean one.
HeaderBlocks == {Wire("headers", p, <<>>, <<>>, p[1].fields) : p \in
  {q \in Pieces(<<Blocks, Ends, Bodies>>) : q[1].b # <<>>}}
-----------------------------------------------------------------------------
\* A piece of a chunked body: its bytes, which of them are data, whether it is
\* well-formed.
Chunk(head, data, tail, ok) ==
  [b |-> head \o data \o tail,
   isData |-> [i \in 1 .. Len(head) + Len(data) + Len(tail) |->
                 i > Len(head) /\ i <= Len(head) + Len(data)],
   ok |-> ok]
Join(p, q) == [b |-> p.b \o q.b, isData |-> p.isData \o q.isData, ok |-> p.ok /\ q.ok]

Chunks ==
  {Chunk(<<50>> \o CRLF, <<49, LF>>, CRLF, TRUE),
   Chunk(<<48, 49, SP>> \o CRLF, <<97>>, <<LF>>, TRUE),
   Chunk(<<49, 59, 49, LF>>, <<CR>>, <<CR, CR, LF>>, TRUE),
   Chunk(<<65, 58>> \o CRLF, <<>>, <<>>, FALSE),
   Chunk(<<49, 48, 49>> \o CRLF, <<97>>, CRLF, FALSE),
   Chunk(CRLF, <<>>, <<>>, FALSE),
   Chunk(<<49>> \o CRLF, <<98, 98>>, CRLF, FALSE)}

Lasts == {Chunk(<<48>> \o CRLF, <<>>, <<>>, TRUE), Chunk(<<48, 48, LF>>, <<>>, <<>>, TRUE)}
Trailers == {Chunk(CRLF, <<>>, <<>>, TRUE), Chunk(<<97, CR, LF, CR, LF>>, <<>>, <<>>, TRUE),
             Chunk(<<97, 98, LF, CR, 99, LF, LF>>, <<>>, <<>>, TRUE)}
Follows == {<<>>, <<48, LF>>}

Rows[n \in 0 .. MaxChunks] ==
  IF n = 0 THEN {Chunk(<<>>, <<>>, <<>>, TRUE)}
  ELSE Rows[n - 1] \cup {Join(c, r) : c \in Chunks, r \in Rows[n - 1]}

ChunkedBodies(trailer) ==
  {Join(r, e) : r \in Rows[MaxChunks],
                e \in IF trailer THEN {Join(l, t) : l \in Lasts, t \in Trailers} ELSE Lasts}
ChunkedWires(trailer) ==
  {[kind |-> "chunked", bytes |-> body.b \o f, isData |-> body.isData, ok |-> body.ok,
    trailer |-> trailer] : body \in ChunkedBodies(trailer), f \in Follows}

MCWires == Requests \cup Responses \cup HeaderBlocks \cup UNION {ChunkedWires(t) : t \in BOOLEAN}
=============================================================================
