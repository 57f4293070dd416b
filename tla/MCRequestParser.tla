-------------------------- MODULE MCRequestParser --------------------------
(* Requests for RequestParser, with what they ask for. *)
EXTENDS RequestParser

CONSTANT Set

CRLF == <<CR, LF>>
Cat(parts) == FoldLeft(LAMBDA t, p : t \o p, <<>>, parts)
Text(method, path, header, body) ==
  Cat(<<method, <<SP>>, path, <<SP, 72, 84, 84, 80, SLASH, 49, DOT, 49>>, CRLF, header, CRLF, body>>)
Says(a, c, m) == [answer |-> a, call |-> c, matches |-> m]
Request(b, a, c, m) == [bytes |-> b, says |-> Says(a, c, m)]

Client(id, word) == <<SLASH, clientes, SLASH>> \o id \o <<SLASH, word>>
Digit(n) == <<48 + n>>
Header == <<72, COLON, SP, 118>> \o CRLF
Refused(b) == Request(b, "UNPROCESSABLE", NoCall, 1)
Extrato(n) == [NoCall EXCEPT !.function = "get_extrato", !.id = n]

Extratos ==
  {Request(Text(GET, Client(Digit(n), extrato), h, <<>>), "called",
           Extrato(n), 1) : n \in {0, 5}, h \in {<<>>, Header}}
Others == {
  Request(Text(GET, Client(Digit(6), extrato), <<>>, <<>>), "NOTFOUND", NoCall, 1),
  Request(Text(GET, Client(<<49, 48, 48>>, extrato), <<>>, <<>>), "NOTFOUND", NoCall, 1),
  Request(Text(POST, Client(Digit(1), extrato), <<>>, <<>>), "BADREQUEST", NoCall, 1),
  Request(Text(GET, Client(Digit(1), transacoes), <<>>, <<>>), "BADREQUEST", NoCall, 1),
  Request(Text(GET, <<SLASH, ping>>, Header, <<>>), "OK_PING", NoCall, 1),
  Request(Text(GET, <<SLASH, exit>>, <<>>, <<>>), "OK_EXIT", NoCall, 1),
  Refused(Text(<<80, 85, 84>>, Client(Digit(1), extrato), <<>>, <<>>)),
  Refused(Text(GET, Client(<<120>>, extrato), <<>>, <<>>)),
  Refused(Text(GET, Client(<<>>, extrato), <<>>, <<>>)),
  Refused(Text(GET, <<SLASH, clientes + 1, SLASH, 49, SLASH, extrato + 1>>, <<>>, <<>>)),
  Refused(Text(GET, <<SLASH, 120>> \o Client(Digit(1), extrato), <<>>, <<>>)),
  Refused(Text(GET, <<SLASH, clientes, SLASH, 49>>, <<>>, <<>>))}

\* The pattern is found further on; sscanf reads what is at the start.
Signed(sign, n) == Text(GET, Client(sign \o n, clientes) \o <<SLASH, 49, SLASH, extrato>>, <<>>, <<>>)
SignedIds == {
  Request(Signed(<<PLUS>>, Digit(3)), "called", Extrato(3), 1),
  Request(Signed(<<MINUS>>, Digit(1)), "NOTFOUND", NoCall, 1),
  Request(Signed(<<MINUS>>, <<57, 57>>), "called", Extrato(1), 1),
  Request(Signed(<<MINUS>>, <<49, 48, 48>>), "NOTFOUND", NoCall, 1),
  Refused(Signed(<<MINUS>>, <<>>)),
  Refused(Signed(<<PLUS, MINUS>>, Digit(1)))}

Q(s) == <<QUOTE>> \o s \o <<QUOTE>>
Members(v, t, d) ==
  <<Q(<<valor>>) \o <<COLON>> \o v, Q(<<tipo>>) \o <<COLON>> \o t, Q(<<descricao>>) \o <<COLON>> \o d>>
Body(m, gap) == <<LBRACE>> \o m[1] \o <<COMMA>> \o gap \o m[2] \o <<COMMA>> \o m[3] \o gap \o <<RBRACE>>
Post(h, body) == Text(POST, Client(Digit(2), transacoes), h, body)
Push(f, v, d) == [function |-> f, id |-> 2, valor |-> v, descricao |-> d]

C == Q(<<99>>)
D == Q(<<100>>)
X == <<120>>
XX == <<120, 120>>
Transacoes ==
  {Request(Post(h, Body(Members(v.text, C, Q(d)), g)), "called", Push("push_credito", v.is, d), 1) :
     v \in {[text |-> <<51>>, is |-> 3], [text |-> <<57, DOT, 48>>, is |-> 9]}, d \in {X, XX},
     h \in {<<>>, Header}, g \in {<<>>, <<SP>>}}
  \cup {
  Request(Post(<<>>, Body(Members(<<MINUS, 48>>, D, Q(X)), <<>>)), "called", Push("push_debito", 0, X), 1),
  Request(Post(<<>>, Body(Reverse(Members(<<53>>, D, Q(X))), <<>>) \o X), "called",
          Push("push_debito", 5, X), 1)}
Large == {Request(Post(<<>>, Body(Members(v, C, Q(X)), <<>>)), "INTERNALERROR", NoCall, 1) :
            v \in {<<49, 48>>, <<50, 48>>, <<50, 49>>}}
Wrong ==
  {Refused(Post(<<>>, Body(Members(v, C, Q(X)), <<>>))) :
     v \in {<<50, 50>>, <<MINUS, 49>>, <<49, DOT, 53>>, Q(<<49>>), null, <<120>>}}
  \cup {Refused(Post(<<>>, Body(Members(<<49>>, t, Q(X)), <<>>))) :
          t \in {Q(X), Q(<<99, 99>>), Q(<<>>), null, true}}
  \cup {Refused(Post(<<>>, Body(Members(<<49>>, C, d), <<>>))) :
          d \in {Q(<<>>), Q(<<120, 120, 120>>), null, <<49>>, Q(<<BACKSLASH, 120>>)}}
  \cup {Refused(Post(<<>>, b)) : b \in {<<>>, <<49>>, <<LBRACKET, 49, RBRACKET>>, <<LBRACE, RBRACE>>,
          <<LBRACE>> \o Members(<<49>>, C, C)[1] \o <<RBRACE>>,
          Body([Members(<<49>>, C, C) EXCEPT ![1] = Q(<<valor + 1>>) \o <<COLON, 49>>], <<>>)}}

\* Requests in which more than one pattern occurs.
Several ==
  {Request(Post(<<>>, Body(Members(<<49>>, C, Q(<<SLASH, ping>>)), <<>>)), "called",
           Push("push_credito", 1, <<SLASH, ping>>), 2),
   Request(Text(GET, Client(Digit(1), extrato), <<>>, <<SLASH, ping>>), "called",
           Extrato(1), 2)}

MCRequests ==
  IF Set = "several" THEN Several
  ELSE Extratos \cup Others \cup SignedIds \cup Transacoes \cup Large \cup Wrong \cup Several
=============================================================================
