---------------------------- MODULE RequestParser ----------------------------
(***************************************************************************)
(* request.c and controller() of main.c: from the bytes of one read to the *)
(* answer, or to the call that goes to the database.                       *)
(*                                                                         *)
(* The reads of a connection are one: it takes what has arrived, and the   *)
(* rest of the buffer, up to its MAX_REQ_RESP_SIZE bytes, is NUL.  A word  *)
(* of a path or a name is one number above 255; its upper-case form is the *)
(* next number.                                                            *)
(***************************************************************************)
EXTENDS HttpParser, CJsonItems

CONSTANTS
  Requests,   \* what peers send: [bytes, says]
  Budgets,    \* how many blocks of memory cJSON can have
  Id64Max,    \* __UINT64_MAX__
  Int64Max,   \* __INT64_MAX__
  Int4Max,    \* the largest value of an SQL int
  Descricao,  \* the size of descricao: 10
  Padding     \* how much of MAX_REQ_RESP_SIZE the requests leave free, at least

VARIABLES
  request,    \* what the peer sends
  buffer,     \* reqres->buffer after the read
  reqdata,    \* what request_parser found
  answer,     \* the response, or that the request waits for the database
  call,       \* the SQL function called, with its arguments
  live        \* the blocks of cJSON that are not freed
vars == <<request, buffer, reqdata, answer, call, live>>

clientes == 300
transacoes == 302
extrato == 304
exit == 306
ping == 308
valor == 310
tipo == 312
descricao == 314

PLUS == 43

GET == <<71, 69, 84>>
POST == <<80, 79, 83, 84>>

\* REG_ICASE.
Fold(c) == IF c > 255 THEN 2 * (c \div 2) ELSE tolower(c)

Follows(s, i, t) == i + Len(t) - 1 <= Len(s) /\ [j \in DOMAIN t |-> Fold(s[i + j - 1])] = t

\* /clientes/[0-9]+/word, somewhere in s.
MatchesClient(s, word) ==
  \E i \in DOMAIN s :
    /\ Follows(s, i, <<SLASH, clientes, SLASH>>)
    /\ LET end == Find(s, i + 3, OtherThan(Digits))
       IN  end > i + 3 /\ Follows(s, end, <<SLASH, word>>)

\* res[i]: URI_TRANSACAO, URI_EXTRATO, URI_EXIT, URI_PING.
Matches(s, i) ==
  CASE i = 0 -> MatchesClient(s, transacoes)
    [] i = 1 -> MatchesClient(s, extrato)
    [] i = 2 -> \E j \in DOMAIN s : Follows(s, j, <<SLASH, exit>>)
    [] i = 3 -> \E j \in DOMAIN s : Follows(s, j, <<SLASH, ping>>)

\* The method and the pattern may go on: strstr finds them at the start.
Starts(s, t) == IsPrefix(t, s)

\* The index kept by the loop over the patterns; -2 once a match was refused.
matched_index(s) ==
  FoldLeft(LAMBDA m, i : IF m = -2 \/ ~ Matches(s, i) THEN m ELSE IF m > 0 THEN -2 ELSE i,
           -1, <<0, 1, 2, 3>>)

\* sscanf of /clientes/%lu: -1 when it finds no number.  A sign may precede the
\* number; a minus negates it modulo 2^64, unless it is past the largest.  (So
\* may white space, which no path has.)
ScanId(s) ==
  LET from == Find(s, 4, OtherThan({PLUS, MINUS}))
      end == Find(s, from, OtherThan(Digits))
      id == Decimal(SubSeq(s, from, end - 1))
  IN  IF ~ Starts(s, <<SLASH, clientes, SLASH>>) \/ from > 5 \/ end = from THEN -1
      ELSE IF id > Id64Max THEN Id64Max
      ELSE IF s[4] = MINUS THEN (Id64Max + 1 - id) % (Id64Max + 1) ELSE id

NoData == [ret |-> "INVALID", body_loc |-> 0, method |-> "none", uri |-> -1, id |-> 0]

map_method(s) ==
  CASE Starts(s, GET) -> "GET" [] Starts(s, POST) -> "POST" [] OTHER -> "none"

ReqData(ret, method, found, id) ==
  IF ret < 0 \/ method = "none" \/ found < 0 \/ id < 0 THEN NoData
  ELSE [ret |-> "OK", body_loc |-> ret, uri |-> found, id |-> id, method |-> method]

WithUri(ret, method, uri, found) ==
  ReqData(ret, method, found, IF found \in {2, 3} THEN Id64Max ELSE ScanId(uri))

FromUri(ret, method, uri) == WithUri(ret, method, uri, matched_index(uri))

\* The patterns are searched from the uri to the first NUL, headers and body
\* included.
request_parser(b) ==
  FromUri(phr_parse_request(b, 100, 0).ret, map_method(Rest(b, RequestStart(b))),
          CString(Rest(b, PathStart(b))))

\* Mutants of ValorOk and DescricaoOk: a negative amount passes; the longest
\* text does not.
ValorOk_Negative(v) == v.type = "Number" /\ v.valuedouble % 10 = 0 /\ v.valuedouble <= 10 * Int64Max
DescricaoOk_Shorter(d) == d.type = "String" /\ Len(d.valuestring) \in 1 .. Descricao - 1

\* Tests on the members of the body; a member that is not there has no type.
ValorOk(v) ==
  /\ v.type = "Number"
  /\ v.valuedouble >= 0
  /\ v.valuedouble % 10 = 0
  /\ v.valuedouble <= 10 * (Int64Max + 1)  \* the double nearest to INT64_MAX
TipoOk(t) == t.type = "String" /\ t.valuestring \in {<<99>>, <<100>>}
DescricaoOk(d) == d.type = "String" /\ Len(d.valuestring) \in 1 .. Descricao

\* Past the last int64 the conversion of the build gives the first one.
ToInt64(tenths) == IF tenths \div 10 > Int64Max THEN -Int64Max - 1 ELSE tenths \div 10

NoTransacao == [ret |-> "INVALID", valor |-> 0, tipo |-> <<>>, descricao |-> <<>>, live |-> 0]

Transacao(v, t, d, held) ==
  [ret |-> "OK", valor |-> ToInt64(v.valuedouble), tipo |-> t.valuestring,
   descricao |-> d.valuestring, live |-> held]

\* Mutant of CheckMembers: a wrong tipo returns without cJSON_Delete.
CheckMembers_Leak(v, t, d, held, deleted) ==
  IF ~ TipoOk(t) THEN [NoTransacao EXCEPT !.live = held]
  ELSE IF ~ ValorOk(v) \/ ~ DescricaoOk(d) THEN [NoTransacao EXCEPT !.live = deleted]
  ELSE Transacao(v, t, d, deleted)

CheckMembers(v, t, d, held, deleted) ==
  IF ValorOk(v) /\ TipoOk(t) /\ DescricaoOk(d) THEN Transacao(v, t, d, deleted)
  ELSE [NoTransacao EXCEPT !.live = deleted]

\* A text with no memory to parse it counts as a client's error.
AfterBody(p) ==
  LET Member(name) == get_object_item(p.item, <<name>>, TRUE)
  IN  IF ~ p.ok THEN [NoTransacao EXCEPT !.live = p.live]
      ELSE CheckMembers(Member(valor), Member(tipo), Member(descricao),
                        p.live, p.live - Blocks(p.item))
parse_transacoes(body, blocks) == AfterBody(cJSON_ParseWithOpts(body, FALSE, blocks))
-----------------------------------------------------------------------------
NoCall == [function |-> "none", id |-> 0, valor |-> 0, descricao |-> <<>>]

Init ==
  /\ request \in Requests
  /\ buffer = <<>>
  /\ reqdata = NoData
  /\ answer = "none"
  /\ call = NoCall
  /\ live = 0

\* Mutant of Read: the buffer keeps what an earlier request left in it.
Read_Stale(n) ==
  /\ answer = "none" /\ buffer = <<>>
  /\ \E earlier \in Requests :
       buffer' = SubSeq(request.bytes, 1, n) \o Rest(earlier.bytes, n + 1)
                  \o [i \in 1 .. Padding |-> NUL]
  /\ UNCHANGED <<request, reqdata, answer, call, live>>

\* The read of push_reading completes with the first n bytes.
Read(n) ==
  /\ answer = "none" /\ buffer = <<>>
  /\ buffer' = SubSeq(request.bytes, 1, n) \o [i \in 1 .. Padding |-> NUL]
  /\ UNCHANGED <<request, reqdata, answer, call, live>>

AnswerTo(r) ==
  IF r.ret # "OK" THEN "UNPROCESSABLE"
  ELSE IF r.uri \in {0, 1} /\ r.id >= 6 THEN "NOTFOUND" ELSE
  CASE r.uri = 2 -> "OK_EXIT"
    [] r.uri = 3 -> "OK_PING"
    [] r.method = "GET" /\ r.uri = 1 -> "extrato"
    [] r.method = "POST" /\ r.uri = 0 -> "transacao"
    [] OTHER -> "BADREQUEST"

\* memory: the calloc for reqdata, or a regcomp, fails.
controller(memory) ==
  /\ answer = "none" /\ buffer # <<>>
  /\ \/ ~ memory /\ answer' = "INTERNALERROR" /\ UNCHANGED reqdata
     \/ /\ memory
        /\ reqdata' = request_parser(buffer)
        /\ answer' = AnswerTo(reqdata')
  /\ UNCHANGED <<request, buffer, call, live>>

start_extrato_async ==
  /\ answer = "extrato"
  /\ call' = [NoCall EXCEPT !.function = "get_extrato", !.id = reqdata.id]
  /\ answer' = "called"
  /\ UNCHANGED <<request, buffer, reqdata, live>>

\* The SQL text casts the amount to int, which fails beyond Int4Max.
SendTransacao(t) ==
  LET fits == t.valor \in -Int4Max - 1 .. Int4Max
  IN  /\ live' = live + t.live
      /\ answer' = IF t.ret # "OK" THEN "UNPROCESSABLE" ELSE IF fits THEN "called" ELSE "INTERNALERROR"
      /\ call' = IF t.ret # "OK" \/ ~ fits THEN NoCall
                 ELSE [function |-> IF t.tipo = <<99>> THEN "push_credito" ELSE "push_debito",
                       id |-> reqdata.id, valor |-> t.valor, descricao |-> t.descricao]
      /\ UNCHANGED <<request, buffer, reqdata>>

start_transacao_async(blocks) ==
  answer = "transacao" /\ SendTransacao(parse_transacoes(CString(Rest(buffer, reqdata.body_loc + 1)), blocks))

Next ==
  \/ \E n \in 1 .. Len(request.bytes) : Read(n)
  \/ \E memory \in BOOLEAN : controller(memory)
  \/ start_extrato_async
  \/ \E n \in Budgets : start_transacao_async(n)

Spec == Init /\ [][Next]_vars
-----------------------------------------------------------------------------
\* A request says [answer, call, matches]: what its text asks for, and how many
\* of the patterns occur in it.
Plain == request.says.matches <= 1
Done == answer \notin {"none", "extrato", "transacao"}

\* A request that arrives in two segments is parsed after the first: it is
\* then answered as the whole would be, or refused, and never taken for
\* another request, another client or another amount.
NeverMistaken ==
  Done /\ Plain =>
    \/ answer = request.says.answer /\ call = request.says.call
    \/ answer \in {"UNPROCESSABLE", "INTERNALERROR"} /\ call = NoCall

\* Memory and a short read are the only reasons for a request to be refused
\* that is not wrong.
WholeIsUnderstood ==
  LET whole == request.bytes \o [i \in 1 .. Padding |-> NUL]
      Understood(r) ==
        /\ r.ret = "OK"
        /\ request.says.call.function \in {"push_credito", "push_debito"} =>
             parse_transacoes(CString(Rest(whole, r.body_loc + 1)), 100).ret = "OK"
  IN  Plain /\ buffer = <<>> /\ request.says.answer # "UNPROCESSABLE" =>
        Understood(request_parser(whole))

\* The function gets an amount that is not negative and fits its parameter, and
\* a text that fits its column: what the doubles, the int64 and the SQL cast
\* make of a number is that number or an error.
AmountFits ==
  answer = "called" /\ call.function # "get_extrato" =>
    call.valor \in 0 .. Int4Max /\ Len(call.descricao) \in 1 .. Descricao

\* Nothing of a parsed body outlives the request, refused or not.
BodyFreed == live = 0

\* What the comment at request.c:61 says: more than one match is refused.
SeveralMatchesRefused ==
  Done /\ request.says.matches > 1 => answer \in {"UNPROCESSABLE", "INTERNALERROR"}
=============================================================================
