----------------------------- MODULE HttpStream -----------------------------
(***************************************************************************)
(* A caller of picohttpparser.c whose bytes arrive in pieces.  A request, a*)
(* response or a block of headers is parsed again after each read, all of  *)
(* it, and the parser is told how much there was the last time; a chunked  *)
(* body is decoded as it comes.                                            *)
(*                                                                         *)
(* A wire is [kind, bytes, sent]: what kind of text is sent, all its bytes,*)
(* and what the writer put into it; sent.ret is Failed in a wire that is   *)
(* not written as the protocol wants.  A chunked wire has in place of sent *)
(* isData, ok, trailer: which bytes of the body are data, whether it is    *)
(* well-formed and whether the caller wants the trailer consumed; in a     *)
(* well-formed one isData covers the body and what follows lies beyond.    *)
(***************************************************************************)
EXTENDS ChunkedDecoder

CONSTANTS Wires, MaxHeaders

ASSUME MaxHeadersAssumption == MaxHeaders \in Nat

Parse(kind, b, last_len) ==
  CASE kind = "request" -> phr_parse_request(b, MaxHeaders, last_len)
    [] kind = "response" -> phr_parse_response(b, MaxHeaders, last_len)
    [] kind = "headers" -> phr_parse_headers(b, MaxHeaders, last_len)

\* A chunked wire is marked as the reference reads it.
IsChunkedWire(w) ==
  LET q == AsRead(w.bytes, w.trailer)
  IN  /\ w.trailer \in BOOLEAN /\ w.isData \in Seq(BOOLEAN)
      /\ IF w.ok
         THEN /\ Len(w.isData) <= Len(w.bytes) /\ EndsAt(q, Len(w.isData))
              /\ \A i \in DOMAIN w.isData : w.isData[i] <=> q[i - 1].part = "DATA"
         ELSE \A n \in 0 .. Len(w.bytes) : q[n].part # "END"

\* A block of headers has one at least: an empty one that is cut in two is
\* never complete for is_complete, which asks for two line ends.
ASSUME WiresAssumption ==
  \A w \in Wires :
    /\ w.bytes \in Seq(Nat) /\ w.kind \in {"chunked", "request", "response", "headers"}
    /\ w.kind = "chunked" => IsChunkedWire(w)
    /\ w.kind = "headers" /\ w.sent.ret > 0 => w.sent.headers # <<>>

\* In one read, a head gives what was written, if it was written as the protocol
\* wants, and no result otherwise.
UnderstoodAtOnce ==
  \A w \in Wires : w.kind # "chunked" =>
    LET p == Parse(w.kind, w.bytes, 0) IN w.sent.ret > 0 \/ p.ret > 0 => p = w.sent

VARIABLES
  wire, got,  \* what is sent, and how much of it has arrived
  parse,      \* the result of the last call
  decoder,    \* struct phr_chunked_decoder
  out         \* what was decoded
vars == <<wire, got, parse, decoder, out>>

Chunked == wire.kind = "chunked"

Init ==
  /\ wire \in Wires
  /\ got = 0
  /\ parse = NotParsed(Partial)
  /\ decoder = Zeroed(Chunked /\ wire.trailer)
  /\ out = <<>>

Arrive(n) ==
  /\ ~ Chunked /\ parse.ret = Partial
  /\ got' = got + n
  /\ parse' = Parse(wire.kind, SubSeq(wire.bytes, 1, got + n), got)
  /\ UNCHANGED <<wire, decoder, out>>

\* The next n bytes are decoded where they lie.
Feed(n) ==
  LET c == phr_decode_chunked(decoder, SubSeq(wire.bytes, got + 1, got + n))
  IN  /\ Chunked /\ parse.ret = Partial
      /\ got' = got + n
      /\ parse' = NotParsed(c.ret)
      /\ decoder' = c.d
      /\ out' = out \o c.out
      /\ UNCHANGED wire

Next == \E n \in 1 .. Len(wire.bytes) - got : Arrive(n) \/ Feed(n)

Spec == Init /\ [][Next]_vars
-----------------------------------------------------------------------------
\* A result counts bytes that have arrived, and the size of a chunk fits in the
\* integer that holds it.
TypeOK ==
  /\ got \in 0 .. Len(wire.bytes)
  /\ parse.ret \in {Failed, Partial} \cup (IF Chunked THEN 0 ELSE 1) .. got
  /\ decoder.bytes_left_in_chunk \in 0 .. Sizes[MaxHex] - 1

WellFormed == IF Chunked THEN wire.ok ELSE wire.sent.ret > 0

\* A parse that succeeds, whatever the pieces it was tried on, is of a text
\* that keeps to the protocol, and finds in it exactly what was written, down
\* to the number of bytes consumed and the blanks around a header's value.
OnlyWhatWasSent == ~ Chunked /\ parse.ret > 0 => parse = wire.sent

\* Once the whole head has arrived the parser sees it, wherever the reads cut
\* it: the search for its end starts early enough.
CompleteIsSeen == ~ Chunked /\ WellFormed /\ got >= wire.sent.ret => parse.ret > 0
-----------------------------------------------------------------------------
\* The data among the first n bytes sent, for each n.
DataIn == Marked(wire.bytes, {i \in DOMAIN wire.isData : wire.isData[i]})

\* No piece of a well-formed text is ever refused: a text that has not arrived
\* in full is partial, never wrong.  Only a body can be refused, when more than
\* three quarters of what arrived is not data (four fifths in the comment at
\* picohttpparser.c:669).
NeverRefused ==
  parse.ret = Failed /\ WellFormed => Chunked /\ 4 * (got - Len(DataIn[got])) > 3 * got

\* Wherever the pieces are cut, all the data that has arrived has been handed
\* out, in order, and nothing else, and phr_decode_chunked_is_in_data says
\* whether the next byte is data.
DataAsSent ==
  Chunked /\ WellFormed /\ parse.ret # Failed =>
    /\ out = DataIn[got]
    /\ parse.ret = Partial =>
         (phr_decode_chunked_is_in_data(decoder) <=> wire.isData[got + 1])

\* The decoder completes at the end of the body and nowhere else, and says how
\* many bytes that arrived lie beyond it.
EndsWhereTheBodyEnds ==
  Chunked =>
    /\ parse.ret >= 0 => WellFormed /\ got - parse.ret = Len(wire.isData)
    /\ parse.ret = Partial /\ WellFormed => got < Len(wire.isData)
=============================================================================
