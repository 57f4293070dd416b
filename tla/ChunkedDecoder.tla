--------------------------- MODULE ChunkedDecoder ---------------------------
(***************************************************************************)
(* phr_decode_chunked of picohttpparser.c: a decoder that keeps its place  *)
(* between calls.                                                          *)
(***************************************************************************)
EXTENDS HttpParser, ChunkedBody

CONSTANT OverheadLimit  \* 100 * 1024

ASSUME OverheadAssumption == OverheadLimit \in Nat

Zeroed(trailer) ==
  [bytes_left_in_chunk |-> 0, consume_trailer |-> trailer, hex_count |-> 0,
   state |-> "SIZE", total_read |-> 0, total_overhead |-> 0]

\* A call in progress: the decoder, the bytes it was given, src and the bytes
\* before dst; done says that the loop was left.
Goes(c, src) == [c EXCEPT !.src = src]
To(c, src, state) == [c EXCEPT !.src = src, !.d.state = state]
Stop(c, src, r) == [c EXCEPT !.src = src, !.ret = r, !.done = TRUE]
\* A scan that runs into the end of the bytes leaves the loop.
Scan(c, S, Found(_)) ==
  LET i == Find(c.b, c.src, S)
  IN  IF AtEnd(c.b, i) THEN Stop(c, i, Partial) ELSE Found(i)

Complete(c, src) == Stop(c, src, Len(c.b) - src + 1)

TakeDigit(c, i) ==
  [Goes(c, i + 1) EXCEPT !.d.bytes_left_in_chunk = 16 * @ + HexValue(c.b[i]), !.d.hex_count = @ + 1]

\* Mutants of InChunkSize: one digit too many; the digits are not forgotten.
InChunkSize_TooMany(c) ==
  Scan(c, Nat, LAMBDA i :
    IF HexValue(c.b[i]) >= 0
    THEN IF c.d.hex_count > MaxHex THEN Stop(c, i, Failed) ELSE TakeDigit(c, i)
    ELSE [To(c, i, "EXT") EXCEPT !.d.hex_count = 0])
InChunkSize_KeepCount(c) ==
  Scan(c, Nat, LAMBDA i :
    IF HexValue(c.b[i]) >= 0 THEN TakeDigit(c, i)
    ELSE IF c.d.hex_count = 0 THEN Stop(c, i, Failed) ELSE To(c, i, "EXT"))

\* One byte of the size; blanks, a semicolon or a line end may follow it.
InChunkSize(c) ==
  Scan(c, Nat, LAMBDA i :
    IF HexValue(c.b[i]) >= 0
    THEN IF c.d.hex_count = MaxHex THEN Stop(c, i, Failed) ELSE TakeDigit(c, i)
    ELSE IF c.d.hex_count = 0 \/ c.b[i] \notin SizeEnds THEN Stop(c, i, Failed)
    ELSE [To(c, i, "EXT") EXCEPT !.d.hex_count = 0])

InChunkExt(c) ==
  Scan(c, {LF}, LAMBDA i :
    IF c.d.bytes_left_in_chunk # 0 THEN To(c, i + 1, "DATA")
    ELSE IF c.d.consume_trailer THEN To(c, i + 1, "HEAD")
    ELSE Complete(c, i + 1))

\* Copies n bytes of data to where the decoded bytes end.
Move(c, n) ==
  [Goes(c, c.src + n) EXCEPT !.out = @ \o SubSeq(c.b, c.src, c.src + n - 1),
                             !.d.bytes_left_in_chunk = @ - n]

\* Mutants of InChunkData: what is left is not reset at the end of the chunk; a
\* piece that ends with the chunk leaves the decoder in the data.
InChunkData_NoReset(c) ==
  LET avail == Len(c.b) - c.src + 1
      left == c.d.bytes_left_in_chunk
  IN  IF avail < left THEN Stop(Move(c, avail), c.src + avail, Partial)
      ELSE [To(Move(c, left), c.src + left, "CRLF") EXCEPT !.d.bytes_left_in_chunk = left]
InChunkData_Late(c) ==
  LET avail == Len(c.b) - c.src + 1
      left == c.d.bytes_left_in_chunk
  IN  IF avail <= left THEN Stop(Move(c, avail), c.src + avail, Partial)
      ELSE To(Move(c, left), c.src + left, "CRLF")

InChunkData(c) ==
  LET avail == Len(c.b) - c.src + 1
      left == c.d.bytes_left_in_chunk
  IN  IF avail < left THEN Stop(Move(c, avail), c.src + avail, Partial)
      ELSE To(Move(c, left), c.src + left, "CRLF")

InChunkCrlf(c) ==
  Scan(c, OtherThan({CR}),
       LAMBDA i : IF c.b[i] = LF THEN To(c, i + 1, "SIZE") ELSE Stop(c, i, Failed))

InTrailersLineHead(c) ==
  Scan(c, OtherThan({CR}),
       LAMBDA i : IF c.b[i] = LF THEN Complete(c, i + 1) ELSE To(c, i + 1, "MIDDLE"))

InTrailersLineMiddle(c) ==
  Scan(c, {LF}, LAMBDA i : To(c, i + 1, "HEAD"))

Step(c) ==
  IF c.done THEN c
  ELSE CASE c.d.state = "SIZE" -> InChunkSize(c)
         [] c.d.state = "EXT" -> InChunkExt(c)
         [] c.d.state = "DATA" -> InChunkData(c)
         [] c.d.state = "CRLF" -> InChunkCrlf(c)
         [] c.d.state = "HEAD" -> InTrailersLineHead(c)
         [] c.d.state = "MIDDLE" -> InTrailersLineMiddle(c)

\* A step consumes a byte, stops, or leaves the size before the byte after it.
Loop(c) ==
  LET after[n \in 0 .. 2 * Len(c.b) + 2] == IF n = 0 THEN c ELSE Step(after[n - 1])
  IN  after[2 * Len(c.b) + 2]

Refuse(d) ==
  d.total_overhead >= OverheadLimit /\ d.total_read - d.total_overhead < d.total_read \div 4

\* Mutant of Exit: what was decoded counts as overhead too.
Exit_AllOverhead(c) ==
  LET d == [c.d EXCEPT !.total_overhead = @ + Len(c.b)]
  IN  IF c.ret # Partial THEN c
      ELSE [c EXCEPT !.d = d, !.ret = IF Refuse(d) THEN Failed ELSE @]

Exit(c) ==
  LET d == [c.d EXCEPT !.total_overhead = @ + Len(c.b) - Len(c.out)]
  IN  IF c.ret # Partial THEN c
      ELSE [c EXCEPT !.d = d, !.ret = IF Refuse(d) THEN Failed ELSE @]

phr_decode_chunked(d, b) ==
  Exit(Loop([d |-> [d EXCEPT !.total_read = @ + Len(b)], b |-> b, src |-> 1,
             out |-> <<>>, ret |-> Partial, done |-> FALSE]))

phr_decode_chunked_is_in_data(d) == d.state = "DATA"
=============================================================================
