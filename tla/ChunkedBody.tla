----------------------------- MODULE ChunkedBody -----------------------------
(***************************************************************************)
(* What a chunked body is, one byte after the other: the reference for     *)
(* phr_decode_chunked, which takes many bytes at a time and keeps its place*)
(* between calls.                                                          *)
(***************************************************************************)
EXTENDS Bytes

CONSTANT MaxHex  \* the hexadecimal digits a size may have: sizeof(size_t) * 2

ASSUME MaxHexAssumption == MaxHex \in Nat \ {0}

\* The sizes that so many digits can say are less than this.
Sizes[n \in 0 .. MaxHex] == IF n = 0 THEN 1 ELSE 16 * Sizes[n - 1]

\* The part of the body that comes next, what is left of the chunk, and how
\* many digits of its size were read.
NewChunk == [part |-> "SIZE", left |-> 0, digits |-> 0]
Comes(q, part) == [part |-> part, left |-> q.left, digits |-> 0]

\* The line of a size ends; the chunk of size 0 is the last.
LineEnds(q, trailer) ==
  Comes(q, IF q.left > 0 THEN "DATA" ELSE IF trailer THEN "HEAD" ELSE "END")
Extension(q, x, trailer) == IF x = LF THEN LineEnds(q, trailer) ELSE Comes(q, "EXT")

SizeDigit(q, x) ==
  IF q.digits < MaxHex
  THEN [part |-> "SIZE", left |-> 16 * q.left + HexValue(x), digits |-> q.digits + 1]
  ELSE Comes(q, "WRONG")

Reads(q, x, trailer) ==
  CASE q.part = "SIZE" ->
         IF HexValue(x) >= 0 THEN SizeDigit(q, x)
         ELSE IF q.digits > 0 /\ x \in SizeEnds THEN Extension(q, x, trailer)
         ELSE Comes(q, "WRONG")
    [] q.part = "EXT" -> Extension(q, x, trailer)
    [] q.part = "DATA" -> [part |-> IF q.left = 1 THEN "CRLF" ELSE "DATA", left |-> q.left - 1, digits |-> 0]
    [] q.part = "CRLF" -> IF x = CR THEN q ELSE Comes(q, IF x = LF THEN "SIZE" ELSE "WRONG")
    [] q.part = "HEAD" -> IF x = CR THEN q ELSE Comes(q, IF x = LF THEN "END" ELSE "MIDDLE")
    [] q.part = "MIDDLE" -> IF x = LF THEN Comes(q, "HEAD") ELSE q
    [] q.part \in {"END", "WRONG"} -> q

\* What comes after each number of bytes.
AsRead(b, trailer) ==
  LET q[n \in 0 .. Len(b)] == IF n = 0 THEN NewChunk ELSE Reads(q[n - 1], b[n], trailer) IN q

\* The body is the first length bytes.
EndsAt(q, length) == length > 0 /\ q[length].part = "END" /\ q[length - 1].part # "END"
=============================================================================
