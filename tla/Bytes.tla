------------------------------- MODULE Bytes -------------------------------
(***************************************************************************)
(* Buffers as sequences of bytes, for the modules that model parsers.      *)
(* Positions count from 1, and Len(b) + 1 is the end of the buffer.        *)
(* A number above 255 stands for a whole word of text that no parser looks *)
(* into.                                                                   *)
(***************************************************************************)
EXTENDS Integers, Sequences, SequencesExt

NUL == 0
HT == 9
LF == 10
CR == 13
SP == 32
QUOTE == 34
COMMA == 44
MINUS == 45
DOT == 46
SLASH == 47
COLON == 58
DEL == 127

Digits == 48 .. 57
\* A chunk's size may be followed by a blank, a semicolon or a line end.
SizeEnds == {SP, HT, 59, LF, CR}

Controls == 0 .. 31 \cup {DEL}
Blanks == {SP, HT}
OtherThan(S) == Nat \ S

AtEnd(b, i) == i > Len(b)

\* The first position from i on that holds one of the bytes of S, or the end.
Find(b, i, S) ==
  LET j == SelectInSubSeq(b, i, Len(b), LAMBDA c : c \in S) IN IF j = 0 THEN Len(b) + 1 ELSE j

\* The value of a hexadecimal digit, or -1.
HexValue(c) ==
  CASE c \in Digits -> c - 48
    [] c \in 65 .. 70 -> c - 55
    [] c \in 97 .. 102 -> c - 87
    [] OTHER -> -1

\* Without the bytes of S at the end.
Strip(s, S) ==
  LET keep == {i \in DOMAIN s : s[i] \notin S}
  IN  IF keep = {} THEN <<>> ELSE SubSeq(s, 1, CHOOSE i \in keep : \A j \in keep : j <= i)

\* The bytes at marked positions among the first n, for each n.
Kept(s, b, n, marks) == IF n \in marks THEN Append(s, b[n]) ELSE s
Marked(b, marks) ==
  LET f[n \in 0 .. Len(b)] == IF n = 0 THEN <<>> ELSE Kept(f[n - 1], b, n, marks) IN f
=============================================================================
