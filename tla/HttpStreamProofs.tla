--------------------------- MODULE HttpStreamProofs ---------------------------
(***************************************************************************)
(* picohttpparser.c on a text that comes in pieces, for every text and     *)
(* every way to cut it: the parsers give what they give for the whole text *)
(* in one read, and never miss or refuse a head; the decoder for chunked   *)
(* bodies stands where the byte by byte reference of ChunkedBody does,     *)
(* hands out the data and nothing else, and stops where the body ends.     *)
(*                                                                         *)
(* A scan is compared with itself on the beginning of a text; a loop is a  *)
(* recursive function, and what holds after each of its steps holds since  *)
(* there is no smallest number of steps after which it does not.           *)
(***************************************************************************)
EXTENDS HttpStream, DataProofs, SequenceTheorems
-----------------------------------------------------------------------------
(* Positions in a buffer. *)

\* Find stops at the first byte of S, and nowhere else before the end.
LEMMA FindIs ==
  ASSUME NEW b, b \in Seq(Nat), NEW i, i \in Nat \ {0}, NEW S
  PROVE  \/ /\ Find(b, i, S) \in i .. Len(b) /\ b[Find(b, i, S)] \in S
            /\ \A j \in i .. Find(b, i, S) - 1 : b[j] \notin S
         \/ /\ Find(b, i, S) = Len(b) + 1
            /\ \A j \in i .. Len(b) : b[j] \notin S
<1> DEFINE I == {j \in i .. Len(b) : b[j] \in S}
<1>1. Find(b, i, S) = IF I # {} THEN IF Min(I) = 0 THEN Len(b) + 1 ELSE Min(I) ELSE Len(b) + 1
  BY DEF Find, SelectInSubSeq
<1>2. CASE I = {}
  BY <1>1, <1>2
<1>3. CASE I # {}
  <2>0. I \in SUBSET Nat
    OBVIOUS
  <2>1. PICK n \in I : \A m \in I : n <= m
    <3> HIDE DEF I
    <3> QED BY <1>3, <2>0, SmallestNumber
  <2>2. Min(I) = n
    BY <2>1 DEF Min
  <2>3. Find(b, i, S) = n
    BY <1>1, <1>3, <2>1, <2>2
  <2> HIDE DEF I
  <2>4. n \in i .. Len(b) /\ b[n] \in S /\ \A j \in i .. n - 1 : b[j] \notin S
    BY <2>1 DEF I
  <2> QED BY <2>3, <2>4
<1> QED BY <1>2, <1>3

\* A sequence of states that each follow from the one before stays where a
\* state is kept.
LEMMA Stays ==
  ASSUME NEW f, NEW lo, lo \in Nat, NEW hi, hi \in Nat, lo <= hi,
         \A j \in lo .. hi - 1 : f[j] = f[lo] => f[j + 1] = f[lo]
  PROVE  \A j \in lo .. hi : f[j] = f[lo]
<1> DEFINE W == {j \in lo .. hi : f[j] # f[lo]}
<1> SUFFICES ASSUME W # {} PROVE FALSE
  OBVIOUS
<1>0. W \in SUBSET Nat
  OBVIOUS
<1>1. PICK n \in W : \A m \in W : n <= m
  <2> HIDE DEF W
  <2> QED BY <1>0, SmallestNumber
<1>2. n - 1 \in lo .. hi - 1 /\ n - 1 \notin W
  BY <1>1
<1>3. f[n - 1] = f[lo]
  BY <1>2
<1>4. f[(n - 1) + 1] = f[lo]
  BY <1>2, <1>3
<1> QED BY <1>1, <1>4
-----------------------------------------------------------------------------
(* The loops of the parsers are functions of how many steps were taken: they *)
(* exist, so that they satisfy their equations.                              *)

IsAsRead(h, b, trailer, k) ==
  h = [n \in 0 .. k |-> IF n = 0 THEN NewChunk ELSE Reads(h[n - 1], b[n], trailer)]

\* The reference reads b to its end.
LEMMA SomeAsRead ==
  ASSUME NEW b, NEW trailer PROVE \A k \in Nat : \E h : IsAsRead(h, b, trailer, k)
<1> DEFINE W == {k \in Nat : ~ \E h : IsAsRead(h, b, trailer, k)}
<1> SUFFICES ASSUME W # {} PROVE FALSE
  OBVIOUS
<1>1. PICK k \in W : \A m \in W : k <= m
  <2>1. W \in SUBSET Nat
    OBVIOUS
  <2> HIDE DEF W
  <2> QED BY <2>1, SmallestNumber
<1>2. CASE k = 0
  <2> DEFINE g == [n \in 0 .. 0 |-> NewChunk]
  <2>1. \A n \in 0 .. 0 : NewChunk = (IF n = 0 THEN NewChunk ELSE Reads(g[n - 1], b[n], trailer))
    OBVIOUS
  <2>2. IsAsRead(g, b, trailer, 0)
    BY <2>1 DEF IsAsRead
  <2> QED BY <1>1, <1>2, <2>2
<1>3. CASE k # 0
  <2>1. k - 1 \in Nat /\ k - 1 \notin W
    BY <1>1, <1>3
  <2>2. PICK h : IsAsRead(h, b, trailer, k - 1)
    BY <2>1
  <2> DEFINE g == [n \in 0 .. k |-> IF n = 0 THEN NewChunk ELSE Reads(h[n - 1], b[n], trailer)]
  <2>3. \A n \in 0 .. k - 1 : g[n] = h[n]
    BY <1>1, <2>1, <2>2 DEF IsAsRead
  <2>4. \A n \in 0 .. k : (IF n = 0 THEN NewChunk ELSE Reads(h[n - 1], b[n], trailer))
                          = (IF n = 0 THEN NewChunk ELSE Reads(g[n - 1], b[n], trailer))
    <3> HIDE DEF g
    <3> TAKE n \in 0 .. k
    <3>1. n # 0 => n - 1 \in 0 .. k - 1
      BY <1>1
    <3>2. n # 0 => g[n - 1] = h[n - 1]
      BY <2>3, <3>1
    <3> QED BY <3>2
  <2>5. IsAsRead(g, b, trailer, k)
    BY <2>4, Zenon DEF IsAsRead
  <2> QED BY <1>1, <2>5
<1> QED BY <1>2, <1>3

\* AsRead is such a reading: it begins with a new chunk, and each byte moves it.
LEMMA AsReadIs ==
  ASSUME NEW b, b \in Seq(Nat), NEW trailer, NEW q, q = AsRead(b, trailer)
  PROVE  /\ q[0] = NewChunk
         /\ \A n \in 1 .. Len(b) : q[n] = Reads(q[n - 1], b[n], trailer)
<1>1. q = CHOOSE h : IsAsRead(h, b, trailer, Len(b))
  BY Zenon DEF IsAsRead, AsRead
<1>2. Len(b) \in Nat
  OBVIOUS
<1>3. IsAsRead(q, b, trailer, Len(b))
  BY <1>1, <1>2, SomeAsRead, Zenon
<1> QED BY <1>2, <1>3 DEF IsAsRead

IsMarked(h, b, marks, k) ==
  h = [n \in 0 .. k |-> IF n = 0 THEN <<>> ELSE Kept(h[n - 1], b, n, marks)]

\* The marked bytes can be collected one by one.
LEMMA SomeMarked ==
  ASSUME NEW b, NEW marks PROVE \A k \in Nat : \E h : IsMarked(h, b, marks, k)
<1> DEFINE W == {k \in Nat : ~ \E h : IsMarked(h, b, marks, k)}
<1> SUFFICES ASSUME W # {} PROVE FALSE
  OBVIOUS
<1>1. PICK k \in W : \A m \in W : k <= m
  <2>1. W \in SUBSET Nat
    OBVIOUS
  <2> HIDE DEF W
  <2> QED BY <2>1, SmallestNumber
<1>2. CASE k = 0
  <2> DEFINE g == [n \in 0 .. 0 |-> <<>>]
  <2>1. \A n \in 0 .. 0 : <<>> = (IF n = 0 THEN <<>> ELSE Kept(g[n - 1], b, n, marks))
    OBVIOUS
  <2>2. IsMarked(g, b, marks, 0)
    BY <2>1 DEF IsMarked
  <2> QED BY <1>1, <1>2, <2>2
<1>3. CASE k # 0
  <2>1. k - 1 \in Nat /\ k - 1 \notin W
    BY <1>1, <1>3
  <2>2. PICK h : IsMarked(h, b, marks, k - 1)
    BY <2>1
  <2> DEFINE g == [n \in 0 .. k |-> IF n = 0 THEN <<>> ELSE Kept(h[n - 1], b, n, marks)]
  <2>3. \A n \in 0 .. k - 1 : g[n] = h[n]
    BY <1>1, <2>1, <2>2 DEF IsMarked
  <2>4. \A n \in 0 .. k : (IF n = 0 THEN <<>> ELSE Kept(h[n - 1], b, n, marks))
                          = (IF n = 0 THEN <<>> ELSE Kept(g[n - 1], b, n, marks))
    <3> HIDE DEF g
    <3> TAKE n \in 0 .. k
    <3>1. n # 0 => n - 1 \in 0 .. k - 1
      BY <1>1
    <3>2. n # 0 => g[n - 1] = h[n - 1]
      BY <2>3, <3>1
    <3> QED BY <3>2
  <2>5. IsMarked(g, b, marks, k)
    BY <2>4, Zenon DEF IsMarked
  <2> QED BY <1>1, <2>5
<1> QED BY <1>2, <1>3

\* Marked collects them.
LEMMA MarkedIs ==
  ASSUME NEW b, b \in Seq(Nat), NEW marks, NEW f, f = Marked(b, marks)
  PROVE  /\ f[0] = <<>>
         /\ \A n \in 1 .. Len(b) : f[n] = Kept(f[n - 1], b, n, marks)
<1>1. f = CHOOSE h : IsMarked(h, b, marks, Len(b))
  BY Zenon DEF IsMarked, Marked
<1>2. Len(b) \in Nat
  OBVIOUS
<1>3. IsMarked(f, b, marks, Len(b))
  BY <1>1, <1>2, SomeMarked, Zenon
<1>4. \A n \in 0 .. Len(b) : f[n] = IF n = 0 THEN <<>> ELSE Kept(f[n - 1], b, n, marks)
  BY <1>3, Zenon DEF IsMarked
<1>5. 0 \in 0 .. Len(b) /\ \A n \in 1 .. Len(b) : n \in 0 .. Len(b) /\ n # 0
  BY <1>2
<1> QED BY <1>4, <1>5, Zenon

IsSizes(h, k) ==
  h = [n \in 0 .. k |-> IF n = 0 THEN 1 ELSE 16 * h[n - 1]]

\* There are sizes for any number of digits.
LEMMA SomeSizes ==
  \A k \in Nat : \E h : IsSizes(h, k)
<1> DEFINE W == {k \in Nat : ~ \E h : IsSizes(h, k)}
<1> SUFFICES ASSUME W # {} PROVE FALSE
  OBVIOUS
<1>1. PICK k \in W : \A m \in W : k <= m
  <2>1. W \in SUBSET Nat
    OBVIOUS
  <2> HIDE DEF W
  <2> QED BY <2>1, SmallestNumber
<1>2. CASE k = 0
  <2> DEFINE g == [n \in 0 .. 0 |-> 1]
  <2>1. \A n \in 0 .. 0 : 1 = (IF n = 0 THEN 1 ELSE 16 * g[n - 1])
    OBVIOUS
  <2>2. IsSizes(g, 0)
    BY <2>1 DEF IsSizes
  <2> QED BY <1>1, <1>2, <2>2
<1>3. CASE k # 0
  <2>1. k - 1 \in Nat /\ k - 1 \notin W
    BY <1>1, <1>3
  <2>2. PICK h : IsSizes(h, k - 1)
    BY <2>1
  <2> DEFINE g == [n \in 0 .. k |-> IF n = 0 THEN 1 ELSE 16 * h[n - 1]]
  <2>3. \A n \in 0 .. k - 1 : g[n] = h[n]
    BY <1>1, <2>1, <2>2 DEF IsSizes
  <2>4. \A n \in 0 .. k : (IF n = 0 THEN 1 ELSE 16 * h[n - 1])
                          = (IF n = 0 THEN 1 ELSE 16 * g[n - 1])
    <3> HIDE DEF g
    <3> TAKE n \in 0 .. k
    <3>1. n # 0 => n - 1 \in 0 .. k - 1
      BY <1>1
    <3>2. n # 0 => g[n - 1] = h[n - 1]
      BY <2>3, <3>1
    <3> QED BY <3>2
  <2>5. IsSizes(g, k)
    BY <2>4, Zenon DEF IsSizes
  <2> QED BY <1>1, <2>5
<1> QED BY <1>2, <1>3

\* Sizes is the powers of 16.
LEMMA SizesIs == Sizes[0] = 1 /\ \A n \in 1 .. MaxHex : Sizes[n] = 16 * Sizes[n - 1]
<1>1. Sizes = CHOOSE h : IsSizes(h, MaxHex)
  BY Zenon DEF IsSizes, Sizes
<1>2. MaxHex \in Nat
  BY MaxHexAssumption
<1>3. IsSizes(Sizes, MaxHex)
  BY <1>1, <1>2, SomeSizes, Zenon
<1> HIDE DEF Sizes
<1> QED BY <1>2, <1>3 DEF IsSizes

IsLoop(h, c, k) ==
  h = [n \in 0 .. k |-> IF n = 0 THEN c ELSE Step(h[n - 1])]

\* The loop of phr_decode_chunked can go on for any number of steps.
LEMMA SomeLoop ==
  ASSUME NEW c PROVE \A k \in Nat : \E h : IsLoop(h, c, k)
<1> DEFINE W == {k \in Nat : ~ \E h : IsLoop(h, c, k)}
<1> SUFFICES ASSUME W # {} PROVE FALSE
  OBVIOUS
<1>1. PICK k \in W : \A m \in W : k <= m
  <2>1. W \in SUBSET Nat
    OBVIOUS
  <2> HIDE DEF W
  <2> QED BY <2>1, SmallestNumber
<1>2. CASE k = 0
  <2> DEFINE g == [n \in 0 .. 0 |-> c]
  <2>1. \A n \in 0 .. 0 : c = (IF n = 0 THEN c ELSE Step(g[n - 1]))
    OBVIOUS
  <2>2. IsLoop(g, c, 0)
    BY <2>1 DEF IsLoop
  <2> QED BY <1>1, <1>2, <2>2
<1>3. CASE k # 0
  <2>1. k - 1 \in Nat /\ k - 1 \notin W
    BY <1>1, <1>3
  <2>2. PICK h : IsLoop(h, c, k - 1)
    BY <2>1
  <2> DEFINE g == [n \in 0 .. k |-> IF n = 0 THEN c ELSE Step(h[n - 1])]
  <2>3. \A n \in 0 .. k - 1 : g[n] = h[n]
    BY <1>1, <2>1, <2>2 DEF IsLoop
  <2>4. \A n \in 0 .. k : (IF n = 0 THEN c ELSE Step(h[n - 1]))
                          = (IF n = 0 THEN c ELSE Step(g[n - 1]))
    <3> HIDE DEF g
    <3> TAKE n \in 0 .. k
    <3>1. n # 0 => n - 1 \in 0 .. k - 1
      BY <1>1
    <3>2. n # 0 => g[n - 1] = h[n - 1]
      BY <2>3, <3>1
    <3> QED BY <3>2
  <2>5. IsLoop(g, c, k)
    BY <2>4, Zenon DEF IsLoop
  <2> QED BY <1>1, <2>5
<1> QED BY <1>2, <1>3

\* Loop takes as many steps as it says.
LEMMA LoopIs ==
  ASSUME NEW c, NEW k, k \in Nat, k = 2 * Len(c.b) + 2
  PROVE  \E h : h[0] = c /\ h[k] = Loop(c) /\ \A n \in 1 .. k : h[n] = Step(h[n - 1])
<1>1. PICK h : h = CHOOSE g : IsLoop(g, c, k)
  OBVIOUS
<1>2. Loop(c) = h[k]
  BY <1>1, Zenon DEF IsLoop, Loop
<1>3. IsLoop(h, c, k)
  BY <1>1, SomeLoop, Zenon
<1>4. h[0] = c /\ \A n \in 1 .. k : h[n] = Step(h[n - 1])
  <2> PICK m \in Nat : m = k
    OBVIOUS
  <2>1. IsLoop(h, c, m)
    BY <1>3
  <2>2. 0 \in 0 .. m /\ \A n \in 1 .. m : n \in 0 .. m /\ n # 0
    OBVIOUS
  <2>3. \A n \in 0 .. m : h[n] = IF n = 0 THEN c ELSE Step(h[n - 1])
    BY <2>1, Zenon DEF IsLoop
  <2> QED BY <2>2, <2>3, Zenon
<1> QED BY <1>2, <1>4
-----------------------------------------------------------------------------
(* The reference for chunked bodies. *)

Parts == {"SIZE", "EXT", "DATA", "CRLF", "HEAD", "MIDDLE"}

\* What the reference knows after any bytes: a size fits in its digits, and no
\* chunk of size 0 has data.
Sound(q) ==
  /\ q \in [part : Parts \cup {"END", "WRONG"}, left : Nat, digits : 0 .. MaxHex]
  /\ q.left < Sizes[IF q.part = "SIZE" THEN q.digits ELSE MaxHex]
  /\ q.part # "SIZE" => q.digits = 0
  /\ q.part = "DATA" => q.left > 0
  /\ q.part \in {"CRLF", "HEAD", "MIDDLE"} => q.left = 0

\* A digit is worth less than 16.
LEMMA HexRange == \A x \in Nat : HexValue(x) \in -1 .. 15
BY DEF HexValue, Digits

\* Fewer digits than MaxHex do not say more.
LEMMA SizesGrow ==
  /\ \A n \in 0 .. MaxHex : Sizes[n] \in Nat \ {0}
  /\ \A n \in 0 .. MaxHex : Sizes[n] <= Sizes[MaxHex]
<1>0. MaxHex \in Nat
  BY MaxHexAssumption
<1> DEFINE W == {n \in 0 .. MaxHex : Sizes[n] \notin Nat \ {0}}
           V == {n \in 0 .. MaxHex : ~ (Sizes[MaxHex - n] <= Sizes[MaxHex])}
<1>1. ASSUME W # {} PROVE FALSE
  <2>1. PICK n \in W : \A m \in W : n <= m
    <3>1. W \in SUBSET Nat
      OBVIOUS
    <3> HIDE DEF W
    <3> QED BY <1>1, <3>1, SmallestNumber
  <2>2. n # 0
    BY <2>1, SizesIs
  <2>3. n - 1 \in 0 .. MaxHex /\ n - 1 \notin W /\ n \in 1 .. MaxHex
    BY <1>0, <2>1, <2>2
  <2>4. Sizes[n - 1] \in Nat \ {0}
    BY <2>3
  <2>5. Sizes[n] = 16 * Sizes[n - 1]
    BY <2>3, SizesIs
  <2> HIDE DEF Sizes
  <2> QED BY <2>1, <2>4, <2>5
<1>2. \A n \in 0 .. MaxHex : Sizes[n] \in Nat \ {0}
  BY <1>1
<1>3. ASSUME V # {} PROVE FALSE
  <2>1. PICK n \in V : \A m \in V : n <= m
    <3>1. V \in SUBSET Nat
      OBVIOUS
    <3> HIDE DEF V
    <3> QED BY <1>3, <3>1, SmallestNumber
  <2>2. MaxHex \in 0 .. MaxHex /\ Sizes[MaxHex] \in Nat
    BY <1>0, <1>2
  <2>3. n # 0
    BY <1>0, <2>1, <2>2
  <2>4. n - 1 \in 0 .. MaxHex /\ n - 1 \notin V /\ MaxHex - (n - 1) \in 1 .. MaxHex
    BY <1>0, <2>1, <2>3
  <2>5. PICK k \in 1 .. MaxHex : k = MaxHex - (n - 1)
    BY <2>4
  <2>6. Sizes[k] <= Sizes[MaxHex]
    BY <2>4, <2>5
  <2>7. Sizes[k] = 16 * Sizes[k - 1] /\ k - 1 = MaxHex - n /\ k - 1 \in 0 .. MaxHex
    BY <1>0, <2>1, <2>5, SizesIs
  <2>8. Sizes[k - 1] \in Nat
    BY <1>2, <2>7
  <2>9. Sizes[k - 1] <= Sizes[MaxHex]
    BY <2>2, <2>6, <2>7, <2>8
  <2> QED BY <2>1, <2>7, <2>9
<1>4. \A n \in 0 .. MaxHex : Sizes[n] <= Sizes[MaxHex]
  <2> TAKE n \in 0 .. MaxHex
  <2>1. MaxHex - n \in 0 .. MaxHex /\ MaxHex - (MaxHex - n) = n
    BY <1>0
  <2>2. MaxHex - n \notin V
    BY <1>3
  <2> QED BY <2>1, <2>2
<1> QED BY <1>2, <1>4

\* The reference is sound at the start ...
LEMMA NewChunkSound == Sound(NewChunk)
<1>1. Sizes[0] = 1 /\ 0 \in 0 .. MaxHex
  BY SizesIs, MaxHexAssumption
<1> HIDE DEF Sizes
<1> QED BY <1>1 DEF Sound, NewChunk, Parts

\* ... and a byte keeps it so ...
LEMMA ReadsSound ==
  ASSUME NEW q, Sound(q), NEW x, x \in Nat, NEW trailer
  PROVE  Sound(Reads(q, x, trailer))
<1>0. MaxHex \in Nat /\ HexValue(x) \in -1 .. 15
  BY HexRange, MaxHexAssumption
<1>1. /\ q \in [part : Parts \cup {"END", "WRONG"}, left : Nat, digits : 0 .. MaxHex]
      /\ q.digits \in 0 .. MaxHex /\ MaxHex \in 0 .. MaxHex
  BY <1>0 DEF Sound
<1>2. Sizes[q.digits] \in Nat /\ Sizes[MaxHex] \in Nat /\ Sizes[q.digits] <= Sizes[MaxHex]
  BY <1>1, SizesGrow
<1>3. q.left < Sizes[MaxHex]
  BY <1>1, <1>2 DEF Sound
<1>4. q.digits < MaxHex =>
        /\ Sizes[q.digits + 1] = 16 * Sizes[q.digits]
        /\ Sizes[q.digits + 1] <= Sizes[MaxHex] /\ Sizes[q.digits + 1] \in Nat
  <2> SUFFICES ASSUME q.digits < MaxHex PROVE /\ Sizes[q.digits + 1] = 16 * Sizes[q.digits]
        /\ Sizes[q.digits + 1] <= Sizes[MaxHex] /\ Sizes[q.digits + 1] \in Nat
    OBVIOUS
  <2>1. q.digits + 1 \in 1 .. MaxHex /\ q.digits + 1 \in 0 .. MaxHex /\ (q.digits + 1) - 1 = q.digits
    BY <1>0, <1>1
  <2> HIDE DEF Sizes
  <2> QED BY <2>1, SizesIs, SizesGrow
<1> HIDE DEF Sizes
<1>5. ASSUME NEW part \in {"EXT", "END", "WRONG"} PROVE Sound(Comes(q, part))
  BY <1>0, <1>1, <1>3, <1>5 DEF Sound, Comes, Parts
<1>6. Sound(LineEnds(q, trailer))
  BY <1>0, <1>1, <1>3 DEF Sound, LineEnds, Comes, Parts
<1>7. Sound(Extension(q, x, trailer))
  BY <1>5, <1>6 DEF Extension
<1>8. CASE q.part = "SIZE"
  <2>1. CASE HexValue(x) >= 0 /\ q.digits < MaxHex
    <3>1. Reads(q, x, trailer) =
            [part |-> "SIZE", left |-> 16 * q.left + HexValue(x), digits |-> q.digits + 1]
      BY <1>8, <2>1 DEF Reads, SizeDigit
    <3>2. q.left < Sizes[q.digits]
      BY <1>8 DEF Sound
    <3>3. 16 * q.left + HexValue(x) \in Nat /\ 16 * q.left + HexValue(x) < Sizes[q.digits + 1]
      <4> PICK s, t, l, v : s = Sizes[q.digits] /\ t = Sizes[q.digits + 1] /\ l = q.left /\ v = HexValue(x)
        OBVIOUS
      <4>1. s \in Nat /\ t = 16 * s /\ l \in Nat /\ v \in 0 .. 15 /\ l < s
        BY <1>0, <1>1, <1>2, <1>4, <2>1, <3>2
      <4> QED BY <4>1
    <3>4. q.digits + 1 \in 0 .. MaxHex
      BY <1>0, <1>1, <2>1
    <3> QED BY <3>1, <3>3, <3>4 DEF Sound, Parts
  <2>2. CASE ~ (HexValue(x) >= 0 /\ q.digits < MaxHex)
    BY <1>0, <1>1, <1>5, <1>7, <1>8, <2>2 DEF Reads, SizeDigit
  <2> QED BY <2>1, <2>2
<1>9. CASE q.part = "DATA"
  BY <1>0, <1>1, <1>2, <1>3, <1>9 DEF Sound, Parts, Reads
<1>10. CASE q.part \in {"CRLF", "HEAD", "MIDDLE"}
  <2>1. Sizes[0] = 1 /\ q.left = 0
    BY <1>10, SizesIs DEF Sound
  <2>2. ASSUME NEW part \in {"SIZE", "HEAD", "MIDDLE", "END", "WRONG"} PROVE Sound(Comes(q, part))
    BY <1>0, <1>1, <1>2, <1>3, <2>1, <2>2 DEF Sound, Parts, Comes
  <2> QED BY <1>10, <2>2 DEF Reads
<1>11. CASE q.part = "EXT"
  BY <1>7, <1>11 DEF Reads
<1>12. CASE q.part \in {"END", "WRONG"}
  BY <1>12 DEF Reads
<1> QED BY <1>1, <1>8, <1>9, <1>10, <1>11, <1>12 DEF Parts

\* A function of positions that follows the reference stays sound.
IsReading(p, b, trailer) ==
  Sound(p[0]) /\ \A n \in 1 .. Len(b) : p[n] = Reads(p[n - 1], b[n], trailer)

\* ... thus after every number of bytes: what is left of a chunk fits in the
\* integer that holds it.
LEMMA AlwaysSound ==
  ASSUME NEW b, b \in Seq(Nat), NEW trailer, NEW p, IsReading(p, b, trailer)
  PROVE  \A n \in 0 .. Len(b) : Sound(p[n])
<1> DEFINE W == {n \in 0 .. Len(b) : ~ Sound(p[n])}
<1> SUFFICES ASSUME W # {} PROVE FALSE
  OBVIOUS
<1>1. PICK n \in W : \A m \in W : n <= m
  <2>1. W \in SUBSET Nat
    OBVIOUS
  <2> HIDE DEF W
  <2> QED BY <2>1, SmallestNumber
<1>2. n # 0 /\ n \in 0 .. Len(b)
  BY <1>1 DEF IsReading
<1>3. n - 1 \in 0 .. Len(b) /\ n - 1 \notin W /\ n \in 1 .. Len(b)
  BY <1>1, <1>2
<1>4. Sound(p[n - 1]) /\ b[n] \in Nat
  BY <1>3
<1>5. Sound(Reads(p[n - 1], b[n], trailer))
  BY <1>4, ReadsSound
<1> QED BY <1>1, <1>3, <1>5 DEF IsReading
-----------------------------------------------------------------------------
(* One call of the decoder, step by step, against the reference. *)

Decoders == [bytes_left_in_chunk : Nat, consume_trailer : BOOLEAN, hex_count : Nat,
             state : Parts, total_read : Nat, total_overhead : Nat]
CallsInProgress == [d : Decoders, b : Seq(Nat), src : Nat, out : Seq(Nat), ret : Int, done : BOOLEAN]

\* The decoder stands where the reference does.
Tracks(d, q) ==
  /\ d.state = q.part /\ d.bytes_left_in_chunk = q.left /\ d.hex_count = q.digits

\* The loop has left the size, but not read the byte after it.
BeforeExt(c, q) ==
  /\ c.d.state = "EXT" /\ q.part = "SIZE" /\ q.digits > 0
  /\ c.d.bytes_left_in_chunk = q.left /\ c.d.hex_count = 0
  /\ c.src <= Len(c.b) /\ HexValue(c.b[c.src]) < 0 /\ c.b[c.src] \in SizeEnds

\* Why the loop was left, and where.
Left(c, p) ==
  \/ c.ret = Partial /\ c.src = Len(c.b) + 1 /\ Tracks(c.d, p[Len(c.b)])
  \/ /\ c.ret = Failed /\ c.src <= Len(c.b) /\ p[c.src].part = "WRONG"
     /\ c.d.bytes_left_in_chunk < Sizes[MaxHex]
  \/ /\ c.ret = Len(c.b) - c.src + 1 /\ c.src >= 2 /\ p[c.src - 1].part = "END" /\ p[c.src - 2].part # "END"
     /\ c.d.bytes_left_in_chunk < Sizes[MaxHex]

\* What the loop keeps, with p the reference and e its data.
InStep(c, p, e) ==
  /\ c \in CallsInProgress
  /\ c.src \in 1 .. Len(c.b) + 1
  /\ c.out = e[c.src - 1]
  /\ IF c.done THEN Left(c, p)
     ELSE c.ret = Partial /\ (Tracks(c.d, p[c.src - 1]) \/ BeforeExt(c, p[c.src - 1]))

\* What a step leaves alone.
SameCall(c, a) ==
  /\ c.b = a.b /\ c.d.consume_trailer = a.d.consume_trailer
  /\ c.d.total_read = a.d.total_read /\ c.d.total_overhead = a.d.total_overhead

\* How far the loop is.
Reached(c) == 2 * c.src + (IF c.d.state = "EXT" THEN 1 ELSE 0)

InData(p, b) == {n \in 1 .. Len(b) : p[n - 1].part = "DATA"}

\* Bytes lo + 1 to hi, with e the data of the reference p.
Between(b, p, e, lo, hi) ==
  /\ b \in Seq(Nat) /\ e = Marked(b, InData(p, b))
  /\ lo \in Nat /\ hi \in Nat /\ lo <= hi /\ hi <= Len(b)
Outside(b, p, e, lo, hi) == Between(b, p, e, lo, hi) /\ \A j \in lo .. hi - 1 : p[j].part # "DATA"
Waiting(b, p, e, lo, hi, trailer) ==
  /\ Between(b, p, e, lo, hi) /\ IsReading(p, b, trailer) /\ p[lo].part # "DATA"
  /\ \A j \in lo + 1 .. hi : Reads(p[lo], b[j], trailer) = p[lo]

\* The data do not grow outside of a chunk.
LEMMA NoData ==
  ASSUME NEW b, NEW p, NEW e, NEW lo, NEW hi, Outside(b, p, e, lo, hi)
  PROVE  e[hi] = e[lo]
<1>0. /\ b \in Seq(Nat) /\ e = Marked(b, InData(p, b)) /\ lo \in Nat /\ hi \in Nat /\ lo <= hi
      /\ hi <= Len(b) /\ \A j \in lo .. hi - 1 : p[j].part # "DATA"
  BY DEF Outside, Between
<1> USE <1>0
<1>1. \A j \in lo .. hi - 1 : e[j + 1] = e[j]
  <2> TAKE j \in lo .. hi - 1
  <2>1. j + 1 \in 1 .. Len(b) /\ (j + 1) - 1 = j
    OBVIOUS
  <2>2. j + 1 \notin InData(p, b)
    BY <2>1 DEF InData
  <2>3. e[j + 1] = Kept(e[(j + 1) - 1], b, j + 1, InData(p, b))
    BY <2>1, MarkedIs
  <2> QED BY <2>1, <2>2, <2>3 DEF Kept
<1>2. \A j \in lo .. hi - 1 : e[j] = e[lo] => e[j + 1] = e[lo]
  BY <1>1
<1>3. \A j \in lo .. hi : e[j] = e[lo]
  BY <1>2, Stays
<1> QED BY <1>3

\* Bytes at which the reference does not move.
LEMMA Waits ==
  ASSUME NEW b, NEW p, NEW e, NEW lo, NEW hi, NEW trailer, Waiting(b, p, e, lo, hi, trailer)
  PROVE  p[hi] = p[lo] /\ e[hi] = e[lo]
<1>0. /\ b \in Seq(Nat) /\ e = Marked(b, InData(p, b)) /\ lo \in Nat /\ hi \in Nat /\ lo <= hi
      /\ hi <= Len(b) /\ IsReading(p, b, trailer) /\ p[lo].part # "DATA"
      /\ \A j \in lo + 1 .. hi : Reads(p[lo], b[j], trailer) = p[lo]
  BY DEF Waiting, Between
<1> USE <1>0
<1>1. \A j \in lo .. hi - 1 : p[j] = p[lo] => p[j + 1] = p[lo]
  <2> TAKE j \in lo .. hi - 1
  <2>1. j + 1 \in 1 .. Len(b) /\ (j + 1) - 1 = j /\ j + 1 \in lo + 1 .. hi
    OBVIOUS
  <2>2. p[j + 1] = Reads(p[(j + 1) - 1], b[j + 1], trailer)
    BY <2>1 DEF IsReading
  <2> QED BY <2>1, <2>2
<1>2. \A j \in lo .. hi : p[j] = p[lo]
  BY <1>1, Stays
<1>3. \A j \in lo .. hi - 1 : p[j].part # "DATA"
  BY <1>2
<1>4. Outside(b, p, e, lo, hi)
  BY <1>0, <1>3 DEF Outside, Between
<1> QED BY <1>2, <1>4, NoData

\* What the helpers of the loop make of a call in progress.
LEMMA StopIs ==
  ASSUME NEW c, NEW src, NEW r, NEW s, c \in CallsInProgress, src \in Nat, r \in Int, s = Stop(c, src, r)
  PROVE  /\ s \in CallsInProgress /\ s.d = c.d /\ s.b = c.b /\ s.out = c.out
         /\ s.src = src /\ s.ret = r /\ s.done
BY DEF Stop, CallsInProgress

\* The loop goes on in another state.
LEMMA ToIs ==
  ASSUME NEW c, NEW src, NEW state, NEW s,
         c \in CallsInProgress, src \in Nat, state \in Parts, s = To(c, src, state)
  PROVE  /\ s \in CallsInProgress /\ s.b = c.b /\ s.out = c.out /\ s.src = src
         /\ s.ret = c.ret /\ s.done = c.done
         /\ s.d.state = state /\ s.d.bytes_left_in_chunk = c.d.bytes_left_in_chunk
         /\ s.d.hex_count = c.d.hex_count /\ SameCall(s, c)
<1>1. s = [c EXCEPT !.src = src, !.d = [c.d EXCEPT !.state = state]]
  BY DEF To, CallsInProgress
<1>2. c.d \in Decoders
  BY DEF CallsInProgress
<1>3. PICK d : d = [c.d EXCEPT !.state = state]
  OBVIOUS
<1>4. /\ d \in Decoders /\ d.state = state /\ d.bytes_left_in_chunk = c.d.bytes_left_in_chunk
      /\ d.hex_count = c.d.hex_count /\ d.consume_trailer = c.d.consume_trailer
      /\ d.total_read = c.d.total_read /\ d.total_overhead = c.d.total_overhead
  BY <1>2, <1>3 DEF Decoders
<1>5. /\ s \in CallsInProgress /\ s.b = c.b /\ s.out = c.out /\ s.src = src
      /\ s.ret = c.ret /\ s.done = c.done /\ s.d = d
  BY <1>1, <1>3, <1>4 DEF CallsInProgress
<1> QED BY <1>3, <1>4, <1>5 DEF SameCall

\* The result of a step.
Stepped(s, c, p, e) ==
  InStep(s, p, e) /\ SameCall(s, c) /\ (s.done \/ Reached(s) > Reached(c))

\* The reference and the data for the bytes of a call.
OfCall(c, p, e) ==
  /\ c \in CallsInProgress
  /\ IsReading(p, c.b, c.d.consume_trailer) /\ e = Marked(c.b, InData(p, c.b))

\* What is left of a chunk was said by so many digits.
LEMMA SoundLeft ==
  ASSUME NEW q, Sound(q) PROVE q.left < Sizes[MaxHex] /\ q.left \in Nat
<1>1. /\ q.digits \in 0 .. MaxHex /\ MaxHex \in 0 .. MaxHex /\ q.left \in Nat
  BY MaxHexAssumption DEF Sound
<1>2. Sizes[q.digits] \in Nat /\ Sizes[MaxHex] \in Nat /\ Sizes[q.digits] <= Sizes[MaxHex]
  BY <1>1, SizesGrow
<1>3. q.left < Sizes[q.digits] \/ q.left < Sizes[MaxHex]
  BY DEF Sound
<1> HIDE DEF Sizes
<1> QED BY <1>1, <1>2, <1>3

\* What is left of a chunk is less than MaxHex digits can say.
LEMMA Bounded ==
  ASSUME NEW c, NEW p, NEW e, OfCall(c, p, e), InStep(c, p, e), ~ c.done
  PROVE  c.d.bytes_left_in_chunk < Sizes[MaxHex]
<1>1. c.src \in 1 .. Len(c.b) + 1 /\ c.b \in Seq(Nat) /\ IsReading(p, c.b, c.d.consume_trailer)
  BY DEF InStep, OfCall, CallsInProgress
<1>2. \A n \in 0 .. Len(c.b) : Sound(p[n])
  BY <1>1, AlwaysSound
<1>3. c.src - 1 \in 0 .. Len(c.b)
  BY <1>1
<1>4. c.d.bytes_left_in_chunk = p[c.src - 1].left
  BY DEF InStep, Tracks, BeforeExt
<1>5. p[c.src - 1].left < Sizes[MaxHex]
  BY <1>2, <1>3, SoundLeft
<1> QED BY <1>4, <1>5

\* A scan that runs into the end: the reference has only waited.
LEMMA RunsOut ==
  ASSUME NEW c, NEW p, NEW e, OfCall(c, p, e), InStep(c, p, e), ~ c.done,
         Tracks(c.d, p[Len(c.b)]), e[Len(c.b)] = e[c.src - 1]
  PROVE  Stepped(Stop(c, Len(c.b) + 1, Partial), c, p, e)
<1>1. c \in CallsInProgress /\ Len(c.b) \in Nat
  BY DEF OfCall, CallsInProgress
<1>a. PICK i : i = Len(c.b) + 1
  BY <1>1
<1>b. PICK r : r = Partial
  OBVIOUS
<1>0. PICK s : s = Stop(c, i, r)
  OBVIOUS
<1>c. /\ s \in CallsInProgress /\ s.d = c.d /\ s.b = c.b /\ s.out = c.out
      /\ s.src = i /\ s.ret = r /\ s.done
  <2>1. c \in CallsInProgress /\ i \in Nat /\ r \in Int
    BY <1>1, <1>a, <1>b DEF Failed, Partial
  <2> QED BY <1>0, <2>1, StopIs
<1>2. /\ s \in CallsInProgress /\ s.d = c.d /\ s.b = c.b /\ s.out = c.out
      /\ s.src = Len(c.b) + 1 /\ s.ret = Partial /\ s.done
  BY <1>a, <1>b, <1>c
<1>3. s.out = e[s.src - 1] /\ s.src \in 1 .. Len(s.b) + 1 /\ Len(s.b) = Len(c.b)
  <2>1. c.out = e[c.src - 1] /\ (Len(c.b) + 1) - 1 = Len(c.b)
    BY <1>1 DEF InStep
  <2> QED BY <1>1, <1>2, <2>1
<1>4. Left(s, p)
  BY <1>1, <1>2, <1>3 DEF Left
<1>5. InStep(s, p, e)
  BY <1>2, <1>3, <1>4 DEF InStep
<1> QED BY <1>0, <1>a, <1>b, <1>2, <1>5 DEF Stepped, SameCall

\* A byte the protocol does not allow.
LEMMA Fails ==
  ASSUME NEW c, NEW p, NEW e, OfCall(c, p, e), InStep(c, p, e), ~ c.done,
         NEW i, i \in c.src .. Len(c.b), p[i].part = "WRONG", e[i - 1] = e[c.src - 1]
  PROVE  Stepped(Stop(c, i, Failed), c, p, e)
<1>1. c \in CallsInProgress /\ Len(c.b) \in Nat /\ i \in 1 .. Len(c.b) + 1 /\ i \in Nat
  BY DEF OfCall, InStep, CallsInProgress
<1>b. PICK r : r = Failed
  OBVIOUS
<1>0. PICK s : s = Stop(c, i, r)
  OBVIOUS
<1>c. /\ s \in CallsInProgress /\ s.d = c.d /\ s.b = c.b /\ s.out = c.out
      /\ s.src = i /\ s.ret = r /\ s.done
  <2>1. c \in CallsInProgress /\ i \in Nat /\ r \in Int
    BY <1>1, <1>b DEF Failed, Partial
  <2> QED BY <1>0, <2>1, StopIs
<1>2. /\ s \in CallsInProgress /\ s.d = c.d /\ s.b = c.b /\ s.out = c.out
      /\ s.src = i /\ s.ret = Failed /\ s.done
  BY <1>b, <1>c
<1>3. s.out = e[s.src - 1] /\ s.src \in 1 .. Len(s.b) + 1 /\ Len(s.b) = Len(c.b)
  <2>1. c.out = e[c.src - 1]
    BY DEF InStep
  <2> QED BY <1>1, <1>2, <2>1
<1>d. c.d.bytes_left_in_chunk < Sizes[MaxHex]
  BY Bounded
<1> HIDE DEF Sizes
<1>4. Left(s, p)
  BY <1>1, <1>2, <1>3, <1>d DEF Left
<1>5. InStep(s, p, e)
  BY <1>2, <1>3, <1>4 DEF InStep
<1> QED BY <1>0, <1>b, <1>2, <1>5 DEF Stepped, SameCall

\* The body ends with byte i.
LEMMA Completes ==
  ASSUME NEW c, NEW p, NEW e, OfCall(c, p, e), InStep(c, p, e), ~ c.done,
         NEW i, i \in c.src .. Len(c.b), p[i].part = "END", p[i - 1].part # "END", e[i] = e[c.src - 1]
  PROVE  Stepped(Complete(c, i + 1), c, p, e)
<1>0. PICK r : r = Len(c.b) - (i + 1) + 1
  OBVIOUS
<1>1. c \in CallsInProgress /\ Len(c.b) \in Nat /\ i \in 1 .. Len(c.b) /\ i + 1 \in Nat /\ r \in Int
  <2>1. c \in CallsInProgress /\ c.src \in 1 .. Len(c.b) + 1
    BY DEF InStep
  <2>2. c.b \in Seq(Nat)
    BY <2>1 DEF CallsInProgress
  <2>3. Len(c.b) \in Nat
    BY <2>2
  <2>4. i \in 1 .. Len(c.b)
    BY <2>1, <2>3
  <2> QED BY <1>0, <2>1, <2>3, <2>4
<1>2. PICK s : s = Stop(c, i + 1, r)
  OBVIOUS
<1>3. /\ s \in CallsInProgress /\ s.d = c.d /\ s.b = c.b /\ s.out = c.out
      /\ s.src = i + 1 /\ s.ret = r /\ s.done
  BY <1>1, <1>2, StopIs
<1>4. (i + 1) - 1 = i /\ (i + 1) - 2 = i - 1 /\ i + 1 \in 1 .. Len(c.b) + 1 /\ i + 1 >= 2
  BY <1>1
<1>d. c.d.bytes_left_in_chunk < Sizes[MaxHex]
  BY Bounded
<1> HIDE DEF Sizes
<1>5. InStep(s, p, e)
  BY <1>0, <1>1, <1>3, <1>4, <1>d DEF InStep, Left
<1> QED BY <1>0, <1>2, <1>3, <1>5 DEF Stepped, SameCall, Complete

\* The loop goes on after byte i, in another part of the body.
LEMMA GoesOn ==
  ASSUME NEW c, NEW p, NEW e, OfCall(c, p, e), InStep(c, p, e), ~ c.done,
         NEW i, i \in c.src .. Len(c.b), e[i] = e[c.src - 1], NEW part, part \in Parts,
         p[i].part = part, p[i].left = c.d.bytes_left_in_chunk, p[i].digits = c.d.hex_count
  PROVE  Stepped(To(c, i + 1, part), c, p, e)
<1>1. c \in CallsInProgress /\ Len(c.b) \in Nat /\ i \in 1 .. Len(c.b) /\ i + 1 \in Nat /\ c.src \in Nat
  BY DEF OfCall, InStep, CallsInProgress
<1>a. PICK j : j = i + 1
  BY <1>1
<1>0. PICK s : s = To(c, j, part)
  OBVIOUS
<1>b. /\ s \in CallsInProgress /\ s.b = c.b /\ s.out = c.out /\ s.src = j
      /\ s.ret = c.ret /\ s.done = c.done /\ s.d.state = part
      /\ s.d.bytes_left_in_chunk = c.d.bytes_left_in_chunk
      /\ s.d.hex_count = c.d.hex_count /\ SameCall(s, c)
  <2>1. c \in CallsInProgress /\ j \in Nat /\ part \in Parts
    BY <1>1, <1>a
  <2> QED BY <1>0, <2>1, ToIs
<1>2. /\ s \in CallsInProgress /\ s.b = c.b /\ s.out = c.out /\ s.src = i + 1
      /\ s.ret = c.ret /\ s.done = c.done /\ s.d.state = part
      /\ s.d.bytes_left_in_chunk = c.d.bytes_left_in_chunk
      /\ s.d.hex_count = c.d.hex_count /\ SameCall(s, c)
  BY <1>a, <1>b
<1>3. (i + 1) - 1 = i /\ i + 1 \in 1 .. Len(c.b) + 1
  BY <1>1
<1>4. InStep(s, p, e)
  BY <1>1, <1>2, <1>3 DEF InStep, Tracks
<1>5. Reached(s) > Reached(c)
  <2> PICK x, y : x = (IF c.d.state = "EXT" THEN 1 ELSE 0) /\ y = (IF s.d.state = "EXT" THEN 1 ELSE 0)
    OBVIOUS
  <2>1. x \in 0 .. 1 /\ y \in 0 .. 1
    OBVIOUS
  <2>2. Reached(c) = 2 * c.src + x /\ Reached(s) = 2 * (i + 1) + y
    BY <1>2 DEF Reached
  <2> QED BY <1>1, <2>1, <2>2
<1> QED BY <1>0, <1>a, <1>2, <1>4, <1>5 DEF Stepped

\* A byte that is read outside of a chunk.
LEMMA OneByte ==
  ASSUME NEW c, NEW p, NEW e, OfCall(c, p, e),
         NEW i, i \in 1 .. Len(c.b), p[i - 1].part # "DATA"
  PROVE  p[i] = Reads(p[i - 1], c.b[i], c.d.consume_trailer) /\ e[i] = e[i - 1] /\ c.b[i] \in Nat
<1>1. c.b \in Seq(Nat) /\ IsReading(p, c.b, c.d.consume_trailer) /\ e = Marked(c.b, InData(p, c.b))
  BY DEF OfCall, CallsInProgress
<1>2. p[i] = Reads(p[i - 1], c.b[i], c.d.consume_trailer) /\ c.b[i] \in Nat
  BY <1>1 DEF IsReading
<1>3. PICK lo, hi, b : lo = i - 1 /\ hi = i /\ b = c.b
  OBVIOUS
<1>4. lo \in Nat /\ hi \in Nat /\ lo <= hi /\ hi <= Len(b) /\ lo .. hi - 1 = {lo} /\ b \in Seq(Nat)
  BY <1>1, <1>3
<1>5. Outside(b, p, e, lo, hi)
  BY <1>1, <1>3, <1>4 DEF Outside, Between
<1>7. e[hi] = e[lo]
  BY <1>5, NoData
<1> QED BY <1>2, <1>3, <1>7

\* A scan over bytes at which the reference waits.
Scanning(c, p, e, lo, S, i) ==
  /\ OfCall(c, p, e) /\ lo \in Nat /\ lo <= Len(c.b) /\ i = Find(c.b, lo + 1, S) /\ p[lo].part # "DATA"
  /\ \A x \in Nat \ S : Reads(p[lo], x, c.d.consume_trailer) = p[lo]

\* A scan for bytes of S while the reference waits for them.
LEMMA Scanned ==
  ASSUME NEW c, NEW p, NEW e, NEW lo, NEW S, NEW i, Scanning(c, p, e, lo, S, i)
  PROVE  \/ i = Len(c.b) + 1 /\ p[Len(c.b)] = p[lo] /\ e[Len(c.b)] = e[lo]
         \/ /\ i \in lo + 1 .. Len(c.b) /\ c.b[i] \in S /\ p[i - 1] = p[lo] /\ c.b[i] \in Nat
            /\ p[i] = Reads(p[lo], c.b[i], c.d.consume_trailer) /\ e[i] = e[lo]
<1>0. /\ OfCall(c, p, e) /\ lo \in Nat /\ lo <= Len(c.b) /\ i = Find(c.b, lo + 1, S) /\ p[lo].part # "DATA"
      /\ \A x \in Nat \ S : Reads(p[lo], x, c.d.consume_trailer) = p[lo]
  BY DEF Scanning
<1> USE <1>0
<1>1. c.b \in Seq(Nat) /\ IsReading(p, c.b, c.d.consume_trailer) /\ e = Marked(c.b, InData(p, c.b))
  BY DEF OfCall, CallsInProgress
<1>2. PICK b, t : b = c.b /\ t = c.d.consume_trailer
  OBVIOUS
<1>3. b \in Seq(Nat) /\ IsReading(p, b, t) /\ e = Marked(b, InData(p, b)) /\ lo <= Len(b)
  BY <1>1, <1>2
<1>4. PICK f : f = lo + 1
  OBVIOUS
<1>5. f \in Nat \ {0} /\ i = Find(b, f, S)
  BY <1>2, <1>4
<1>6. \/ /\ i \in f .. Len(b) /\ b[i] \in S /\ \A j \in f .. i - 1 : b[j] \notin S
      \/ /\ i = Len(b) + 1 /\ \A j \in f .. Len(b) : b[j] \notin S
  BY <1>3, <1>5, FindIs
<1>7. PICK hi : hi = i - 1
  OBVIOUS
<1>8. hi \in Nat /\ lo <= hi /\ hi <= Len(b) /\ \A j \in lo + 1 .. hi : b[j] \in Nat \ S
  BY <1>3, <1>4, <1>5, <1>6, <1>7
<1>9. \A j \in lo + 1 .. hi : Reads(p[lo], b[j], t) = p[lo]
  BY <1>2, <1>8
<1>10. p[hi] = p[lo] /\ e[hi] = e[lo]
  <2>1. Waiting(b, p, e, lo, hi, t)
    BY <1>3, <1>8, <1>9 DEF Waiting, Between
  <2> QED BY <2>1, Waits
<1>11. CASE i = Len(b) + 1
  BY <1>2, <1>3, <1>7, <1>10, <1>11
<1>12. CASE i \in f .. Len(b) /\ b[i] \in S
  <2>1. i \in 1 .. Len(c.b) /\ p[i - 1].part # "DATA"
    BY <1>2, <1>3, <1>4, <1>7, <1>10, <1>12
  <2>2. p[i] = Reads(p[i - 1], c.b[i], c.d.consume_trailer) /\ e[i] = e[i - 1] /\ c.b[i] \in Nat
    BY <2>1, OneByte
  <2> QED BY <1>2, <1>4, <1>7, <1>10, <1>12, <2>2
<1> QED BY <1>6, <1>11, <1>12

\* Where the loop is.
LEMMA Here ==
  ASSUME NEW c, NEW p, NEW e, OfCall(c, p, e), InStep(c, p, e), ~ c.done
  PROVE  /\ c.src - 1 \in Nat /\ c.src - 1 <= Len(c.b) /\ (c.src - 1) + 1 = c.src
         /\ c.src \in Nat /\ Len(c.b) \in Nat
         /\ Sound(p[c.src - 1]) /\ c.d.consume_trailer \in BOOLEAN /\ c \in CallsInProgress /\ c.d \in Decoders
         /\ (Tracks(c.d, p[c.src - 1]) \/ BeforeExt(c, p[c.src - 1]))
         /\ c.out = e[c.src - 1] /\ c.ret = Partial
<1>1. c \in CallsInProgress /\ c.src \in 1 .. Len(c.b) + 1
  BY DEF InStep
<1>2. c.b \in Seq(Nat) /\ c.d \in Decoders /\ IsReading(p, c.b, c.d.consume_trailer)
  BY <1>1 DEF OfCall, CallsInProgress
<1>3. \A n \in 0 .. Len(c.b) : Sound(p[n])
  BY <1>2, AlwaysSound
<1>4. c.src - 1 \in 0 .. Len(c.b) /\ Len(c.b) \in Nat /\ (c.src - 1) + 1 = c.src
  BY <1>1, <1>2
<1>5. c.d.consume_trailer \in BOOLEAN
  BY <1>2 DEF Decoders
<1> QED BY <1>1, <1>2, <1>3, <1>4, <1>5 DEF InStep

\* A scan in the loop runs into the end, or finds a byte that the reference reads
\* where the loop stands.
Found(c, p, e, S, i) ==
  /\ i \in c.src .. Len(c.b) /\ i - 1 \in Nat /\ c.b[i] \in S /\ c.b[i] \in Nat
  /\ p[i] = Reads(p[c.src - 1], c.b[i], c.d.consume_trailer)
  /\ p[i - 1] = p[c.src - 1] /\ e[i] = e[c.src - 1] /\ e[i - 1] = e[c.src - 1]

\* What a scan leads to when it stops the loop.
LEMMA ScanEnds ==
  ASSUME NEW c, NEW p, NEW e, NEW S, NEW i, OfCall(c, p, e), InStep(c, p, e), ~ c.done,
         Tracks(c.d, p[c.src - 1]), Scanning(c, p, e, c.src - 1, S, i)
  PROVE  \/ i > Len(c.b) /\ Stepped(Stop(c, i, Partial), c, p, e)
         \/ ~ (i > Len(c.b)) /\ Found(c, p, e, S, i)
<1>1. PICK lo : lo = c.src - 1
  OBVIOUS
<1>2. lo \in Nat /\ lo <= Len(c.b) /\ lo + 1 = c.src /\ c.src \in Nat /\ Len(c.b) \in Nat
  BY <1>1, Here
<1>3. Scanning(c, p, e, lo, S, i)
  BY <1>1
<1>4. \/ i = Len(c.b) + 1 /\ p[Len(c.b)] = p[lo] /\ e[Len(c.b)] = e[lo]
      \/ /\ i \in lo + 1 .. Len(c.b) /\ c.b[i] \in S /\ p[i - 1] = p[lo] /\ c.b[i] \in Nat
         /\ p[i] = Reads(p[lo], c.b[i], c.d.consume_trailer) /\ e[i] = e[lo]
  BY <1>3, Scanned
<1>5. CASE i = Len(c.b) + 1 /\ p[Len(c.b)] = p[lo] /\ e[Len(c.b)] = e[lo]
  <2>1. Tracks(c.d, p[Len(c.b)]) /\ e[Len(c.b)] = e[c.src - 1]
    BY <1>1, <1>5
  <2>2. Stepped(Stop(c, Len(c.b) + 1, Partial), c, p, e)
    BY <2>1, RunsOut
  <2> QED BY <1>2, <1>5, <2>2
<1>6. CASE /\ i \in lo + 1 .. Len(c.b) /\ c.b[i] \in S /\ p[i - 1] = p[lo] /\ c.b[i] \in Nat
           /\ p[i] = Reads(p[lo], c.b[i], c.d.consume_trailer) /\ e[i] = e[lo]
  <2>1. i \in 1 .. Len(c.b) /\ p[i - 1].part # "DATA"
    BY <1>2, <1>3, <1>6 DEF Scanning
  <2>2. e[i] = e[i - 1]
    BY <2>1, OneByte
  <2> QED BY <1>1, <1>2, <1>6, <2>2 DEF Found
<1> QED BY <1>4, <1>5, <1>6

\* CHUNKED_IN_CHUNK_CRLF: the step and the reference move together.
LEMMA CrlfStep ==
  ASSUME NEW c, NEW p, NEW e, OfCall(c, p, e), InStep(c, p, e), ~ c.done, c.d.state = "CRLF"
  PROVE  Stepped(InChunkCrlf(c), c, p, e)
<1>1. PICK q, t, i : q = p[c.src - 1] /\ t = c.d.consume_trailer /\ i = Find(c.b, c.src, OtherThan({CR}))
  OBVIOUS
<1>2. /\ Sound(q) /\ Tracks(c.d, q) /\ t \in BOOLEAN /\ c.src - 1 \in Nat /\ c.src - 1 <= Len(c.b)
      /\ (c.src - 1) + 1 = c.src /\ c.src \in Nat /\ Len(c.b) \in Nat
  BY <1>1, Here DEF BeforeExt
<1>3. /\ q.part = "CRLF" /\ q.digits = 0 /\ c.d.hex_count = 0 /\ c.d.bytes_left_in_chunk = q.left
      /\ Reads(q, CR, t) = q
      /\ Reads(q, LF, t) = [part |-> "SIZE", left |-> q.left, digits |-> 0]
      /\ \A x : x # CR /\ x # LF => Reads(q, x, t) = [part |-> "WRONG", left |-> q.left, digits |-> 0]
  BY <1>2 DEF Tracks, Sound, Reads, Comes, CR, LF
<1>4. Scanning(c, p, e, c.src - 1, OtherThan({CR}), i)
  BY <1>1, <1>2, <1>3 DEF Scanning, OtherThan
<1>5. Tracks(c.d, p[c.src - 1])
  BY <1>1, <1>2
<1>6. \/ i > Len(c.b) /\ Stepped(Stop(c, i, Partial), c, p, e)
      \/ ~ (i > Len(c.b)) /\ Found(c, p, e, OtherThan({CR}), i)
  BY <1>4, <1>5, ScanEnds
<1>7. i > Len(c.b) => InChunkCrlf(c) = Stop(c, i, Partial)
  BY <1>1 DEF InChunkCrlf, Scan, AtEnd
<1>8. ASSUME ~ (i > Len(c.b)), Found(c, p, e, OtherThan({CR}), i) PROVE Stepped(InChunkCrlf(c), c, p, e)
  <2>0. /\ i \in c.src .. Len(c.b) /\ c.b[i] \in OtherThan({CR}) /\ c.b[i] \in Nat
        /\ p[i] = Reads(q, c.b[i], t) /\ p[i - 1] = q
        /\ e[i] = e[c.src - 1] /\ e[i - 1] = e[c.src - 1]
    BY <1>1, <1>8 DEF Found
  <2>1. CASE c.b[i] = LF
    <3>1. p[i].part = "SIZE" /\ p[i].left = c.d.bytes_left_in_chunk /\ p[i].digits = c.d.hex_count
      BY <1>3, <2>0, <2>1 DEF OtherThan
    <3>2. InChunkCrlf(c) = To(c, i + 1, "SIZE") /\ "SIZE" \in Parts
      BY <1>1, <1>8, <2>1 DEF InChunkCrlf, Scan, AtEnd, Parts
    <3>3. Stepped(To(c, i + 1, "SIZE"), c, p, e)
      BY <2>0, <3>1, <3>2, GoesOn
    <3> QED BY <3>2, <3>3
  <2>2. CASE c.b[i] # LF
    <3>1. p[i].part = "WRONG"
      BY <1>3, <2>0, <2>2 DEF OtherThan
    <3>2. InChunkCrlf(c) = Stop(c, i, Failed)
      BY <1>1, <1>8, <2>2 DEF InChunkCrlf, Scan, AtEnd
    <3>3. Stepped(Stop(c, i, Failed), c, p, e)
      BY <2>0, <3>1, Fails
    <3> QED BY <3>2, <3>3
  <2> QED BY <2>1, <2>2
<1> QED BY <1>6, <1>7, <1>8

\* CHUNKED_IN_TRAILERS_LINE_HEAD: the same.
LEMMA HeadStep ==
  ASSUME NEW c, NEW p, NEW e, OfCall(c, p, e), InStep(c, p, e), ~ c.done, c.d.state = "HEAD"
  PROVE  Stepped(InTrailersLineHead(c), c, p, e)
<1>1. PICK q, t, i : q = p[c.src - 1] /\ t = c.d.consume_trailer /\ i = Find(c.b, c.src, OtherThan({CR}))
  OBVIOUS
<1>2. /\ Sound(q) /\ Tracks(c.d, q) /\ t \in BOOLEAN /\ c.src - 1 \in Nat /\ c.src - 1 <= Len(c.b)
      /\ (c.src - 1) + 1 = c.src /\ c.src \in Nat /\ Len(c.b) \in Nat
  BY <1>1, Here DEF BeforeExt
<1>3. /\ q.part = "HEAD" /\ q.digits = 0 /\ c.d.hex_count = 0 /\ c.d.bytes_left_in_chunk = q.left
      /\ Reads(q, CR, t) = q
      /\ Reads(q, LF, t) = [part |-> "END", left |-> q.left, digits |-> 0]
      /\ \A x : x # CR /\ x # LF => Reads(q, x, t) = [part |-> "MIDDLE", left |-> q.left, digits |-> 0]
  BY <1>2 DEF Tracks, Sound, Reads, Comes, CR, LF
<1>4. Scanning(c, p, e, c.src - 1, OtherThan({CR}), i)
  BY <1>1, <1>2, <1>3 DEF Scanning, OtherThan
<1>5. Tracks(c.d, p[c.src - 1])
  BY <1>1, <1>2
<1>6. \/ i > Len(c.b) /\ Stepped(Stop(c, i, Partial), c, p, e)
      \/ ~ (i > Len(c.b)) /\ Found(c, p, e, OtherThan({CR}), i)
  BY <1>4, <1>5, ScanEnds
<1>7. i > Len(c.b) => InTrailersLineHead(c) = Stop(c, i, Partial)
  BY <1>1 DEF InTrailersLineHead, Scan, AtEnd
<1>8. ASSUME ~ (i > Len(c.b)), Found(c, p, e, OtherThan({CR}), i) PROVE Stepped(InTrailersLineHead(c), c, p, e)
  <2>0. /\ i \in c.src .. Len(c.b) /\ c.b[i] \in OtherThan({CR}) /\ c.b[i] \in Nat
        /\ p[i] = Reads(q, c.b[i], t) /\ p[i - 1] = q
        /\ e[i] = e[c.src - 1] /\ e[i - 1] = e[c.src - 1]
    BY <1>1, <1>8 DEF Found
  <2>1. CASE c.b[i] = LF
    <3>1. p[i].part = "END" /\ p[i - 1].part # "END"
      BY <1>3, <2>0, <2>1 DEF OtherThan
    <3>2. InTrailersLineHead(c) = Complete(c, i + 1)
      BY <1>1, <1>8, <2>1 DEF InTrailersLineHead, Scan, AtEnd
    <3>3. Stepped(Complete(c, i + 1), c, p, e)
      BY <2>0, <3>1, Completes
    <3> QED BY <3>2, <3>3
  <2>2. CASE c.b[i] # LF
    <3>1. p[i].part = "MIDDLE" /\ p[i].left = c.d.bytes_left_in_chunk /\ p[i].digits = c.d.hex_count
      BY <1>3, <2>0, <2>2 DEF OtherThan
    <3>2. InTrailersLineHead(c) = To(c, i + 1, "MIDDLE") /\ "MIDDLE" \in Parts
      BY <1>1, <1>8, <2>2 DEF InTrailersLineHead, Scan, AtEnd, Parts
    <3>3. Stepped(To(c, i + 1, "MIDDLE"), c, p, e)
      BY <2>0, <3>1, <3>2, GoesOn
    <3> QED BY <3>2, <3>3
  <2> QED BY <2>1, <2>2
<1> QED BY <1>6, <1>7, <1>8

\* CHUNKED_IN_TRAILERS_LINE_MIDDLE: the same.
LEMMA MiddleStep ==
  ASSUME NEW c, NEW p, NEW e, OfCall(c, p, e), InStep(c, p, e), ~ c.done, c.d.state = "MIDDLE"
  PROVE  Stepped(InTrailersLineMiddle(c), c, p, e)
<1>1. PICK q, t, i : q = p[c.src - 1] /\ t = c.d.consume_trailer /\ i = Find(c.b, c.src, {LF})
  OBVIOUS
<1>2. /\ Sound(q) /\ Tracks(c.d, q) /\ t \in BOOLEAN /\ c.src - 1 \in Nat /\ c.src - 1 <= Len(c.b)
      /\ (c.src - 1) + 1 = c.src /\ c.src \in Nat /\ Len(c.b) \in Nat
  BY <1>1, Here DEF BeforeExt
<1>3. /\ q.part = "MIDDLE" /\ q.digits = 0 /\ c.d.hex_count = 0 /\ c.d.bytes_left_in_chunk = q.left
      /\ \A x : x # LF => Reads(q, x, t) = q
      /\ Reads(q, LF, t) = [part |-> "HEAD", left |-> q.left, digits |-> 0]
  BY <1>2 DEF Tracks, Sound, Reads, Comes, CR, LF
<1>4. Scanning(c, p, e, c.src - 1, {LF}, i)
  BY <1>1, <1>2, <1>3 DEF Scanning, OtherThan
<1>5. Tracks(c.d, p[c.src - 1])
  BY <1>1, <1>2
<1>6. \/ i > Len(c.b) /\ Stepped(Stop(c, i, Partial), c, p, e)
      \/ ~ (i > Len(c.b)) /\ Found(c, p, e, {LF}, i)
  BY <1>4, <1>5, ScanEnds
<1>7. i > Len(c.b) => InTrailersLineMiddle(c) = Stop(c, i, Partial)
  BY <1>1 DEF InTrailersLineMiddle, Scan, AtEnd
<1>8. ASSUME ~ (i > Len(c.b)), Found(c, p, e, {LF}, i) PROVE Stepped(InTrailersLineMiddle(c), c, p, e)
  <2>0. /\ i \in c.src .. Len(c.b) /\ c.b[i] \in {LF} /\ c.b[i] \in Nat
        /\ p[i] = Reads(q, c.b[i], t) /\ p[i - 1] = q
        /\ e[i] = e[c.src - 1] /\ e[i - 1] = e[c.src - 1]
    BY <1>1, <1>8 DEF Found
  <2>1. CASE c.b[i] = LF
    <3>1. p[i].part = "HEAD" /\ p[i].left = c.d.bytes_left_in_chunk /\ p[i].digits = c.d.hex_count
      BY <1>3, <2>0, <2>1 DEF OtherThan
    <3>2. InTrailersLineMiddle(c) = To(c, i + 1, "HEAD") /\ "HEAD" \in Parts
      BY <1>1, <1>8, <2>1 DEF InTrailersLineMiddle, Scan, AtEnd, Parts
    <3>3. Stepped(To(c, i + 1, "HEAD"), c, p, e)
      BY <2>0, <3>1, <3>2, GoesOn
    <3> QED BY <3>2, <3>3
  <2> QED BY <2>0, <2>1
<1> QED BY <1>6, <1>7, <1>8

\* A digit of a size that has room for it.
LEMMA DigitTaken ==
  ASSUME NEW c, NEW p, NEW e, OfCall(c, p, e), InStep(c, p, e), ~ c.done, c.d.state = "SIZE",
         NEW i, NEW v, i = c.src, i <= Len(c.b), e[i] = e[c.src - 1], v = HexValue(c.b[i]), v \in 0 .. 15,
         p[i] = [part |-> "SIZE", left |-> 16 * c.d.bytes_left_in_chunk + v, digits |-> c.d.hex_count + 1]
  PROVE  Stepped(TakeDigit(c, i), c, p, e)
<1>1. c \in CallsInProgress /\ c.src \in Nat /\ Len(c.b) \in Nat /\ c.d \in Decoders /\ c.ret = Partial /\ c.out = e[c.src - 1]
      /\ c.src \in 1 .. Len(c.b) + 1 /\ i \in Nat /\ i + 1 \in Nat
  BY Here DEF InStep
<1>a. PICK left, count : left = 16 * c.d.bytes_left_in_chunk + v /\ count = c.d.hex_count + 1
  OBVIOUS
<1>b. left \in Nat /\ count \in Nat
  <2>1. c.d.bytes_left_in_chunk \in Nat /\ c.d.hex_count \in Nat
    BY <1>1 DEF Decoders
  <2>2. \A x \in Nat, y \in 0 .. 15 : 16 * x + y \in Nat
    OBVIOUS
  <2>3. 16 * c.d.bytes_left_in_chunk + v \in Nat
    BY <2>1, <2>2
  <2> QED BY <1>a, <2>1, <2>3
<1>2. PICK d : d = [c.d EXCEPT !.bytes_left_in_chunk = left, !.hex_count = count]
  OBVIOUS
<1>3. /\ d \in Decoders /\ d.state = "SIZE" /\ d.bytes_left_in_chunk = left
      /\ d.hex_count = count /\ d.consume_trailer = c.d.consume_trailer
      /\ d.total_read = c.d.total_read /\ d.total_overhead = c.d.total_overhead
  BY <1>1, <1>b, <1>2 DEF Decoders
<1>4. PICK s : s = [c EXCEPT !.src = i + 1, !.d = d]
  OBVIOUS
<1>5. s = TakeDigit(c, i)
  <2>1. TakeDigit(c, i) = [Goes(c, i + 1) EXCEPT !.d.bytes_left_in_chunk = left, !.d.hex_count = count]
    BY <1>1, <1>a DEF TakeDigit, Goes, CallsInProgress
  <2> QED BY <1>1, <1>2, <1>4, <2>1 DEF Goes, CallsInProgress
<1>6. /\ s \in CallsInProgress /\ s.b = c.b /\ s.out = c.out /\ s.src = i + 1
      /\ s.ret = c.ret /\ s.done = c.done /\ s.d = d
  BY <1>1, <1>3, <1>4 DEF CallsInProgress
<1>7. SameCall(s, c)
  BY <1>3, <1>6 DEF SameCall
<1>8. InStep(s, p, e)
  <2>1. (i + 1) - 1 = i /\ i + 1 \in 1 .. Len(c.b) + 1
    BY <1>1
  <2>2. Tracks(d, p[i])
    BY <1>a, <1>3 DEF Tracks
  <2> QED BY <1>1, <1>6, <2>1, <2>2 DEF InStep
<1>9. Reached(s) > Reached(c)
  BY <1>1, <1>3, <1>6 DEF Reached
<1> QED BY <1>5, <1>7, <1>8, <1>9 DEF Stepped

\* The byte after the digits leaves the size, and is not yet consumed.
LEMMA SizeRead ==
  ASSUME NEW c, NEW p, NEW e, OfCall(c, p, e), InStep(c, p, e), ~ c.done, c.d.state = "SIZE",
         NEW i, i = c.src, i <= Len(c.b), p[i - 1].digits > 0, HexValue(c.b[i]) < 0, c.b[i] \in SizeEnds,
         e[i] = e[c.src - 1]
  PROVE  Stepped([To(c, i, "EXT") EXCEPT !.d.hex_count = 0], c, p, e)
<1>1. c \in CallsInProgress /\ c.src \in Nat /\ Len(c.b) \in Nat /\ c.d \in Decoders /\ c.ret = Partial /\ c.out = e[c.src - 1]
      /\ c.src \in 1 .. Len(c.b) + 1 /\ Tracks(c.d, p[c.src - 1])
  BY Here DEF InStep, BeforeExt
<1>2. PICK d : d = [c.d EXCEPT !.state = "EXT", !.hex_count = 0]
  OBVIOUS
<1>3. /\ d \in Decoders /\ d.state = "EXT" /\ d.bytes_left_in_chunk = c.d.bytes_left_in_chunk
      /\ d.hex_count = 0 /\ d.consume_trailer = c.d.consume_trailer
      /\ d.total_read = c.d.total_read /\ d.total_overhead = c.d.total_overhead
  BY <1>1, <1>2 DEF Decoders, Parts
<1>4. PICK s : s = [c EXCEPT !.src = i, !.d = d]
  OBVIOUS
<1>5. s = [To(c, i, "EXT") EXCEPT !.d.hex_count = 0]
  BY <1>1, <1>2, <1>4 DEF To, CallsInProgress
<1>6. /\ s \in CallsInProgress /\ s.b = c.b /\ s.out = c.out /\ s.src = i
      /\ s.ret = c.ret /\ s.done = c.done /\ s.d = d
  BY <1>1, <1>3, <1>4 DEF CallsInProgress
<1>7. SameCall(s, c)
  BY <1>3, <1>6 DEF SameCall
<1>8. InStep(s, p, e)
  <2>2. BeforeExt(s, p[i - 1])
    BY <1>1, <1>3, <1>6 DEF Tracks, BeforeExt
  <2> QED BY <1>1, <1>6, <2>2 DEF InStep
<1>9. Reached(s) > Reached(c)
  BY <1>1, <1>3, <1>6 DEF Reached
<1> QED BY <1>5, <1>7, <1>8, <1>9 DEF Stepped

\* CHUNKED_IN_CHUNK_SIZE: the same, but for that byte.
LEMMA SizeStep ==
  ASSUME NEW c, NEW p, NEW e, OfCall(c, p, e), InStep(c, p, e), ~ c.done, c.d.state = "SIZE"
  PROVE  Stepped(InChunkSize(c), c, p, e)
<1>1. PICK q, t, i : q = p[c.src - 1] /\ t = c.d.consume_trailer /\ i = Find(c.b, c.src, Nat)
  OBVIOUS
<1>2. /\ Sound(q) /\ Tracks(c.d, q) /\ t \in BOOLEAN /\ c.src - 1 \in Nat /\ c.src - 1 <= Len(c.b)
      /\ (c.src - 1) + 1 = c.src /\ c.src \in Nat /\ Len(c.b) \in Nat /\ c \in CallsInProgress
  BY <1>1, Here DEF BeforeExt
<1>3. /\ q.part = "SIZE" /\ c.d.hex_count = q.digits /\ c.d.bytes_left_in_chunk = q.left
      /\ q.digits \in 0 .. MaxHex /\ q.left \in Nat
  BY <1>2 DEF Tracks, Sound
<1>4. Scanning(c, p, e, c.src - 1, Nat, i)
  BY <1>1, <1>2, <1>3 DEF Scanning
<1>5. Tracks(c.d, p[c.src - 1])
  BY <1>1, <1>2
<1>6. \/ i > Len(c.b) /\ Stepped(Stop(c, i, Partial), c, p, e)
      \/ ~ (i > Len(c.b)) /\ Found(c, p, e, Nat, i)
  BY <1>4, <1>5, ScanEnds
<1>7. i > Len(c.b) => InChunkSize(c) = Stop(c, i, Partial)
  BY <1>1 DEF InChunkSize, Scan, AtEnd
<1>8. ASSUME ~ (i > Len(c.b)), Found(c, p, e, Nat, i) PROVE Stepped(InChunkSize(c), c, p, e)
  <2>0. /\ i \in c.src .. Len(c.b) /\ c.b[i] \in Nat
        /\ p[i] = Reads(q, c.b[i], t) /\ p[i - 1] = q
        /\ e[i] = e[c.src - 1] /\ e[i - 1] = e[c.src - 1]
    BY <1>1, <1>8 DEF Found
  <2>1. i = c.src
    <3>1. PICK b, f : b = c.b /\ f = c.src
      OBVIOUS
    <3>2. b \in Seq(Nat) /\ f \in Nat \ {0} /\ i = Find(b, f, Nat) /\ i \in f .. Len(b)
      BY <1>1, <1>2, <2>0, <3>1 DEF CallsInProgress
    <3>a. \/ /\ i \in f .. Len(b) /\ b[i] \in Nat /\ \A j \in f .. i - 1 : b[j] \notin Nat
          \/ /\ i = Len(b) + 1 /\ \A j \in f .. Len(b) : b[j] \notin Nat
      BY <3>2, FindIs
    <3>3. \A j \in f .. i - 1 : b[j] \notin Nat
      BY <3>2, <3>a
    <3>4. ~ (f < i)
      BY <3>2, <3>3
    <3> QED BY <3>1, <3>2, <3>4
  <2>2. PICK v : v = HexValue(c.b[i])
    OBVIOUS
  <2>3. v \in -1 .. 15
    BY <2>0, <2>2, HexRange
  <2>4. MaxHex \in Nat
    BY MaxHexAssumption
  <2>5. InChunkSize(c) =
          IF v >= 0 THEN IF c.d.hex_count = MaxHex THEN Stop(c, i, Failed) ELSE TakeDigit(c, i)
          ELSE IF c.d.hex_count = 0 \/ c.b[i] \notin SizeEnds THEN Stop(c, i, Failed)
          ELSE [To(c, i, "EXT") EXCEPT !.d.hex_count = 0]
    BY <1>1, <1>8, <2>2 DEF InChunkSize, Scan, AtEnd
  <2>6. ASSUME p[i].part = "WRONG" PROVE Stepped(Stop(c, i, Failed), c, p, e)
    BY <2>0, <2>6, Fails
  <2>7. CASE v >= 0 /\ q.digits = MaxHex
    <3>1. p[i].part = "WRONG"
      BY <1>3, <2>0, <2>2, <2>4, <2>7 DEF Reads, SizeDigit, Comes
    <3> QED BY <1>3, <2>5, <2>6, <2>7, <3>1
  <2>8. CASE v >= 0 /\ q.digits # MaxHex
    <3>1. p[i] = [part |-> "SIZE", left |-> 16 * q.left + v, digits |-> q.digits + 1]
      BY <1>3, <2>0, <2>2, <2>4, <2>8 DEF Reads, SizeDigit
    <3>2. p[i] = [part |-> "SIZE", left |-> 16 * c.d.bytes_left_in_chunk + v, digits |-> c.d.hex_count + 1]
      BY <1>3, <3>1
    <3>3. v \in 0 .. 15 /\ i <= Len(c.b)
      BY <1>2, <2>0, <2>3, <2>8
    <3>4. Stepped(TakeDigit(c, i), c, p, e)
      BY <2>0, <2>1, <2>2, <3>2, <3>3, DigitTaken
    <3> QED BY <1>3, <2>5, <2>8, <3>4
  <2>9. CASE v < 0 /\ (q.digits = 0 \/ c.b[i] \notin SizeEnds)
    <3>1. p[i].part = "WRONG"
      <4>1. Reads(q, c.b[i], t) = Comes(q, "WRONG")
        BY <1>3, <2>2, <2>3, <2>9 DEF Reads
      <4> QED BY <2>0, <4>1 DEF Comes
    <3> QED BY <1>3, <2>3, <2>5, <2>6, <2>9, <3>1
  <2>10. CASE v < 0 /\ q.digits # 0 /\ c.b[i] \in SizeEnds
    <3>1. i <= Len(c.b) /\ p[i - 1].digits > 0 /\ HexValue(c.b[i]) < 0
      BY <1>2, <1>3, <2>0, <2>2, <2>10
    <3>2. Stepped([To(c, i, "EXT") EXCEPT !.d.hex_count = 0], c, p, e)
      BY <2>0, <2>1, <2>10, <3>1, SizeRead
    <3> QED BY <1>3, <2>3, <2>5, <2>10, <3>2
  <2> QED BY <2>3, <2>7, <2>8, <2>9, <2>10
<1> QED BY <1>6, <1>7, <1>8

\* A search may begin after a byte it does not look for.
LEMMA FindSkips ==
  ASSUME NEW b, b \in Seq(Nat), NEW i, i \in 1 .. Len(b), NEW S, b[i] \notin S
  PROVE  Find(b, i, S) = Find(b, i + 1, S)
<1>1. PICK k, m, n : k = i + 1 /\ m = Find(b, i, S) /\ n = Find(b, k, S)
  OBVIOUS
<1>2. i \in Nat \ {0} /\ k \in Nat \ {0} /\ Len(b) \in Nat
  BY <1>1
<1>3. \/ /\ m \in i .. Len(b) /\ b[m] \in S /\ \A j \in i .. m - 1 : b[j] \notin S
      \/ /\ m = Len(b) + 1 /\ \A j \in i .. Len(b) : b[j] \notin S
  BY <1>1, <1>2, FindIs
<1>4. \/ /\ n \in k .. Len(b) /\ b[n] \in S /\ \A j \in k .. n - 1 : b[j] \notin S
      \/ /\ n = Len(b) + 1 /\ \A j \in k .. Len(b) : b[j] \notin S
  BY <1>1, <1>2, FindIs
<1>5. m = n
  <2>0. \A j \in i .. Len(b) : j = i \/ j \in k .. Len(b)
    BY <1>1
  <2>1. m \in Nat /\ n \in Nat /\ m # i
    <3>1. m \in Nat /\ n \in Nat
      BY <1>2, <1>3, <1>4
    <3>2. CASE m \in i .. Len(b) /\ b[m] \in S
      BY <3>1, <3>2
    <3>3. CASE m = Len(b) + 1
      <4>1. i # Len(b) + 1
        BY <1>2
      <4> QED BY <3>1, <3>3, <4>1
    <3> QED BY <1>3, <3>1, <3>2, <3>3
  <2>2. ~ (m < n)
    <3> SUFFICES ASSUME m < n PROVE FALSE
      OBVIOUS
    <3>1. m \in i .. Len(b) /\ b[m] \in S
      BY <1>2, <1>3, <1>4
    <3>2. m \in k .. n - 1 /\ m \in k .. Len(b)
      BY <1>1, <1>2, <2>1, <1>4, <3>1
    <3> QED BY <1>4, <3>1, <3>2
  <2>3. ~ (n < m)
    <3> SUFFICES ASSUME n < m PROVE FALSE
      OBVIOUS
    <3>1. n \in k .. Len(b) /\ b[n] \in S
      BY <1>2, <1>3, <1>4
    <3>2. n \in i .. m - 1 /\ n \in i .. Len(b)
      BY <1>1, <1>2, <2>1, <1>3, <3>1
    <3> QED BY <1>3, <3>1, <3>2
  <2> QED BY <2>1, <2>2, <2>3
<1> QED BY <1>1, <1>5

\* The line of a size has been read up to its LF.
LEMMA LineRead ==
  ASSUME NEW c, NEW p, NEW e, OfCall(c, p, e), InStep(c, p, e), ~ c.done, c.d.hex_count = 0,
         NEW q, q.left = c.d.bytes_left_in_chunk,
         NEW i, i \in c.src .. Len(c.b), e[i] = e[c.src - 1],
         p[i] = LineEnds(q, c.d.consume_trailer), p[i - 1].part # "END"
  PROVE  Stepped(IF c.d.bytes_left_in_chunk # 0 THEN To(c, i + 1, "DATA")
                 ELSE IF c.d.consume_trailer THEN To(c, i + 1, "HEAD")
                 ELSE Complete(c, i + 1), c, p, e)
<1>0. q.left \in Nat
  BY Here DEF Decoders
<1>1. CASE c.d.bytes_left_in_chunk # 0
  <2>1. p[i].part = "DATA" /\ p[i].left = c.d.bytes_left_in_chunk /\ p[i].digits = c.d.hex_count /\ "DATA" \in Parts
    BY <1>0, <1>1 DEF LineEnds, Comes, Parts
  <2>2. Stepped(To(c, i + 1, "DATA"), c, p, e)
    BY <2>1, GoesOn
  <2> QED BY <1>1, <2>2
<1>2. CASE c.d.bytes_left_in_chunk = 0 /\ c.d.consume_trailer
  <2>1. p[i].part = "HEAD" /\ p[i].left = c.d.bytes_left_in_chunk /\ p[i].digits = c.d.hex_count /\ "HEAD" \in Parts
    BY <1>0, <1>2 DEF LineEnds, Comes, Parts
  <2>2. Stepped(To(c, i + 1, "HEAD"), c, p, e)
    BY <2>1, GoesOn
  <2> QED BY <1>2, <2>2
<1>3. CASE c.d.bytes_left_in_chunk = 0 /\ ~ c.d.consume_trailer
  <2>1. p[i].part = "END"
    BY <1>0, <1>3 DEF LineEnds, Comes
  <2>2. Stepped(Complete(c, i + 1), c, p, e)
    BY <2>1, Completes
  <2> QED BY <1>3, <2>2
<1> QED BY <1>1, <1>2, <1>3

\* CHUNKED_IN_CHUNK_EXT: the byte after the digits is read again here.
LEMMA ExtStep ==
  ASSUME NEW c, NEW p, NEW e, OfCall(c, p, e), InStep(c, p, e), ~ c.done, c.d.state = "EXT"
  PROVE  Stepped(InChunkExt(c), c, p, e)
<1>1. PICK q, t, i : q = p[c.src - 1] /\ t = c.d.consume_trailer /\ i = Find(c.b, c.src, {LF})
  OBVIOUS
<1>2. /\ Sound(q) /\ (Tracks(c.d, q) \/ BeforeExt(c, q)) /\ t \in BOOLEAN /\ c.src - 1 \in Nat /\ c.src - 1 <= Len(c.b)
      /\ (c.src - 1) + 1 = c.src /\ c.src \in Nat /\ Len(c.b) \in Nat /\ c \in CallsInProgress
  BY <1>1, Here
<1>3. /\ c.d.hex_count = 0 /\ c.d.bytes_left_in_chunk = q.left
      /\ q \in [part : Parts \cup {"END", "WRONG"}, left : Nat, digits : 0 .. MaxHex]
  BY <1>2 DEF Tracks, BeforeExt, Sound
<1>7. InChunkExt(c) = IF i > Len(c.b) THEN Stop(c, i, Partial)
                      ELSE IF c.d.bytes_left_in_chunk # 0 THEN To(c, i + 1, "DATA")
                      ELSE IF c.d.consume_trailer THEN To(c, i + 1, "HEAD")
                      ELSE Complete(c, i + 1)
  BY <1>1 DEF InChunkExt, Scan, AtEnd
<1>8. CASE Tracks(c.d, q)
  <2>1. q.part = "EXT" /\ q.digits = 0
    BY <1>2, <1>8 DEF Tracks, Sound
  <2>2. q = [part |-> "EXT", left |-> q.left, digits |-> 0]
    BY <1>3, <2>1
  <2>3. /\ Reads(q, LF, t) = LineEnds(q, t)
        /\ \A x : x # LF => Reads(q, x, t) = q
    BY <2>1, <2>2 DEF Reads, Extension, Comes, LF
  <2>4. Scanning(c, p, e, c.src - 1, {LF}, i)
    BY <1>1, <1>2, <2>1, <2>3 DEF Scanning
  <2>5. Tracks(c.d, p[c.src - 1])
    BY <1>1, <1>8
  <2>6. \/ i > Len(c.b) /\ Stepped(Stop(c, i, Partial), c, p, e)
        \/ ~ (i > Len(c.b)) /\ Found(c, p, e, {LF}, i)
    BY <2>4, <2>5, ScanEnds
  <2>7. ASSUME ~ (i > Len(c.b)), Found(c, p, e, {LF}, i) PROVE Stepped(InChunkExt(c), c, p, e)
    <3>1. /\ i \in c.src .. Len(c.b) /\ p[i] = LineEnds(q, c.d.consume_trailer) /\ p[i - 1].part # "END"
          /\ e[i] = e[c.src - 1]
      BY <1>1, <2>1, <2>3, <2>7 DEF Found
    <3> QED BY <1>3, <1>7, <2>7, <3>1, LineRead
  <2> QED BY <1>7, <2>6, <2>7
<1>9. CASE BeforeExt(c, q)
  <2>1. /\ q.part = "SIZE" /\ q.digits > 0 /\ c.src <= Len(c.b) /\ HexValue(c.b[c.src]) < 0 /\ c.b[c.src] \in SizeEnds
    BY <1>9 DEF BeforeExt
  <2>2. c.src \in 1 .. Len(c.b) /\ p[c.src - 1].part # "DATA"
    BY <1>1, <1>2, <2>1
  <2>3. p[c.src] = Reads(q, c.b[c.src], t) /\ e[c.src] = e[c.src - 1] /\ c.b[c.src] \in Nat
    BY <1>1, <2>2, OneByte
  <2>4. p[c.src] = Extension(q, c.b[c.src], t)
    <3>1. HexValue(c.b[c.src]) \in -1 .. 15
      BY <2>3, HexRange
    <3> QED BY <2>1, <2>3, <3>1 DEF Reads
  <2>5. CASE c.b[c.src] = LF
    <3>1. i = c.src
      <4>1. PICK b, f : b = c.b /\ f = c.src
        OBVIOUS
      <4>2. b \in Seq(Nat) /\ f \in Nat \ {0} /\ i = Find(b, f, {LF}) /\ f <= Len(b) /\ b[f] = LF /\ Len(b) \in Nat
        BY <1>1, <1>2, <2>1, <2>5, <4>1 DEF CallsInProgress
      <4>3. \/ /\ i \in f .. Len(b) /\ b[i] \in {LF} /\ \A j \in f .. i - 1 : b[j] \notin {LF}
            \/ /\ i = Len(b) + 1 /\ \A j \in f .. Len(b) : b[j] \notin {LF}
        BY <4>2, FindIs
      <4>4. i = f
        <5>0. f \in Nat /\ Len(b) \in Nat /\ f <= Len(b) /\ i \in Int /\ f <= i
          BY <4>2, <4>3
        <5>1. f \in f .. Len(b)
          BY <5>0
        <5>2. i \in f .. Len(b) /\ \A j \in f .. i - 1 : b[j] \notin {LF}
          BY <4>2, <4>3, <5>1
        <5>3. ~ (f \in f .. i - 1)
          BY <4>2, <5>2
        <5>4. ~ (f < i)
          BY <5>0, <5>3
        <5> QED BY <5>0, <5>4
      <4> QED BY <4>1, <4>4
    <3>2. /\ i \in c.src .. Len(c.b) /\ p[i] = LineEnds(q, c.d.consume_trailer) /\ p[i - 1].part # "END"
          /\ e[i] = e[c.src - 1] /\ ~ (i > Len(c.b))
      BY <1>1, <1>2, <2>1, <2>3, <2>4, <2>5, <3>1 DEF Extension
    <3>3. Stepped(IF c.d.bytes_left_in_chunk # 0 THEN To(c, i + 1, "DATA")
                  ELSE IF c.d.consume_trailer THEN To(c, i + 1, "HEAD")
                  ELSE Complete(c, i + 1), c, p, e)
      <4>1. q.left = c.d.bytes_left_in_chunk
        BY <1>3
      <4> QED BY <1>3, <3>2, <4>1, LineRead
    <3> QED BY <1>7, <3>2, <3>3
  <2>6. CASE c.b[c.src] # LF
    <3>1. PICK lo, r : lo = c.src /\ r = p[c.src]
      OBVIOUS
    <3>2. r = [part |-> "EXT", left |-> q.left, digits |-> 0]
      BY <2>4, <2>6, <3>1 DEF Extension, Comes
    <3>3. /\ Reads(r, LF, t) = LineEnds(r, t)
          /\ \A x : x # LF => Reads(r, x, t) = r
      BY <3>2 DEF Reads, Extension, Comes, LF
    <3>4. i = Find(c.b, lo + 1, {LF})
      <4>1. c.b \in Seq(Nat) /\ c.b[c.src] \notin {LF}
        BY <1>2, <2>6 DEF CallsInProgress
      <4> QED BY <1>1, <2>2, <3>1, <4>1, FindSkips
    <3>5. Scanning(c, p, e, lo, {LF}, i)
      BY <1>1, <1>2, <2>1, <3>1, <3>2, <3>3, <3>4 DEF Scanning
    <3>6. \/ i = Len(c.b) + 1 /\ p[Len(c.b)] = p[lo] /\ e[Len(c.b)] = e[lo]
          \/ /\ i \in lo + 1 .. Len(c.b) /\ c.b[i] \in {LF} /\ p[i - 1] = p[lo] /\ c.b[i] \in Nat
             /\ p[i] = Reads(p[lo], c.b[i], c.d.consume_trailer) /\ e[i] = e[lo]
      BY <3>5, Scanned
    <3>7. CASE i = Len(c.b) + 1 /\ p[Len(c.b)] = p[lo] /\ e[Len(c.b)] = e[lo]
      <4>1. c.d.state = "EXT" /\ p[Len(c.b)] = [part |-> "EXT", left |-> q.left, digits |-> 0]
        BY <3>1, <3>2, <3>7
      <4>2. Tracks(c.d, p[Len(c.b)]) /\ e[Len(c.b)] = e[c.src - 1]
        BY <1>3, <2>3, <3>1, <3>7, <4>1 DEF Tracks
      <4>3. Stepped(Stop(c, Len(c.b) + 1, Partial), c, p, e)
        BY <4>2, RunsOut
      <4> QED BY <1>2, <1>7, <3>7, <4>3
    <3>8. CASE /\ i \in lo + 1 .. Len(c.b) /\ c.b[i] \in {LF} /\ p[i - 1] = p[lo]
               /\ p[i] = Reads(p[lo], c.b[i], c.d.consume_trailer) /\ e[i] = e[lo]
      <4>1. /\ i \in c.src .. Len(c.b) /\ p[i] = LineEnds(r, c.d.consume_trailer) /\ p[i - 1].part # "END"
            /\ e[i] = e[c.src - 1] /\ r.left = c.d.bytes_left_in_chunk /\ ~ (i > Len(c.b))
        <5>1. i \in c.src .. Len(c.b) /\ ~ (i > Len(c.b))
          BY <1>2, <3>1, <3>8
        <5>2. p[i] = LineEnds(r, c.d.consume_trailer)
          BY <1>1, <3>1, <3>3, <3>8
        <5>3. p[i - 1].part # "END" /\ r.left = c.d.bytes_left_in_chunk
          <6>1. r.part = "EXT" /\ r.left = q.left
            BY <3>2
          <6>2. p[i - 1] = r
            BY <3>1, <3>8
          <6> QED BY <1>3, <6>1, <6>2
        <5>4. e[i] = e[c.src - 1]
          BY <2>3, <3>1, <3>8
        <5> QED BY <5>1, <5>2, <5>3, <5>4
      <4> QED BY <1>3, <1>7, <4>1, LineRead
    <3> QED BY <3>6, <3>7, <3>8
  <2> QED BY <2>5, <2>6
<1> QED BY <1>2, <1>8, <1>9

\* The marked bytes are bytes.
LEMMA MarkedSeq ==
  ASSUME NEW b, b \in Seq(Nat), NEW marks, NEW f, f = Marked(b, marks)
  PROVE  \A n \in 0 .. Len(b) : f[n] \in Seq(Nat)
<1> DEFINE W == {n \in 0 .. Len(b) : f[n] \notin Seq(Nat)}
<1> SUFFICES ASSUME W # {} PROVE FALSE
  OBVIOUS
<1>1. PICK n \in W : \A m \in W : n <= m
  <2>1. W \in SUBSET Nat
    OBVIOUS
  <2> HIDE DEF W
  <2> QED BY <2>1, SmallestNumber
<1>2. f[0] = <<>> /\ \A k \in 1 .. Len(b) : f[k] = Kept(f[k - 1], b, k, marks)
  BY MarkedIs
<1>3. n \in 0 .. Len(b) /\ f[n] \notin Seq(Nat) /\ n # 0
  <2>1. <<>> \in Seq(Nat)
    OBVIOUS
  <2> QED BY <1>1, <1>2, <2>1
<1>4. n - 1 \in 0 .. Len(b) /\ n - 1 \notin W /\ n \in 1 .. Len(b)
  BY <1>1, <1>3
<1>5. f[n - 1] \in Seq(Nat) /\ b[n] \in Nat
  BY <1>4
<1>6. Append(f[n - 1], b[n]) \in Seq(Nat)
  BY <1>5
<1> QED BY <1>2, <1>3, <1>4, <1>5, <1>6 DEF Kept

Bytewise(x, s, y) == x \in Seq(Nat) /\ s \in Seq(Nat) /\ y \in Nat
LastGoesIn(x, s, y) == Append(x \o s, y) = x \o Append(s, y)

\* A subsequence of one more byte.
LEMMA AppendLast ==
  ASSUME NEW x, NEW s, NEW y, Bytewise(x, s, y)
  PROVE  LastGoesIn(x, s, y)
<1> USE DEF Bytewise
<1>1. PICK z : z = <<y>>
  OBVIOUS
<1>2. x \o s \in Seq(Nat) /\ z \in Seq(Nat)
  BY <1>1, ConcatProperties
<1>3. Append(x \o s, y) = (x \o s) \o z /\ Append(s, y) = s \o z
  BY <1>1, <1>2, AppendIsConcat
<1>4. (x \o s) \o z = x \o (s \o z)
  BY <1>2
<1> QED BY <1>3, <1>4 DEF LastGoesIn

\* A byte more.
LEMMA OneMore ==
  ASSUME NEW b, b \in Seq(Nat), NEW x, x \in Seq(Nat), NEW i, NEW j, i \in Nat \ {0}, j \in Nat, i <= j, j <= Len(b)
  PROVE  Append(x \o SubSeq(b, i, j - 1), b[j]) = x \o SubSeq(b, i, j)
<1>1. PICK s, t : s = SubSeq(b, i, j - 1) /\ t = SubSeq(b, i, j)
  OBVIOUS
<1>2. s \in Seq(Nat) /\ t \in Seq(Nat) /\ Len(s) = j - i /\ Len(t) = j - i + 1
  BY <1>1
<1>3. t = Append(s, b[j])
  BY <1>1, <1>2
<1>4. b[j] \in Nat
  OBVIOUS
<1>5. Append(x \o s, b[j]) = x \o Append(s, b[j])
  <2>1. PICK y : y = b[j]
    OBVIOUS
  <2>2. Bytewise(x, s, y)
    BY <1>2, <1>4, <2>1 DEF Bytewise
  <2>3. Append(x \o s, y) = x \o Append(s, y)
    <3>1. LastGoesIn(x, s, y)
      BY <2>2, AppendLast, Zenon
    <3> QED BY <3>1 DEF LastGoesIn
  <2> QED BY <2>1, <2>3
<1> QED BY <1>1, <1>3, <1>5

\* In a chunk every byte is data.
AllData(b, p, e, lo, hi) == Between(b, p, e, lo, hi) /\ \A j \in lo .. hi - 1 : p[j].part = "DATA"

\* Bytes of a chunk are all handed out.
LEMMA DataGrows ==
  ASSUME NEW b, NEW p, NEW e, NEW lo, NEW hi, AllData(b, p, e, lo, hi)
  PROVE  e[hi] = e[lo] \o SubSeq(b, lo + 1, hi) /\ e[lo] \in Seq(Nat)
<1>0. /\ b \in Seq(Nat) /\ e = Marked(b, InData(p, b)) /\ lo \in Nat /\ hi \in Nat /\ lo <= hi
      /\ hi <= Len(b) /\ \A j \in lo .. hi - 1 : p[j].part = "DATA"
  BY DEF AllData, Between
<1> USE <1>0
<1>1. e[lo] \in Seq(Nat)
  BY MarkedSeq
<1> DEFINE W == {n \in lo .. hi : e[n] # e[lo] \o SubSeq(b, lo + 1, n)}
<1>2. ASSUME W # {} PROVE FALSE
  <2>1. PICK n \in W : \A m \in W : n <= m
    <3>1. W \in SUBSET Nat
      OBVIOUS
    <3> HIDE DEF W
    <3> QED BY <1>2, <3>1, SmallestNumber
  <2>2. n # lo
    <3>1. SubSeq(b, lo + 1, lo) = <<>>
      OBVIOUS
    <3>2. e[lo] \o <<>> = e[lo]
      BY <1>1, ConcatEmptySeq
    <3> QED BY <2>1, <3>1, <3>2
  <2>a. n \in lo .. hi
    BY <2>1
  <2>b. n - 1 \in lo .. hi - 1 /\ n \in 1 .. Len(b) /\ n - 1 \in lo .. hi /\ n - 1 < n
    BY <2>2, <2>a
  <2>3. n - 1 \in lo .. hi - 1 /\ n - 1 \notin W /\ n \in 1 .. Len(b) /\ n \in lo .. hi /\ n - 1 \in lo .. hi
    <3> HIDE DEF W
    <3> QED BY <2>1, <2>a, <2>b
  <2>4. e[n - 1] = e[lo] \o SubSeq(b, lo + 1, n - 1)
    BY <2>3
  <2>5. n \in InData(p, b)
    BY <2>3 DEF InData
  <2>6. e[n] = Append(e[n - 1], b[n])
    <3>1. e[n] = Kept(e[n - 1], b, n, InData(p, b))
      BY <2>3, MarkedIs
    <3> QED BY <2>5, <3>1 DEF Kept
  <2>7. Append(e[lo] \o SubSeq(b, lo + 1, n - 1), b[n]) = e[lo] \o SubSeq(b, lo + 1, n)
    <3>1. PICK i, x : i = lo + 1 /\ x = e[lo]
      OBVIOUS
    <3>2. i \in Nat \ {0} /\ n \in Nat /\ i <= n /\ n <= Len(b) /\ x \in Seq(Nat)
      BY <1>1, <2>3, <3>1
    <3>3. Append(x \o SubSeq(b, i, n - 1), b[n]) = x \o SubSeq(b, i, n)
      BY <3>2, OneMore
    <3> QED BY <3>1, <3>3
  <2> QED BY <2>1, <2>4, <2>6, <2>7
<1>3. hi \in lo .. hi /\ hi \notin W
  <2>1. hi \in lo .. hi
    OBVIOUS
  <2> HIDE DEF W
  <2> QED BY <1>2, <2>1
<1> QED BY <1>1, <1>3

\* The reference through n bytes of a chunk.
InChunk(b, p, trailer, lo, n, left) ==
  /\ b \in Seq(Nat) /\ IsReading(p, b, trailer) /\ lo \in Nat /\ n \in Nat /\ lo + n <= Len(b)
  /\ left \in Nat /\ n <= left /\ left > 0 /\ p[lo] = [part |-> "DATA", left |-> left, digits |-> 0]

ChunkRead(p, lo, n, left) ==
  \A k \in 0 .. n : p[lo + k] = [part |-> IF k = left THEN "CRLF" ELSE "DATA", left |-> left - k, digits |-> 0]

\* The reference goes through the bytes that are left of a chunk.
LEMMA InsideChunk ==
  ASSUME NEW b, NEW p, NEW trailer, NEW lo, NEW n, NEW left, InChunk(b, p, trailer, lo, n, left)
  PROVE  ChunkRead(p, lo, n, left)
<1>0. /\ b \in Seq(Nat) /\ IsReading(p, b, trailer) /\ lo \in Nat /\ n \in Nat /\ lo + n <= Len(b)
      /\ left \in Nat /\ n <= left /\ left > 0 /\ p[lo] = [part |-> "DATA", left |-> left, digits |-> 0]
  BY DEF InChunk
<1> USE <1>0
<1> DEFINE At(k) == [part |-> IF k = left THEN "CRLF" ELSE "DATA", left |-> left - k, digits |-> 0]
           W == {k \in 0 .. n : p[lo + k] # At(k)}
<1> SUFFICES ASSUME W # {} PROVE FALSE
  BY DEF ChunkRead
<1>1. PICK k \in W : \A m \in W : k <= m
  <2>1. W \in SUBSET Nat
    OBVIOUS
  <2> HIDE DEF W
  <2> QED BY <2>1, SmallestNumber
<1>2. k # 0
  BY <1>1
<1>3. k \in 0 .. n /\ k - 1 \in 0 .. n /\ k - 1 < k /\ lo + k \in 1 .. Len(b) /\ (lo + k) - 1 = lo + (k - 1) /\ k - 1 < left
  <2>1. k \in 0 .. n
    BY <1>1
  <2> QED BY <1>2, <2>1
<1>4. p[lo + (k - 1)] = At(k - 1)
  <2> HIDE DEF At
  <2>1. k - 1 \notin W
    <3> HIDE DEF W
    <3> QED BY <1>1, <1>3
  <2> QED BY <1>3, <2>1
<1>5. p[lo + (k - 1)] = [part |-> "DATA", left |-> left - (k - 1), digits |-> 0]
  <2>1. k - 1 # left
    BY <1>3
  <2> QED BY <1>4, <2>1
<1>6. p[lo + k] = Reads(p[lo + (k - 1)], b[lo + k], trailer)
  BY <1>3 DEF IsReading
<1>7. p[lo + k] = [part |-> IF left - (k - 1) = 1 THEN "CRLF" ELSE "DATA", left |-> (left - (k - 1)) - 1, digits |-> 0]
  <2>1. PICK q, l : q = p[lo + (k - 1)] /\ l = left - (k - 1)
    OBVIOUS
  <2>2. q.part = "DATA" /\ q.left = l
    BY <1>5, <2>1
  <2> QED BY <1>6, <2>1, <2>2 DEF Reads
<1>8. (left - (k - 1) = 1 <=> k = left) /\ (left - (k - 1)) - 1 = left - k
  <2> HIDE DEF W, At
  <2>1. k \in Int /\ left \in Int
    BY <1>3
  <2> QED BY <2>1
<1>9. p[lo + k] = At(k)
  BY <1>7, <1>8
<1> QED BY <1>1, <1>9

\* Some bytes of the chunk are moved.
Moved(c, n, state) ==
  LET d == [c.d EXCEPT !.bytes_left_in_chunk = @ - n, !.state = state]
  IN  [c EXCEPT !.src = @ + n, !.out = @ \o SubSeq(c.b, c.src, c.src + n - 1), !.d = d]

Movable(c, n, state) ==
  /\ c \in CallsInProgress /\ n \in Nat /\ n <= c.d.bytes_left_in_chunk
  /\ c.src \in 1 .. Len(c.b) + 1 /\ c.src + n <= Len(c.b) + 1 /\ state \in Parts

HasMoved(s, c, n, state) ==
  /\ s \in CallsInProgress /\ s.b = c.b /\ s.out = c.out \o SubSeq(c.b, c.src, c.src + n - 1)
  /\ s.src = c.src + n /\ s.ret = c.ret /\ s.done = c.done
  /\ s.d.state = state /\ s.d.bytes_left_in_chunk = c.d.bytes_left_in_chunk - n
  /\ s.d.hex_count = c.d.hex_count /\ SameCall(s, c)

\* Bytes that are moved are those of the chunk.
LEMMA MovedIs ==
  ASSUME NEW c, NEW n, NEW state, NEW s, Movable(c, n, state), s = Moved(c, n, state)
  PROVE  HasMoved(s, c, n, state)
<1> USE DEF Movable
<1>1. PICK left, src, o : /\ left = c.d.bytes_left_in_chunk - n /\ src = c.src + n
                          /\ o = c.out \o SubSeq(c.b, c.src, c.src + n - 1)
  OBVIOUS
<1>2. c.d \in Decoders /\ c.out \in Seq(Nat) /\ c.b \in Seq(Nat) /\ c.src \in Nat /\ c.d.bytes_left_in_chunk \in Nat
  BY DEF CallsInProgress, Decoders
<1>3. left \in Nat /\ src \in Nat /\ o \in Seq(Nat)
  <2>1. SubSeq(c.b, c.src, c.src + n - 1) \in Seq(Nat)
    <3>1. PICK b, i, j : b = c.b /\ i = c.src /\ j = c.src + n - 1
      OBVIOUS
    <3>2. b \in Seq(Nat) /\ i \in Nat \ {0} /\ j \in Int /\ j <= Len(b)
      BY <1>2, <3>1
    <3>3. SubSeq(b, i, j) \in Seq(Nat)
      BY <3>2
    <3> QED BY <3>1, <3>3
  <2>2. c.out \o SubSeq(c.b, c.src, c.src + n - 1) \in Seq(Nat)
    BY <1>2, <2>1, ConcatProperties
  <2>3. c.d.bytes_left_in_chunk - n \in Nat /\ c.src + n \in Nat
    BY <1>2
  <2> QED BY <1>1, <2>2, <2>3
<1>4. PICK d : d = [c.d EXCEPT !.bytes_left_in_chunk = left, !.state = state]
  OBVIOUS
<1>5. /\ d \in Decoders /\ d.state = state /\ d.bytes_left_in_chunk = left
      /\ d.hex_count = c.d.hex_count /\ d.consume_trailer = c.d.consume_trailer
      /\ d.total_read = c.d.total_read /\ d.total_overhead = c.d.total_overhead
  BY <1>2, <1>3, <1>4 DEF Decoders
<1>6. s = [c EXCEPT !.src = src, !.out = o, !.d = d]
  BY <1>1, <1>2, <1>4 DEF Moved, CallsInProgress, Decoders
<1>7. /\ s \in CallsInProgress /\ s.b = c.b /\ s.out = o /\ s.src = src
      /\ s.ret = c.ret /\ s.done = c.done /\ s.d = d
  BY <1>3, <1>5, <1>6 DEF CallsInProgress
<1> QED BY <1>1, <1>5, <1>7 DEF SameCall, HasMoved

\* Move is that.
LEMMA MoveIsMoved ==
  ASSUME NEW c, NEW n, c \in CallsInProgress, n \in Nat
  PROVE  /\ To(Move(c, n), c.src + n, "CRLF") = Moved(c, n, "CRLF")
         /\ c.d.state = "DATA" => Move(c, n) = Moved(c, n, "DATA")
<1>1. PICK left, src, o : /\ left = c.d.bytes_left_in_chunk - n /\ src = c.src + n
                          /\ o = c.out \o SubSeq(c.b, c.src, c.src + n - 1)
  OBVIOUS
<1>2. c \in [d : Decoders, b : Seq(Nat), src : Nat, out : Seq(Nat), ret : Int, done : BOOLEAN]
  BY DEF CallsInProgress
<1>3. Move(c, n) = [c EXCEPT !.src = src, !.out = o, !.d = [c.d EXCEPT !.bytes_left_in_chunk = left]]
  BY <1>1, <1>2 DEF Move, Goes, Decoders
<1>4. Moved(c, n, "DATA") = [c EXCEPT !.src = src, !.out = o, !.d = [c.d EXCEPT !.bytes_left_in_chunk = left, !.state = "DATA"]]
  BY <1>1, <1>2 DEF Moved, Decoders
<1>5. Moved(c, n, "CRLF") = [c EXCEPT !.src = src, !.out = o, !.d = [c.d EXCEPT !.bytes_left_in_chunk = left, !.state = "CRLF"]]
  BY <1>1, <1>2 DEF Moved, Decoders
<1>6. c.d \in Decoders
  BY <1>2
<1>7. To(Move(c, n), c.src + n, "CRLF") = Moved(c, n, "CRLF")
  BY <1>1, <1>2, <1>3, <1>5, <1>6 DEF To, Decoders
<1>8. c.d.state = "DATA" => [c.d EXCEPT !.bytes_left_in_chunk = left] = [c.d EXCEPT !.bytes_left_in_chunk = left, !.state = "DATA"]
  BY <1>6 DEF Decoders
<1> QED BY <1>3, <1>4, <1>7, <1>8

\* CHUNKED_IN_CHUNK_DATA: many bytes in one step, whether they end the chunk
\* or the piece ends before it.
LEMMA DataStep ==
  ASSUME NEW c, NEW p, NEW e, OfCall(c, p, e), InStep(c, p, e), ~ c.done, c.d.state = "DATA"
  PROVE  Stepped(InChunkData(c), c, p, e)
<1>1. PICK q, t, lo, b, left, avail :
        /\ q = p[c.src - 1] /\ t = c.d.consume_trailer /\ lo = c.src - 1 /\ b = c.b
        /\ left = c.d.bytes_left_in_chunk /\ avail = Len(c.b) - c.src + 1
  OBVIOUS
<1>2. /\ Sound(q) /\ Tracks(c.d, q) /\ t \in BOOLEAN /\ lo \in Nat /\ lo <= Len(b)
      /\ lo + 1 = c.src /\ c.src \in Nat /\ Len(b) \in Nat /\ c \in CallsInProgress /\ c.ret = Partial
      /\ b \in Seq(Nat) /\ c.src \in 1 .. Len(b) + 1 /\ c.out = e[lo]
  BY <1>1, Here DEF BeforeExt, CallsInProgress, InStep
<1>3. /\ c.d.hex_count = 0 /\ left = q.left /\ left \in Nat /\ left > 0
      /\ q = [part |-> "DATA", left |-> left, digits |-> 0]
  <2>1. q.part = "DATA" /\ left = q.left /\ c.d.hex_count = q.digits
    BY <1>1, <1>2 DEF Tracks
  <2>2. q \in [part : Parts \cup {"END", "WRONG"}, left : Nat, digits : 0 .. MaxHex] /\ q.digits = 0 /\ q.left > 0
    BY <1>2, <2>1 DEF Sound
  <2> QED BY <2>1, <2>2
<1>4. PICK n : n = IF avail < left THEN avail ELSE left
  OBVIOUS
<1>5. n \in Nat /\ n <= left /\ lo + n <= Len(b) /\ avail \in Nat /\ avail = Len(b) - lo
  <2>1. avail \in Nat /\ avail = Len(b) - lo
    BY <1>1, <1>2
  <2>2. n \in Nat /\ n <= left /\ n <= avail
    BY <1>3, <1>4, <2>1
  <2> QED BY <1>2, <2>1, <2>2
<1>6. IsReading(p, b, t) /\ e = Marked(b, InData(p, b))
  BY <1>1 DEF OfCall
<1>7. \A k \in 0 .. n :
        p[lo + k] = [part |-> IF k = left THEN "CRLF" ELSE "DATA", left |-> left - k, digits |-> 0]
  <2>1. p[lo] = [part |-> "DATA", left |-> left, digits |-> 0]
    BY <1>1, <1>3
  <2>2. b \in Seq(Nat) /\ IsReading(p, b, t) /\ lo \in Nat /\ n \in Nat /\ lo + n <= Len(b) /\ left \in Nat
    BY <1>2, <1>3, <1>5, <1>6
  <2>3. n <= left /\ left > 0
    BY <1>3, <1>5
  <2>4. InChunk(b, p, t, lo, n, left)
    BY <2>1, <2>2, <2>3 DEF InChunk
  <2>5. ChunkRead(p, lo, n, left)
    BY <2>4, InsideChunk, Zenon
  <2> QED BY <2>5, Zenon DEF ChunkRead
<1>8. PICK hi : hi = lo + n
  OBVIOUS
<1>9. AllData(b, p, e, lo, hi)
  <2>1. \A j \in lo .. hi - 1 : p[j].part = "DATA"
    <3> TAKE j \in lo .. hi - 1
    <3>1. j - lo \in 0 .. n /\ j - lo # left /\ lo + (j - lo) = j
      BY <1>2, <1>3, <1>5, <1>8
    <3>2. p[lo + (j - lo)] = [part |-> IF j - lo = left THEN "CRLF" ELSE "DATA", left |-> left - (j - lo), digits |-> 0]
      BY <1>7, <3>1
    <3> QED BY <3>1, <3>2
  <2> QED BY <1>2, <1>5, <1>6, <1>8, <2>1 DEF AllData, Between
<1>10. e[hi] = e[lo] \o SubSeq(b, lo + 1, hi)
  <2>1. e[hi] = e[lo] \o SubSeq(b, lo + 1, hi) /\ e[lo] \in Seq(Nat)
    BY <1>9, DataGrows, Zenon
  <2> QED BY <2>1
<1>11. p[hi] = [part |-> IF n = left THEN "CRLF" ELSE "DATA", left |-> left - n, digits |-> 0]
  BY <1>5, <1>7, <1>8
<1>12. PICK state : state = IF avail < left THEN "DATA" ELSE "CRLF"
  OBVIOUS
<1>13. p[hi].part = state /\ p[hi].left = left - n /\ p[hi].digits = 0 /\ state \in Parts
  BY <1>3, <1>4, <1>5, <1>11, <1>12 DEF Parts
<1>14. PICK s : s = Moved(c, n, state)
  OBVIOUS
<1>15. /\ s \in CallsInProgress /\ s.b = c.b /\ s.out = c.out \o SubSeq(c.b, c.src, c.src + n - 1)
       /\ s.src = c.src + n /\ s.ret = c.ret /\ s.done = c.done
       /\ s.d.state = state /\ s.d.bytes_left_in_chunk = c.d.bytes_left_in_chunk - n
       /\ s.d.hex_count = c.d.hex_count /\ SameCall(s, c)
  <2>1. n <= c.d.bytes_left_in_chunk /\ c.src \in 1 .. Len(c.b) + 1 /\ c.src + n <= Len(c.b) + 1
    BY <1>1, <1>2, <1>3, <1>5
  <2>2. c \in CallsInProgress /\ n \in Nat /\ state \in Parts
    BY <1>2, <1>5, <1>13
  <2>3. Movable(c, n, state)
    BY <2>1, <2>2 DEF Movable
  <2>4. HasMoved(s, c, n, state)
    BY <1>14, <2>3, MovedIs, Zenon
  <2> QED BY <2>4, Zenon DEF HasMoved
<1>16. /\ s.src - 1 = hi /\ s.src = hi + 1 /\ s.src \in 1 .. Len(s.b) + 1 /\ s.out = e[hi]
       /\ Tracks(s.d, p[hi])
  <2>1. s.src = hi + 1 /\ c.src + n - 1 = hi /\ hi \in 0 .. Len(b)
    BY <1>2, <1>5, <1>8, <1>15
  <2>2. s.out = e[hi]
    BY <1>1, <1>2, <1>10, <1>15, <2>1
  <2>3. Tracks(s.d, p[hi])
    BY <1>1, <1>3, <1>13, <1>15 DEF Tracks
  <2>4. s.src \in 1 .. Len(s.b) + 1
    <3>1. s.b = b /\ Len(b) \in Nat
      BY <1>1, <1>2, <1>15
    <3> QED BY <2>1, <3>1
  <2>5. s.src - 1 = hi
    BY <1>2, <2>1
  <2> QED BY <2>1, <2>2, <2>3, <2>4, <2>5
<1>17. CASE avail < left
  <2>1. InChunkData(c) = Stop(s, c.src + avail, Partial)
    <3>1. Move(c, avail) = Moved(c, avail, "DATA")
      BY <1>2, <1>5, MoveIsMoved
    <3> QED BY <1>1, <1>4, <1>12, <1>14, <1>17, <3>1 DEF InChunkData
  <2>2. PICK i, r, z : i = c.src + avail /\ r = Partial /\ z = Stop(s, i, r)
    OBVIOUS
  <2>3. i = Len(b) + 1 /\ hi = Len(b) /\ i = hi + 1 /\ i \in Nat /\ r \in Int
    <3>1. n = avail /\ avail = Len(b) - lo /\ lo + 1 = c.src /\ i = c.src + avail /\ hi = lo + n
      BY <1>2, <1>4, <1>5, <1>8, <1>17, <2>2
    <3>2. lo \in Nat /\ Len(b) \in Nat
      BY <1>2
    <3>3. r \in Int
      BY <2>2 DEF Partial
    <3>4. hi = Len(b) /\ i = Len(b) + 1
      BY <3>1, <3>2
    <3> QED BY <3>2, <3>3, <3>4
  <2>4. /\ z \in CallsInProgress /\ z.d = s.d /\ z.b = s.b /\ z.out = s.out
        /\ z.src = i /\ z.ret = r /\ z.done
    <3>1. s \in CallsInProgress /\ i \in Nat /\ r \in Int /\ z = Stop(s, i, r)
      BY <1>15, <2>2, <2>3
    <3> QED BY <3>1, StopIs, SMT
  <2>5. Left(z, p)
    BY <1>1, <1>15, <1>16, <2>2, <2>3, <2>4 DEF Left
  <2>6. InStep(z, p, e)
    BY <1>1, <1>15, <1>16, <2>3, <2>4, <2>5 DEF InStep
  <2>7. SameCall(z, c)
    BY <1>15, <2>4 DEF SameCall
  <2> QED BY <2>1, <2>2, <2>4, <2>6, <2>7 DEF Stepped
<1>18. CASE ~ (avail < left)
  <2>1. InChunkData(c) = s
    <3>1. To(Move(c, left), c.src + left, "CRLF") = Moved(c, left, "CRLF")
      BY <1>2, <1>3, MoveIsMoved
    <3> QED BY <1>1, <1>4, <1>12, <1>14, <1>18, <3>1 DEF InChunkData
  <2>2. InStep(s, p, e)
    BY <1>2, <1>15, <1>16 DEF InStep
  <2>3. Reached(s) > Reached(c)
    <3>1. s.src = c.src + n /\ n > 0 /\ c.src \in Nat /\ n \in Nat
      BY <1>2, <1>3, <1>4, <1>5, <1>15, <1>18
    <3>2. Reached(c) = 2 * c.src + 0 /\ Reached(s) = 2 * (c.src + n) + 0
      BY <1>12, <1>15, <1>18, <3>1 DEF Reached
    <3> QED BY <3>1, <3>2
  <2> QED BY <1>15, <2>1, <2>2, <2>3 DEF Stepped
<1> QED BY <1>17, <1>18

\* Whatever its state, a step keeps the loop at the place of the reference and
\* gets on ...
LEMMA StepStepped ==
  ASSUME NEW c, NEW p, NEW e, OfCall(c, p, e), InStep(c, p, e), ~ c.done
  PROVE  Stepped(Step(c), c, p, e)
<1>1. c.d.state \in Parts
  BY Here DEF Decoders
<1>2. CASE c.d.state = "SIZE"
  BY <1>2, SizeStep DEF Step
<1>3. CASE c.d.state = "EXT"
  BY <1>3, ExtStep DEF Step
<1>4. CASE c.d.state = "DATA"
  BY <1>4, DataStep DEF Step
<1>5. CASE c.d.state = "CRLF"
  BY <1>5, CrlfStep DEF Step
<1>6. CASE c.d.state = "HEAD"
  BY <1>6, HeadStep DEF Step
<1>7. CASE c.d.state = "MIDDLE"
  BY <1>7, MiddleStep DEF Step
<1> QED BY <1>1, <1>2, <1>3, <1>4, <1>5, <1>6, <1>7 DEF Parts

\* Where the loop is after n steps of a call a that begins with the first byte.
OnTheWay(s, a, p, e, n) ==
  InStep(s, p, e) /\ SameCall(s, a) /\ (s.done \/ Reached(s) >= 2 + n)

\* ... so that each of the steps does ...
LEMMA OneStep ==
  ASSUME NEW s, NEW a, NEW p, NEW e, NEW n, n \in Nat, OfCall(a, p, e), OnTheWay(s, a, p, e, n)
  PROVE  OnTheWay(Step(s), a, p, e, n + 1)
<1>1. CASE s.done
  <2>1. Step(s) = s
    BY <1>1, Zenon DEF Step
  <2> QED BY <1>1, <2>1 DEF OnTheWay
<1>2. CASE ~ s.done
  <2>1. InStep(s, p, e) /\ SameCall(s, a) /\ Reached(s) >= 2 + n
    BY <1>2 DEF OnTheWay
  <2>2. OfCall(s, p, e)
    BY <2>1 DEF OfCall, InStep, SameCall
  <2>3. PICK z : z = Step(s)
    OBVIOUS
  <2>4. Stepped(z, s, p, e)
    BY <1>2, <2>1, <2>2, <2>3, StepStepped
  <2>5. InStep(z, p, e) /\ SameCall(z, a)
    BY <2>1, <2>4 DEF Stepped, SameCall
  <2>6. z.done \/ Reached(z) >= 2 + (n + 1)
    <3>1. z.src \in Nat /\ s.src \in Nat
      BY <2>1, <2>5 DEF InStep, CallsInProgress
    <3>2. Reached(z) \in Nat /\ Reached(s) \in Nat
      BY <3>1 DEF Reached
    <3>3. z.done \/ Reached(z) > Reached(s)
      BY <2>4 DEF Stepped
    <3> QED BY <2>1, <3>2, <3>3
  <2> QED BY <2>3, <2>5, <2>6 DEF OnTheWay
<1> QED BY <1>1, <1>2

\* ... and the loop is done when it has taken them all.
LEMMA LoopEnds ==
  ASSUME NEW c, NEW p, NEW e, OfCall(c, p, e), InStep(c, p, e), c.src = 1
  PROVE  InStep(Loop(c), p, e) /\ SameCall(Loop(c), c) /\ Loop(c).done
<1>0. c.b \in Seq(Nat) /\ Len(c.b) \in Nat
  BY DEF InStep, CallsInProgress
<1>1. PICK k \in Nat : k = 2 * Len(c.b) + 2
  BY <1>0
<1>2. PICK h : h[0] = c /\ h[k] = Loop(c) /\ \A n \in 1 .. k : h[n] = Step(h[n - 1])
  BY <1>1, LoopIs
<1>3. OnTheWay(c, c, p, e, 0)
  BY DEF OnTheWay, SameCall, Reached
<1> DEFINE W == {n \in 0 .. k : ~ OnTheWay(h[n], c, p, e, n)}
<1>4. ASSUME W # {} PROVE FALSE
  <2>1. PICK n \in W : \A m \in W : n <= m
    <3>1. W \in SUBSET Nat
      OBVIOUS
    <3> HIDE DEF W
    <3> QED BY <1>4, <3>1, SmallestNumber
  <2>2. n # 0 /\ n \in 0 .. k
    BY <1>2, <1>3, <2>1
  <2>3. n - 1 \in 0 .. k /\ n \in 1 .. k /\ n - 1 < n /\ (n - 1) + 1 = n /\ n - 1 \in Nat
    BY <2>2
  <2>4. OnTheWay(h[n - 1], c, p, e, n - 1)
    <3>1. n - 1 \notin W
      <4> HIDE DEF W
      <4> QED BY <2>1, <2>3
    <3> QED BY <2>3, <3>1
  <2>5. PICK m, s : m = n - 1 /\ s = h[n - 1]
    OBVIOUS
  <2>6. OnTheWay(Step(s), c, p, e, m + 1)
    BY <2>3, <2>4, <2>5, OneStep
  <2>7. OnTheWay(h[n], c, p, e, n)
    BY <1>2, <2>3, <2>5, <2>6
  <2> QED BY <2>1, <2>7
<1>5. OnTheWay(Loop(c), c, p, e, k)
  <2>1. k \in 0 .. k
    OBVIOUS
  <2> QED BY <1>2, <1>4, <2>1
<1>6. PICK s : s = Loop(c)
  OBVIOUS
<1>7. s.done
  <2> SUFFICES ASSUME ~ s.done PROVE FALSE
    OBVIOUS
  <2>1. InStep(s, p, e) /\ SameCall(s, c) /\ Reached(s) >= 2 + k
    BY <1>5, <1>6 DEF OnTheWay
  <2>2. s.src \in Nat /\ s.src <= Len(c.b) + 1
    BY <1>0, <2>1 DEF InStep, SameCall
  <2>3. PICK x, y : x \in 0 .. 1 /\ y = s.src /\ Reached(s) = 2 * y + x
    BY DEF Reached
  <2> QED BY <1>0, <1>1, <2>1, <2>2, <2>3
<1> QED BY <1>5, <1>6, <1>7 DEF OnTheWay

\* No more bytes are marked than there are.
LEMMA MarkedLen ==
  ASSUME NEW b, b \in Seq(Nat), NEW marks, NEW f, f = Marked(b, marks)
  PROVE  \A n \in 0 .. Len(b) : Len(f[n]) <= n
<1> DEFINE W == {n \in 0 .. Len(b) : ~ (Len(f[n]) <= n)}
<1> SUFFICES ASSUME W # {} PROVE FALSE
  OBVIOUS
<1>1. PICK n \in W : \A m \in W : n <= m
  <2>1. W \in SUBSET Nat
    OBVIOUS
  <2> HIDE DEF W
  <2> QED BY <2>1, SmallestNumber
<1>2. f[0] = <<>> /\ \A k \in 1 .. Len(b) : f[k] = Kept(f[k - 1], b, k, marks)
  BY MarkedIs
<1>3. n \in 0 .. Len(b) /\ ~ (Len(f[n]) <= n) /\ n # 0
  <2>1. Len(<<>>) = 0
    OBVIOUS
  <2> QED BY <1>1, <1>2, <2>1
<1>4. n - 1 \in 0 .. Len(b) /\ n - 1 \notin W /\ n \in 1 .. Len(b)
  <2>1. n - 1 \in 0 .. Len(b) /\ n \in 1 .. Len(b) /\ n - 1 < n /\ n \in Nat
    BY <1>3
  <2>2. n - 1 \notin W
    <3> HIDE DEF W
    <3> QED BY <1>1, <2>1
  <2> QED BY <2>1, <2>2
<1>5. f[n - 1] \in Seq(Nat) /\ b[n] \in Nat /\ Len(f[n - 1]) <= n - 1
  <2>1. \A k \in 0 .. Len(b) : f[k] \in Seq(Nat)
    BY MarkedSeq
  <2>2. f[n - 1] \in Seq(Nat)
    BY <1>4, <2>1
  <2>3. Len(f[n - 1]) <= n - 1
    BY <1>4
  <2>4. b[n] \in Nat
    BY <1>4
  <2> QED BY <2>2, <2>3, <2>4
<1>6. Len(Append(f[n - 1], b[n])) = Len(f[n - 1]) + 1 /\ Len(f[n - 1]) \in Nat
  BY <1>5, AppendProperties
<1>7. f[n] = f[n - 1] \/ f[n] = Append(f[n - 1], b[n])
  BY <1>2, <1>4 DEF Kept
<1>8. PICK l, m : l = Len(f[n - 1]) /\ m = Len(f[n])
  OBVIOUS
<1>9. l \in Nat /\ l <= n - 1 /\ (m = l \/ m = l + 1) /\ n \in Nat
  BY <1>3, <1>5, <1>6, <1>7, <1>8
<1>10. m <= n
  BY <1>9
<1> QED BY <1>3, <1>8, <1>10

\* A call begins.
Begun(d, b) ==
  [d |-> [d EXCEPT !.total_read = @ + Len(b)], b |-> b, src |-> 1,
   out |-> <<>>, ret |-> Partial, done |-> FALSE]

\* What a call is given.
Given(d, b, p, e) ==
  /\ d \in Decoders /\ b \in Seq(Nat) /\ IsReading(p, b, d.consume_trailer)
  /\ e = Marked(b, InData(p, b)) /\ Tracks(d, p[0])

\* A call begins at the place where the last one stopped.
LEMMA Begins ==
  ASSUME NEW d, NEW b, NEW p, NEW e, NEW c, Given(d, b, p, e), c = Begun(d, b)
  PROVE  /\ OfCall(c, p, e) /\ InStep(c, p, e) /\ c.src = 1 /\ c.b = b
         /\ c.d.total_read = d.total_read + Len(b) /\ c.d.total_overhead = d.total_overhead
         /\ c.d.consume_trailer = d.consume_trailer
<1>0. /\ d \in Decoders /\ b \in Seq(Nat) /\ IsReading(p, b, d.consume_trailer)
      /\ e = Marked(b, InData(p, b)) /\ Tracks(d, p[0])
  BY DEF Given
<1>1. PICK t \in Nat : t = d.total_read + Len(b)
  BY <1>0 DEF Decoders
<1>2. PICK f : f = [d EXCEPT !.total_read = t]
  OBVIOUS
<1>3. /\ f \in Decoders /\ f.state = d.state /\ f.bytes_left_in_chunk = d.bytes_left_in_chunk
      /\ f.hex_count = d.hex_count /\ f.consume_trailer = d.consume_trailer
      /\ f.total_read = t /\ f.total_overhead = d.total_overhead
  BY <1>0, <1>1, <1>2 DEF Decoders
<1>4. c = [d |-> f, b |-> b, src |-> 1, out |-> <<>>, ret |-> Partial, done |-> FALSE]
  BY <1>0, <1>1, <1>2 DEF Begun, Decoders
<1>5. c \in CallsInProgress /\ c.d = f /\ c.b = b /\ c.src = 1 /\ c.out = <<>> /\ c.ret = Partial /\ ~ c.done
  BY <1>0, <1>3, <1>4 DEF CallsInProgress, Partial
<1>6. e[0] = <<>>
  BY <1>0, MarkedIs
<1>7. OfCall(c, p, e)
  BY <1>0, <1>3, <1>5 DEF OfCall
<1>8. Tracks(f, p[0])
  BY <1>0, <1>3 DEF Tracks
<1>9. InStep(c, p, e)
  <2>1. 1 \in 1 .. Len(b) + 1 /\ 1 - 1 = 0
    BY <1>0
  <2> QED BY <1>5, <1>6, <1>8, <2>1 DEF InStep
<1> QED BY <1>1, <1>3, <1>5, <1>7, <1>9

\* What a call returns.
Refused(read, overhead) == overhead >= OverheadLimit /\ read - overhead < read \div 4
Overhead(d, b, e) == d.total_overhead + Len(b) - Len(e[Len(b)])
Decoded(c, d, b, p, e) ==
  /\ c.d \in Decoders /\ c.d.bytes_left_in_chunk < Sizes[MaxHex]
  /\ c.d.consume_trailer = d.consume_trailer
  /\ \/ /\ c.ret = Partial /\ c.out = e[Len(b)] /\ Tracks(c.d, p[Len(b)])
        /\ c.d.total_read = d.total_read + Len(b) /\ c.d.total_overhead = Overhead(d, b, e)
     \/ c.ret = Failed /\ \E n \in 1 .. Len(b) : p[n].part = "WRONG"
     \/ c.ret = Failed /\ Refused(d.total_read + Len(b), Overhead(d, b, e))
     \/ /\ c.ret \in 0 .. Len(b) - 1 /\ c.out = e[Len(b)]
        /\ p[Len(b) - c.ret].part = "END" /\ p[Len(b) - c.ret - 1].part # "END"

\* The data of a body are all there when it ends.
LEMMA NoMoreData ==
  ASSUME NEW b, NEW p, NEW e, NEW trailer, b \in Seq(Nat), IsReading(p, b, trailer),
         e = Marked(b, InData(p, b)), NEW n, n \in 0 .. Len(b), p[n].part = "END"
  PROVE  e[Len(b)] = e[n]
<1>1. PICK hi : hi = Len(b)
  OBVIOUS
<1>2. Waiting(b, p, e, n, hi, trailer)
  BY <1>1 DEF Waiting, Between, Reads
<1>3. e[hi] = e[n]
  BY <1>2, Waits
<1> QED BY <1>1, <1>3

\* What a call returns: the decoder where the reference is after the same bytes,
\* the data among them, and the bytes that lie beyond the end of the body.
LEMMA DecodeIs ==
  ASSUME NEW d, NEW b, NEW p, NEW e, NEW c, Given(d, b, p, e), c = phr_decode_chunked(d, b)
  PROVE  Decoded(c, d, b, p, e)
<1>0. /\ d \in Decoders /\ b \in Seq(Nat) /\ IsReading(p, b, d.consume_trailer)
      /\ e = Marked(b, InData(p, b)) /\ Tracks(d, p[0]) /\ Len(b) \in Nat
  BY DEF Given
<1>1. PICK a, s : a = Begun(d, b) /\ s = Loop(a)
  OBVIOUS
<1>2. /\ OfCall(a, p, e) /\ InStep(a, p, e) /\ a.src = 1 /\ a.b = b
      /\ a.d.total_read = d.total_read + Len(b) /\ a.d.total_overhead = d.total_overhead
      /\ a.d.consume_trailer = d.consume_trailer
  BY <1>1, Begins
<1>3. InStep(s, p, e) /\ SameCall(s, a) /\ s.done
  BY <1>1, <1>2, LoopEnds
<1>4. c = Exit(s)
  BY <1>1 DEF phr_decode_chunked, Begun
<1>5. /\ s \in CallsInProgress /\ s.b = b /\ s.out = e[s.src - 1] /\ Left(s, p) /\ s.src \in 1 .. Len(b) + 1
      /\ s.d \in Decoders /\ s.d.total_read = d.total_read + Len(b) /\ s.d.total_overhead = d.total_overhead
      /\ s.d.consume_trailer = d.consume_trailer
  BY <1>2, <1>3 DEF InStep, SameCall, CallsInProgress
<1>6. CASE s.ret = Partial /\ s.src = Len(b) + 1 /\ Tracks(s.d, p[Len(b)])
  <2>1. s.out = e[Len(b)]
    BY <1>0, <1>5, <1>6
  <2>2. e[Len(b)] \in Seq(Nat) /\ Len(e[Len(b)]) <= Len(b)
    BY <1>0, MarkedSeq, MarkedLen
  <2>3. PICK o : o = Overhead(d, b, e)
    OBVIOUS
  <2>4. o \in Nat /\ o = s.d.total_overhead + Len(b) - Len(s.out)
    <3>1. PICK x, y, z : x = d.total_overhead /\ y = Len(b) /\ z = Len(e[Len(b)])
      OBVIOUS
    <3>2. x \in Nat /\ y \in Nat /\ z \in Nat /\ z <= y
      BY <1>0, <2>2, <3>1 DEF Decoders
    <3>3. x + y - z \in Nat
      BY <3>2
    <3> QED BY <1>5, <2>1, <2>3, <3>1, <3>3 DEF Overhead
  <2>5. PICK f : f = [s.d EXCEPT !.total_overhead = o]
    OBVIOUS
  <2>6. /\ f \in Decoders /\ f.state = s.d.state /\ f.bytes_left_in_chunk = s.d.bytes_left_in_chunk
        /\ f.hex_count = s.d.hex_count /\ f.consume_trailer = s.d.consume_trailer
        /\ f.total_read = s.d.total_read /\ f.total_overhead = o
    BY <1>5, <2>4, <2>5 DEF Decoders
  <2>7. f = [s EXCEPT !.d.total_overhead = @ + Len(s.b) - Len(s.out)].d
    BY <1>5, <2>4, <2>5 DEF CallsInProgress, Decoders
  <2>8. c = [s EXCEPT !.d = f, !.ret = IF Refuse(f) THEN Failed ELSE @]
    BY <1>4, <1>5, <1>6, <2>4, <2>5 DEF Exit, Decoders
  <2>9. c.d = f /\ c.out = s.out /\ c.ret = IF Refuse(f) THEN Failed ELSE Partial
    BY <1>5, <1>6, <2>8 DEF CallsInProgress
  <2>10. Refuse(f) <=> Refused(d.total_read + Len(b), Overhead(d, b, e))
    BY <1>5, <2>3, <2>6 DEF Refuse, Refused
  <2>11. f.bytes_left_in_chunk < Sizes[MaxHex]
    <3>1. f.bytes_left_in_chunk = p[Len(b)].left
      BY <1>6, <2>6 DEF Tracks
    <3>2. Sound(p[Len(b)])
      <4>1. Len(b) \in 0 .. Len(b)
        BY <1>0
      <4> QED BY <1>0, <4>1, AlwaysSound
    <3>3. p[Len(b)].left < Sizes[MaxHex]
      BY <3>2, SoundLeft
    <3> QED BY <3>1, <3>3
  <2>12. Tracks(f, p[Len(b)])
    BY <1>6, <2>6 DEF Tracks
  <2> HIDE DEF Sizes
  <2>13. CASE Refuse(f)
    BY <1>5, <2>6, <2>9, <2>10, <2>11, <2>13 DEF Decoded
  <2>14. CASE ~ Refuse(f)
    BY <1>5, <2>1, <2>3, <2>6, <2>9, <2>11, <2>12, <2>14 DEF Decoded
  <2> QED BY <2>13, <2>14
<1>7. CASE /\ s.ret = Failed /\ s.src <= Len(b) /\ p[s.src].part = "WRONG"
           /\ s.d.bytes_left_in_chunk < Sizes[MaxHex]
  <2>1. c = s
    BY <1>4, <1>7 DEF Exit, Failed, Partial
  <2>2. s.src \in 1 .. Len(b)
    BY <1>0, <1>5, <1>7
  <2> HIDE DEF Sizes
  <2> QED BY <1>5, <1>7, <2>1, <2>2 DEF Decoded
<1>8. CASE /\ s.ret = Len(b) - s.src + 1 /\ s.src >= 2 /\ p[s.src - 1].part = "END" /\ p[s.src - 2].part # "END"
           /\ s.d.bytes_left_in_chunk < Sizes[MaxHex]
  <2>1. PICK n : n = s.src - 1
    OBVIOUS
  <2>2. n \in 1 .. Len(b) /\ n \in 0 .. Len(b) /\ s.ret = Len(b) - n /\ s.ret \in 0 .. Len(b) - 1
        /\ Len(b) - s.ret = n /\ s.src - 2 = n - 1 /\ Len(b) - s.ret - 1 = n - 1
    <3>1. PICK l, k, r : l = Len(b) /\ k = s.src /\ r = s.ret
      OBVIOUS
    <3>2. l \in Nat /\ k \in 2 .. l + 1 /\ r = l - k + 1 /\ n = k - 1
      BY <1>0, <1>5, <1>8, <2>1, <3>1
    <3>3. n \in 1 .. l /\ n \in 0 .. l /\ r = l - n /\ r \in 0 .. l - 1 /\ l - r = n /\ k - 2 = n - 1 /\ l - r - 1 = n - 1
      BY <3>2
    <3> QED BY <3>1, <3>3
  <2>3. c = s
    BY <1>4, <2>2 DEF Exit, Partial
  <2>4. e[Len(b)] = e[n]
    BY <1>0, <1>8, <2>1, <2>2, NoMoreData
  <2> HIDE DEF Sizes
  <2> QED BY <1>5, <1>8, <2>1, <2>2, <2>3, <2>4 DEF Decoded
<1> QED BY <1>5, <1>6, <1>7, <1>8 DEF Left
-----------------------------------------------------------------------------
(* The pieces of a body. *)

\* The reference p and the data e of a piece, seen from the whole body b: the
\* piece is bytes from + 1 to from + n.
PieceOf(b, q, from, n) == [j \in 0 .. n |-> q[from + j]]
Cut(b, from, n) == SubSeq(b, from + 1, from + n)
IsPiece(b, q, from, n, trailer) ==
  /\ b \in Seq(Nat) /\ IsReading(q, b, trailer) /\ from \in Nat /\ n \in Nat /\ from + n <= Len(b)

IsCut(s, b, from, n) == s \in Seq(Nat) /\ Len(s) = n /\ \A j \in 1 .. n : s[j] = b[from + j]

\* A piece is a sequence of bytes.
LEMMA CutIs ==
  ASSUME NEW b, NEW q, NEW from, NEW n, NEW trailer, IsPiece(b, q, from, n, trailer), NEW s, s = Cut(b, from, n)
  PROVE  IsCut(s, b, from, n)
<1>0. b \in Seq(Nat) /\ from \in Nat /\ n \in Nat /\ from + n <= Len(b)
  BY DEF IsPiece
<1> USE <1>0
<1>1. PICK lo, hi : lo = from + 1 /\ hi = from + n
  OBVIOUS
<1>2. lo \in Int /\ hi \in Int /\ hi - lo + 1 = n /\ (lo <= hi <=> n > 0) /\ \A i \in lo .. hi : b[i] \in Nat
  BY <1>1
<1>3. s = SubSeq(b, lo, hi)
  BY <1>1 DEF Cut
<1>4. s \in Seq(Nat) /\ Len(s) = (IF lo <= hi THEN hi - lo + 1 ELSE 0) /\ \A i \in 1 .. hi - lo + 1 : s[i] = b[lo + i - 1]
  <2>1. lo \in Int /\ hi \in Int /\ \A i \in lo .. hi : b[i] \in Nat
    BY <1>2
  <2>2. SubSeq(b, lo, hi) \in Seq(Nat)
    BY <2>1, SubSeqProperties
  <2>3. Len(SubSeq(b, lo, hi)) = IF lo <= hi THEN hi - lo + 1 ELSE 0
    BY <2>1, SubSeqProperties
  <2>4. \A i \in 1 .. hi - lo + 1 : SubSeq(b, lo, hi)[i] = b[lo + i - 1]
    BY <2>1, SubSeqProperties
  <2> QED BY <1>3, <2>2, <2>3, <2>4
<1>5. Len(s) = n
  BY <1>2, <1>4
<1>6. \A j \in 1 .. n : s[j] = b[from + j]
  <2> TAKE j \in 1 .. n
  <2>1. j \in 1 .. hi - lo + 1 /\ lo + j - 1 = from + j
    BY <1>1, <1>2
  <2> QED BY <1>4, <2>1
<1> QED BY <1>4, <1>5, <1>6 DEF IsCut

\* Reading the piece from where the whole was left is reading the whole.
LEMMA PieceReads ==
  ASSUME NEW b, NEW q, NEW from, NEW n, NEW trailer, IsPiece(b, q, from, n, trailer),
         NEW s, NEW p, s = Cut(b, from, n), p = PieceOf(b, q, from, n)
  PROVE  IsReading(p, s, trailer)
<1>0. b \in Seq(Nat) /\ IsReading(q, b, trailer) /\ from \in Nat /\ n \in Nat /\ from + n <= Len(b)
  BY DEF IsPiece
<1>1. s \in Seq(Nat) /\ Len(s) = n /\ \A j \in 1 .. n : s[j] = b[from + j]
  BY CutIs DEF IsCut
<1>2. \A j \in 0 .. n : p[j] = q[from + j]
  BY DEF PieceOf
<1>3. Sound(p[0])
  <2>1. from \in 0 .. Len(b) /\ 0 \in 0 .. n /\ from + 0 = from
    BY <1>0
  <2>2. \A k \in 0 .. Len(b) : Sound(q[k])
    BY <1>0, AlwaysSound
  <2>3. Sound(q[from])
    BY <2>1, <2>2
  <2>4. p[0] = q[from]
    BY <1>2, <2>1
  <2> QED BY <2>3, <2>4
<1>4. \A j \in 1 .. n : p[j] = Reads(p[j - 1], s[j], trailer)
  <2> TAKE j \in 1 .. n
  <2>1. j \in 0 .. n /\ j - 1 \in 0 .. n /\ from + j \in 1 .. Len(b) /\ (from + j) - 1 = from + (j - 1)
    BY <1>0
  <2>2. q[from + j] = Reads(q[(from + j) - 1], b[from + j], trailer)
    BY <1>0, <2>1 DEF IsReading
  <2>3. p[j] = q[from + j] /\ p[j - 1] = q[from + (j - 1)] /\ s[j] = b[from + j]
    BY <1>1, <1>2, <2>1
  <2> QED BY <2>1, <2>2, <2>3
<1> QED BY <1>1, <1>3, <1>4 DEF IsReading

Joined(f, e, from, n) == f[from + n] = f[from] \o e[n] /\ f[from] \in Seq(Nat) /\ e[n] \in Seq(Nat)

\* The data of the whole are those of the pieces, one after the other.
LEMMA PieceData ==
  ASSUME NEW b, NEW q, NEW from, NEW n, NEW trailer, IsPiece(b, q, from, n, trailer),
         NEW s, NEW p, s = Cut(b, from, n), p = PieceOf(b, q, from, n),
         NEW f, NEW e, f = Marked(b, InData(q, b)), e = Marked(s, InData(p, s))
  PROVE  Joined(f, e, from, n)
<1>0. b \in Seq(Nat) /\ IsReading(q, b, trailer) /\ from \in Nat /\ n \in Nat /\ from + n <= Len(b)
  BY DEF IsPiece
<1>1. s \in Seq(Nat) /\ Len(s) = n /\ \A j \in 1 .. n : s[j] = b[from + j]
  BY CutIs DEF IsCut
<1>2. \A j \in 0 .. n : p[j] = q[from + j]
  BY DEF PieceOf
<1>3. f[from] \in Seq(Nat)
  <2>1. \A k \in 0 .. Len(b) : f[k] \in Seq(Nat)
    BY <1>0, MarkedSeq
  <2>2. from \in 0 .. Len(b)
    BY <1>0
  <2> QED BY <2>1, <2>2
<1>4. \A k \in 0 .. n : e[k] \in Seq(Nat)
  BY <1>1, MarkedSeq
<1>5. e[0] = <<>> /\ \A k \in 1 .. n : e[k] = Kept(e[k - 1], s, k, InData(p, s))
  BY <1>1, MarkedIs
<1>6. \A k \in 1 .. Len(b) : f[k] = Kept(f[k - 1], b, k, InData(q, b))
  BY <1>0, MarkedIs
<1> DEFINE W == {k \in 0 .. n : f[from + k] # f[from] \o e[k]}
<1>7. ASSUME W # {} PROVE FALSE
  <2>1. PICK k \in W : \A m \in W : k <= m
    <3>1. W \in SUBSET Nat
      <4>1. \A m \in W : m \in 0 .. n
        OBVIOUS
      <4>2. \A m \in 0 .. n : m \in Nat
        BY <1>0
      <4> HIDE DEF W
      <4> QED BY <4>1, <4>2
    <3> HIDE DEF W
    <3> QED BY <1>7, <3>1, SmallestNumber
  <2>2. k \in 0 .. n /\ f[from + k] # f[from] \o e[k]
    BY <2>1
  <2>3. k # 0
    <3>1. f[from] \o <<>> = f[from] /\ from + 0 = from
      BY <1>0, <1>3, ConcatEmptySeq
    <3> QED BY <1>5, <2>2, <3>1
  <2>4. k - 1 \in 0 .. n /\ k \in 1 .. n /\ k - 1 < k /\ from + k \in 1 .. Len(b) /\ (from + k) - 1 = from + (k - 1)
    BY <1>0, <2>2, <2>3
  <2>5. f[from + (k - 1)] = f[from] \o e[k - 1]
    <3>1. k - 1 \notin W
      <4> HIDE DEF W
      <4> QED BY <2>1, <2>4
    <3> QED BY <2>4, <3>1
  <2>6. k \in InData(p, s) <=> from + k \in InData(q, b)
    <3>1. p[k - 1] = q[from + (k - 1)]
      BY <1>2, <2>4
    <3> QED BY <1>1, <2>4, <3>1 DEF InData
  <2>7. f[from + k] = Kept(f[from + (k - 1)], b, from + k, InData(q, b)) /\ e[k] = Kept(e[k - 1], s, k, InData(p, s))
    BY <1>5, <1>6, <2>4
  <2>8. s[k] = b[from + k] /\ s[k] \in Nat
    BY <1>1, <2>4
  <2>9. CASE k \in InData(p, s)
    <3>1. f[from + k] = Append(f[from] \o e[k - 1], s[k]) /\ e[k] = Append(e[k - 1], s[k])
      BY <2>5, <2>6, <2>7, <2>8, <2>9 DEF Kept
    <3>2. PICK x, y, z : x = f[from] /\ y = e[k - 1] /\ z = s[k]
      OBVIOUS
    <3>3. Bytewise(x, y, z)
      BY <1>3, <1>4, <2>4, <2>8, <3>2 DEF Bytewise
    <3>4. Append(x \o y, z) = x \o Append(y, z)
      <4>1. LastGoesIn(x, y, z)
        BY <3>3, AppendLast, Zenon
      <4> QED BY <4>1 DEF LastGoesIn
    <3> QED BY <2>2, <3>1, <3>2, <3>4
  <2>10. CASE k \notin InData(p, s)
    <3>1. f[from + k] = f[from] \o e[k - 1] /\ e[k] = e[k - 1]
      BY <2>5, <2>6, <2>7, <2>10 DEF Kept
    <3> QED BY <2>2, <3>1
  <2> QED BY <2>9, <2>10
<1>8. n \in 0 .. n /\ n \notin W
  <2>1. n \in 0 .. n
    BY <1>0
  <2> HIDE DEF W
  <2> QED BY <1>7, <2>1
<1> QED BY <1>3, <1>4, <1>8 DEF Joined
-----------------------------------------------------------------------------
(* A body that comes in pieces. *)

Reading(w) == AsRead(w.bytes, w.trailer)
DataOf(w) == Marked(w.bytes, InData(Reading(w), w.bytes))
Waste(w, n) == n - Len(DataOf(w)[n])
IsBody(w) == w.bytes \in Seq(Nat) /\ w.trailer \in BOOLEAN

\* After n bytes of w the last call returned r and left the decoder d, and o
\* was decoded so far.
Ends(w, n, r) == r \in 0 .. n - 1 /\ Reading(w)[n - r].part = "END" /\ Reading(w)[n - r - 1].part # "END"
GoesOnAt(w, n, d) == Tracks(d, Reading(w)[n]) /\ d.total_read = n /\ d.total_overhead = Waste(w, n)
Streamed(w, n, r, d, o) ==
  /\ d \in Decoders /\ d.bytes_left_in_chunk < Sizes[MaxHex] /\ d.consume_trailer = w.trailer
  /\ \/ r = Partial /\ o = DataOf(w)[n] /\ GoesOnAt(w, n, d)
     \/ r = Failed /\ \E k \in 1 .. n : Reading(w)[k].part = "WRONG"
     \/ r = Failed /\ Refused(n, Waste(w, n))
     \/ o = DataOf(w)[n] /\ Ends(w, n, r)

\* The reference reads a body.
LEMMA BodyReads ==
  ASSUME NEW w, IsBody(w)
  PROVE  IsReading(Reading(w), w.bytes, w.trailer) /\ Reading(w)[0] = NewChunk
<1>1. PICK b, q : b = w.bytes /\ q = Reading(w)
  OBVIOUS
<1>2. b \in Seq(Nat) /\ q = AsRead(b, w.trailer)
  BY <1>1 DEF IsBody, Reading
<1>3. q[0] = NewChunk /\ \A n \in 1 .. Len(b) : q[n] = Reads(q[n - 1], b[n], w.trailer)
  BY <1>2, AsReadIs
<1> QED BY <1>1, <1>2, <1>3, NewChunkSound DEF IsReading

\* Before the first piece.
LEMMA StreamBegins ==
  ASSUME NEW w, IsBody(w)
  PROVE  Streamed(w, 0, Partial, Zeroed(w.trailer), <<>>)
<1>1. PICK q, f, z : q = Reading(w) /\ f = DataOf(w) /\ z = Zeroed(w.trailer)
  OBVIOUS
<1>2. q[0] = NewChunk /\ w.bytes \in Seq(Nat) /\ w.trailer \in BOOLEAN
  BY <1>1, BodyReads DEF IsBody
<1>3. f[0] = <<>>
  BY <1>1, <1>2, MarkedIs DEF DataOf
<1>4. 0 < Sizes[MaxHex]
  <2>1. MaxHex \in 0 .. MaxHex
    BY MaxHexAssumption
  <2> QED BY <2>1, SizesGrow
<1>5. Waste(w, 0) = 0
  <2>1. Len(<<>>) = 0
    OBVIOUS
  <2>2. Len(f[0]) = 0
    BY <1>3, <2>1
  <2>3. Waste(w, 0) = 0 - Len(f[0])
    BY <1>1 DEF Waste
  <2> QED BY <2>2, <2>3
<1> HIDE DEF Sizes
<1>6. z \in Decoders /\ z.bytes_left_in_chunk = 0 /\ z.consume_trailer = w.trailer /\ z.total_read = 0 /\ z.total_overhead = 0
      /\ z.state = "SIZE" /\ z.hex_count = 0
  BY <1>1, <1>2 DEF Zeroed, Decoders, Parts
<1>7. Tracks(z, q[0])
  BY <1>2, <1>6 DEF Tracks, NewChunk
<1> QED BY <1>1, <1>3, <1>4, <1>5, <1>6, <1>7 DEF Streamed, GoesOnAt

\* Bytes arrive.
More(w, from, n, d, o) ==
  /\ IsBody(w) /\ Streamed(w, from, Partial, d, o) /\ from \in Nat /\ n \in Nat \ {0} /\ from + n <= Len(w.bytes)

\* One piece more, of any length.
LEMMA StreamGoesOn ==
  ASSUME NEW w, NEW from, NEW n, NEW d, NEW o, More(w, from, n, d, o),
         NEW c, c = phr_decode_chunked(d, Cut(w.bytes, from, n))
  PROVE  Streamed(w, from + n, c.ret, c.d, o \o c.out)
<1>0. /\ IsBody(w) /\ Streamed(w, from, Partial, d, o) /\ from \in Nat /\ n \in Nat \ {0} /\ n \in Nat
      /\ from + n <= Len(w.bytes)
  BY DEF More
<1>1. PICK b, q, f, trailer : b = w.bytes /\ q = Reading(w) /\ f = DataOf(w) /\ trailer = w.trailer
  OBVIOUS
<1>2. PICK s, p : s = Cut(b, from, n) /\ p = PieceOf(b, q, from, n)
  OBVIOUS
<1>3. PICK e : e = Marked(s, InData(p, s))
  OBVIOUS
<1>4. f = Marked(b, InData(q, b)) /\ b \in Seq(Nat) /\ IsReading(q, b, trailer)
  BY <1>0, <1>1, BodyReads DEF DataOf, IsBody
<1>5. IsPiece(b, q, from, n, trailer)
  BY <1>0, <1>1, <1>4 DEF IsPiece
<1>6. IsReading(p, s, trailer)
  BY <1>2, <1>5, PieceReads
<1>7. f[from + n] = f[from] \o e[n] /\ f[from] \in Seq(Nat) /\ e[n] \in Seq(Nat)
  <2>1. f = Marked(b, InData(q, b))
    BY <1>4
  <2>2. Joined(f, e, from, n)
    BY <1>2, <1>3, <1>5, <2>1, PieceData, Zenon
  <2> QED BY <2>2 DEF Joined
<1>8. s \in Seq(Nat) /\ Len(s) = n
  BY <1>2, <1>5, CutIs DEF IsCut
<1>9. \A k \in 0 .. n : p[k] = q[from + k]
  BY <1>2 DEF PieceOf
<1>10. /\ d \in Decoders /\ d.consume_trailer = trailer
       /\ o = f[from] /\ Tracks(d, q[from]) /\ d.total_read = from /\ d.total_overhead = from - Len(f[from])
  <2>1. ~ Ends(w, from, Partial)
    BY DEF Ends, Partial
  <2>2. Partial # Failed
    BY DEF Partial, Failed
  <2> HIDE DEF Sizes
  <2> QED BY <1>0, <1>1, <2>1, <2>2 DEF Streamed, GoesOnAt, Waste
<1>11. Given(d, s, p, e)
  <2>1. 0 \in 0 .. n /\ from + 0 = from
    BY <1>0
  <2> QED BY <1>3, <1>6, <1>8, <1>9, <1>10, <2>1 DEF Given
<1>12. Decoded(c, d, s, p, e)
  <2>1. c = phr_decode_chunked(d, s)
    BY <1>1, <1>2
  <2> QED BY <1>11, <2>1, DecodeIs, Zenon
<1>13. Waste(w, from + n) = Overhead(d, s, e) /\ d.total_read + Len(s) = from + n
  <2>1. Len(f[from + n]) = Len(f[from]) + Len(e[n])
    BY <1>7
  <2>2. PICK x, y : x = Len(f[from]) /\ y = Len(e[n])
    OBVIOUS
  <2>3. x \in Nat /\ y \in Nat
    BY <1>7, <2>2
  <2>4. Waste(w, from + n) = (from + n) - (x + y) /\ Overhead(d, s, e) = (from - x) + n - y
    <3>1. Waste(w, from + n) = (from + n) - Len(f[from + n])
      BY <1>1 DEF Waste
    <3>2. Overhead(d, s, e) = d.total_overhead + n - Len(e[n])
      <4>1. Overhead(d, s, e) = d.total_overhead + Len(s) - Len(e[Len(s)])
        BY Zenon DEF Overhead
      <4>2. Len(s) = n
        BY <1>8
      <4> QED BY <4>1, <4>2, Zenon
    <3>3. d.total_overhead = from - x
      BY <1>10, <2>2
    <3>4. Len(f[from + n]) = x + y
      BY <2>1, <2>2
    <3>5. Waste(w, from + n) = (from + n) - (x + y)
      BY <3>1, <3>4
    <3>6. Overhead(d, s, e) = (from - x) + n - y
      BY <2>2, <3>2, <3>3
    <3> QED BY <3>5, <3>6
  <2> QED BY <1>0, <1>8, <1>10, <2>3, <2>4
<1> HIDE DEF Sizes
<1>14. c.d \in Decoders /\ c.d.bytes_left_in_chunk < Sizes[MaxHex] /\ c.d.consume_trailer = trailer
  BY <1>10, <1>12 DEF Decoded
<1>15. ASSUME c.out = e[n] PROVE o \o c.out = DataOf(w)[from + n]
  BY <1>1, <1>7, <1>10, <1>15
<1>16. CASE /\ c.ret = Partial /\ c.out = e[Len(s)] /\ Tracks(c.d, p[Len(s)])
            /\ c.d.total_read = d.total_read + Len(s) /\ c.d.total_overhead = Overhead(d, s, e)
  <2>1. p[n] = q[from + n]
    <3>1. n \in 0 .. n
      BY <1>0
    <3> QED BY <1>9, <3>1
  <2>2. GoesOnAt(w, from + n, c.d)
    BY <1>1, <1>8, <1>13, <1>16, <2>1 DEF GoesOnAt
  <2>3. o \o c.out = DataOf(w)[from + n]
    BY <1>8, <1>15, <1>16
  <2> QED BY <1>1, <1>14, <1>16, <2>2, <2>3 DEF Streamed
<1>17. CASE c.ret = Failed /\ \E k \in 1 .. Len(s) : p[k].part = "WRONG"
  <2>1. PICK k \in 1 .. n : p[k].part = "WRONG"
    BY <1>8, <1>17
  <2>2. from + k \in 1 .. from + n /\ k \in 0 .. n
    BY <1>0
  <2>3. q[from + k].part = "WRONG"
    BY <1>9, <2>1, <2>2
  <2> QED BY <1>1, <1>14, <1>17, <2>2, <2>3 DEF Streamed
<1>18. CASE c.ret = Failed /\ Refused(d.total_read + Len(s), Overhead(d, s, e))
  BY <1>1, <1>13, <1>14, <1>18 DEF Streamed
<1>19. CASE /\ c.ret \in 0 .. Len(s) - 1 /\ c.out = e[Len(s)]
            /\ p[Len(s) - c.ret].part = "END" /\ p[Len(s) - c.ret - 1].part # "END"
  <2>1. PICK r : r = c.ret
    OBVIOUS
  <2>2. r \in 0 .. n - 1 /\ p[n - r].part = "END" /\ p[n - r - 1].part # "END"
    BY <1>8, <1>19, <2>1
  <2>3. r \in 0 .. (from + n) - 1 /\ n - r \in 0 .. n /\ n - r - 1 \in 0 .. n
        /\ from + (n - r) = (from + n) - r /\ from + (n - r - 1) = (from + n) - r - 1
    BY <1>0, <2>2
  <2>4. p[n - r] = q[(from + n) - r] /\ p[n - r - 1] = q[(from + n) - r - 1]
    BY <1>9, <2>3
  <2>5. Ends(w, from + n, r)
    <3>1. r \in 0 .. (from + n) - 1 /\ q[(from + n) - r].part = "END" /\ q[(from + n) - r - 1].part # "END"
      BY <2>2, <2>3, <2>4
    <3>2. PICK m : m = from + n
      OBVIOUS
    <3>3. r \in 0 .. m - 1 /\ q[m - r].part = "END" /\ q[m - r - 1].part # "END"
      BY <3>1, <3>2
    <3>4. Ends(w, m, r)
      BY <1>1, <3>3 DEF Ends
    <3> QED BY <3>2, <3>4
  <2>6. o \o c.out = DataOf(w)[from + n]
    BY <1>8, <1>15, <1>19
  <2> QED BY <1>1, <1>14, <2>1, <2>5, <2>6 DEF Streamed
<1> QED BY <1>12, <1>16, <1>17, <1>18, <1>19 DEF Decoded

\* A part of a body that absorbs: it is never left.
LEMMA Absorbs ==
  ASSUME NEW w, IsBody(w), NEW k, k \in 0 .. Len(w.bytes), NEW part, part \in {"END", "WRONG"},
         Reading(w)[k].part = part
  PROVE  \A m \in k .. Len(w.bytes) : Reading(w)[m].part = part
<1>1. PICK b, q, hi : b = w.bytes /\ q = Reading(w) /\ hi = Len(b)
  OBVIOUS
<1>2. IsReading(q, b, w.trailer) /\ b \in Seq(Nat) /\ hi \in Nat /\ k \in Nat /\ k <= hi
  BY <1>1, BodyReads DEF IsBody
<1>3. \A j \in k .. hi - 1 : q[j] = q[k] => q[j + 1] = q[k]
  <2> TAKE j \in k .. hi - 1
  <2>1. j + 1 \in 1 .. Len(b) /\ (j + 1) - 1 = j
    BY <1>1, <1>2
  <2>2. q[j + 1] = Reads(q[(j + 1) - 1], b[j + 1], w.trailer)
    BY <1>2, <2>1 DEF IsReading
  <2>3. q[k].part \in {"END", "WRONG"}
    BY <1>1
  <2>4. ASSUME q[j] = q[k] PROVE Reads(q[j], b[j + 1], w.trailer) = q[k]
    BY <2>3, <2>4 DEF Reads
  <2> QED BY <2>1, <2>2, <2>4
<1>4. \A j \in k .. hi : q[j] = q[k]
  BY <1>2, <1>3, Stays
<1> QED BY <1>1, <1>4

\* A well-formed body, as it is marked.
Marks(w) == {i \in DOMAIN w.isData : w.isData[i]}
IsWellFormed(w) ==
  /\ IsBody(w) /\ w.isData \in Seq(BOOLEAN) /\ Len(w.isData) <= Len(w.bytes)
  /\ EndsAt(Reading(w), Len(w.isData))
  /\ \A i \in DOMAIN w.isData : w.isData[i] <=> Reading(w)[i - 1].part = "DATA"

\* The marks of a well-formed wire are the data the reference finds.
LEMMA MarkedAsRead ==
  ASSUME NEW w, IsWellFormed(w)
  PROVE  Marks(w) = InData(Reading(w), w.bytes)
<1>1. PICK q, l, m : q = Reading(w) /\ l = Len(w.isData) /\ m = Len(w.bytes)
  OBVIOUS
<1>2. /\ IsBody(w) /\ l \in Nat /\ m \in Nat /\ l <= m /\ DOMAIN w.isData = 1 .. l
      /\ \A i \in 1 .. l : w.isData[i] <=> q[i - 1].part = "DATA"
      /\ q[l].part = "END"
  BY <1>1 DEF IsWellFormed, IsBody, EndsAt
<1>3. \A i \in l .. m : q[i].part = "END"
  <2>1. l \in 0 .. Len(w.bytes)
    BY <1>1, <1>2
  <2>2. \A i \in l .. Len(w.bytes) : Reading(w)[i].part = "END"
    BY <1>1, <1>2, <2>1, Absorbs
  <2> QED BY <1>1, <2>2
<1>4. \A i : i \in Marks(w) <=> i \in 1 .. l /\ q[i - 1].part = "DATA"
  BY <1>2 DEF Marks
<1>5. \A i : i \in InData(q, w.bytes) <=> i \in 1 .. m /\ q[i - 1].part = "DATA"
  BY <1>1 DEF InData
<1>6. \A i : (i \in 1 .. m /\ q[i - 1].part = "DATA") => i \in 1 .. l
  <2> SUFFICES ASSUME NEW i, i \in 1 .. m, q[i - 1].part = "DATA", ~ (i \in 1 .. l) PROVE FALSE
    OBVIOUS
  <2>1. i - 1 \in l .. m
    BY <1>2
  <2> QED BY <1>3, <2>1
<1>7. 1 .. l \subseteq 1 .. m
  BY <1>2
<1> QED BY <1>1, <1>4, <1>5, <1>6, <1>7

\* A body ends once.
LEMMA EndsOnce ==
  ASSUME NEW w, IsBody(w), NEW m, NEW l, m \in 1 .. Len(w.bytes), l \in 1 .. Len(w.bytes),
         EndsAt(Reading(w), m), EndsAt(Reading(w), l)
  PROVE  m = l
<1>1. PICK q, h : q = Reading(w) /\ h = Len(w.bytes)
  OBVIOUS
<1>2. m \in 1 .. h /\ l \in 1 .. h /\ q[m].part = "END" /\ q[l].part = "END" /\ q[m - 1].part # "END" /\ q[l - 1].part # "END"
  BY <1>1 DEF EndsAt
<1>3. ASSUME NEW x, NEW y, x \in 1 .. h, y \in 1 .. h, x < y, q[x].part = "END" PROVE q[y - 1].part = "END"
  <2>1. x \in 0 .. Len(w.bytes) /\ y - 1 \in x .. Len(w.bytes)
    BY <1>1, <1>3
  <2> QED BY <1>1, <1>3, <2>1, Absorbs
<1>4. ~ (m < l) /\ ~ (l < m)
  BY <1>2, <1>3
<1> QED BY <1>2, <1>4

\* What the decoder's state says of a wire.
Shows(w, n, r, d, o) ==
  /\ r >= 0 => w.ok /\ n - r = Len(w.isData)
  /\ r = Partial /\ w.ok => n < Len(w.isData)
  /\ w.ok /\ r # Failed => o = Marked(w.bytes, Marks(w))[n]
  /\ w.ok /\ r = Partial => (d.state = "DATA" <=> w.isData[n + 1])
  /\ w.ok /\ r = Failed => Refused(n, n - Len(Marked(w.bytes, Marks(w))[n]))
IsChunked(w) == w \in Wires /\ w.kind = "chunked"
Stands(w, n, r, d, o) == IsChunked(w) /\ n \in 0 .. Len(w.bytes) /\ Streamed(w, n, r, d, o)

\* A chunked wire is as WiresAssumption says.
LEMMA ChunkedWireIs ==
  ASSUME NEW w, IsChunked(w)
  PROVE  IsBody(w) /\ IF w.ok THEN IsWellFormed(w) ELSE \A n \in 0 .. Len(w.bytes) : Reading(w)[n].part # "END"
<1>1. w.bytes \in Seq(Nat) /\ IsChunkedWire(w)
  BY WiresAssumption DEF IsChunked
<1> QED BY <1>1 DEF IsChunkedWire, IsBody, IsWellFormed, Reading

\* What a stream that stands like this shows its caller.
LEMMA StreamShows ==
  ASSUME NEW w, NEW n, NEW r, NEW d, NEW o, Stands(w, n, r, d, o)
  PROVE  Shows(w, n, r, d, o)
<1>0. n \in 0 .. Len(w.bytes) /\ Streamed(w, n, r, d, o) /\ IsBody(w) /\ Len(w.bytes) \in Nat
  BY ChunkedWireIs DEF Stands, IsBody
<1>1. PICK q, h, l : q = Reading(w) /\ h = Len(w.bytes) /\ l = Len(w.isData)
  OBVIOUS
<1>2. h \in Nat /\ n \in 0 .. h
  BY <1>0, <1>1
<1>3. ASSUME w.ok
      PROVE  /\ IsWellFormed(w) /\ DataOf(w) = Marked(w.bytes, Marks(w)) /\ l \in Nat \ {0} /\ l <= h
             /\ EndsAt(q, l) /\ \A k \in l .. h : q[k].part = "END"
  <2>1. IsWellFormed(w)
    BY <1>3, ChunkedWireIs DEF Stands
  <2>2. l \in Nat /\ l <= h /\ EndsAt(q, l)
    BY <1>1, <2>1 DEF IsWellFormed
  <2>3. l \in 0 .. Len(w.bytes) /\ q[l].part = "END" /\ l # 0
    BY <1>1, <1>2, <2>2 DEF EndsAt
  <2>4. \A k \in l .. Len(w.bytes) : Reading(w)[k].part = "END"
    BY <1>0, <1>1, <2>3, Absorbs
  <2> QED BY <1>1, <2>1, <2>2, <2>3, <2>4, MarkedAsRead DEF DataOf
<1>4. ASSUME ~ w.ok PROVE \A k \in 0 .. h : q[k].part # "END"
  BY <1>1, <1>4, ChunkedWireIs DEF Stands
<1>5. CASE r = Partial /\ o = DataOf(w)[n] /\ GoesOnAt(w, n, d)
  <2>1. d.state = q[n].part /\ d.state \in Parts
    <3> HIDE DEF Sizes
    <3> QED BY <1>0, <1>1, <1>5 DEF GoesOnAt, Tracks, Streamed, Decoders
  <2>2. q[n].part # "END"
    BY <2>1 DEF Parts
  <2>3. ASSUME w.ok PROVE n < l /\ (d.state = "DATA" <=> w.isData[n + 1])
    <3>1. n < l
      <4>1. ~ (n \in l .. h)
        BY <1>3, <2>2, <2>3
      <4> QED BY <1>2, <1>3, <2>3, <4>1
    <3>2. n + 1 \in DOMAIN w.isData /\ (n + 1) - 1 = n
      <4>1. DOMAIN w.isData = 1 .. l
        BY <1>1, <1>3, <2>3 DEF IsWellFormed
      <4>2. n + 1 \in 1 .. l /\ (n + 1) - 1 = n
        BY <1>2, <1>3, <2>3, <3>1
      <4> QED BY <4>1, <4>2
    <3>3. w.isData[n + 1] <=> Reading(w)[(n + 1) - 1].part = "DATA"
      <4>1. \A i \in DOMAIN w.isData : w.isData[i] <=> Reading(w)[i - 1].part = "DATA"
        BY <1>3, <2>3 DEF IsWellFormed
      <4> QED BY <3>2, <4>1
    <3>4. Reading(w)[(n + 1) - 1] = q[n]
      BY <1>1, <3>2
    <3> QED BY <2>1, <3>1, <3>3, <3>4
  <2> QED BY <1>1, <1>3, <1>5, <2>3 DEF Shows, Partial, Failed
<1>6. CASE r = Failed /\ \E k \in 1 .. n : Reading(w)[k].part = "WRONG"
  <2>1. PICK k \in 1 .. n : q[k].part = "WRONG"
    BY <1>1, <1>6
  <2>2. ~ w.ok
    <3>1. SUFFICES ASSUME w.ok PROVE FALSE
      OBVIOUS
    <3>2. k \in 0 .. Len(w.bytes) /\ h \in k .. Len(w.bytes) /\ h \in l .. h
      BY <1>1, <1>2, <1>3, <2>1, <3>1
    <3>3. q[h].part = "WRONG"
      BY <1>0, <1>1, <2>1, <3>2, Absorbs
    <3> QED BY <1>3, <3>1, <3>2, <3>3
  <2> QED BY <1>6, <2>2 DEF Shows, Partial, Failed
<1>7. CASE r = Failed /\ Refused(n, Waste(w, n))
  BY <1>3, <1>7 DEF Shows, Partial, Failed, Waste
<1>8. CASE o = DataOf(w)[n] /\ Ends(w, n, r)
  <2>1. r \in 0 .. n - 1 /\ q[n - r].part = "END" /\ q[n - r - 1].part # "END"
    BY <1>1, <1>8 DEF Ends
  <2>2. n - r \in 1 .. h /\ n - r \in 0 .. h
    BY <1>2, <2>1
  <2>3. w.ok
    BY <1>4, <2>1, <2>2
  <2>4. n - r = l
    <3>1. PICK m : m = n - r
      OBVIOUS
    <3>2. m \in 1 .. Len(w.bytes) /\ l \in 1 .. Len(w.bytes) /\ EndsAt(Reading(w), m) /\ EndsAt(Reading(w), l)
      BY <1>1, <1>2, <1>3, <2>1, <2>2, <2>3, <3>1 DEF EndsAt
    <3>3. m = l
      BY <1>0, <3>2, EndsOnce
    <3> QED BY <3>1, <3>3
  <2>5. r # Partial /\ r # Failed
    BY <1>2, <2>1 DEF Partial, Failed
  <2> QED BY <1>1, <1>3, <1>8, <2>3, <2>4, <2>5 DEF Shows
<1> QED BY <1>0, <1>5, <1>6, <1>7, <1>8 DEF Streamed
-----------------------------------------------------------------------------
(* A chunked stream. *)

\* What every reachable state of a chunked stream keeps: the decoder stands
\* where the reference does after the same bytes, however they were cut.
ChunksInv ==
  /\ wire \in Wires /\ got \in 0 .. Len(wire.bytes)
  /\ Chunked => Streamed(wire, got, parse.ret, decoder, out)

\* The invariant holds before the first byte arrives.
LEMMA InitChunks == Init => ChunksInv
<1> SUFFICES ASSUME Init PROVE ChunksInv
  OBVIOUS
<1>1. wire \in Wires /\ got = 0 /\ parse.ret = Partial /\ out = <<>> /\ decoder = Zeroed(Chunked /\ wire.trailer)
  BY DEF Init, NotParsed, Parsed
<1>2. got \in 0 .. Len(wire.bytes)
  BY <1>1, WiresAssumption
<1>3. ASSUME Chunked PROVE Streamed(wire, got, parse.ret, decoder, out)
  <2>1. IsBody(wire)
    BY <1>1, <1>3, ChunkedWireIs DEF IsChunked, Chunked
  <2>2. decoder = Zeroed(wire.trailer)
    BY <1>1, <1>3, <2>1 DEF IsBody, Zeroed
  <2>3. Streamed(wire, 0, Partial, Zeroed(wire.trailer), <<>>)
    BY <2>1, StreamBegins, Zenon
  <2> QED BY <1>1, <2>2, <2>3
<1> QED BY <1>1, <1>2, <1>3 DEF ChunksInv

\* A read of a text that is not chunked leaves it alone.
LEMMA ArriveChunks ==
  ASSUME ChunksInv, NEW n, n \in 1 .. Len(wire.bytes) - got, Arrive(n)
  PROVE  ChunksInv'
<1>1. wire' = wire /\ ~ Chunked /\ got' = got + n
  BY DEF Arrive
<1>2. wire \in Wires /\ got \in 0 .. Len(wire.bytes) /\ Len(wire.bytes) \in Nat
  BY WiresAssumption DEF ChunksInv
<1>3. got' \in 0 .. Len(wire'.bytes)
  BY <1>1, <1>2
<1> QED BY <1>1, <1>2, <1>3 DEF ChunksInv, Chunked

\* A read of a chunked body keeps it.
LEMMA FeedChunks ==
  ASSUME ChunksInv, NEW n, n \in 1 .. Len(wire.bytes) - got, Feed(n)
  PROVE  ChunksInv'
<1>1. PICK c : c = phr_decode_chunked(decoder, Cut(wire.bytes, got, n))
  OBVIOUS
<1>2. /\ wire' = wire /\ Chunked /\ parse.ret = Partial /\ got' = got + n
      /\ parse'.ret = c.ret /\ decoder' = c.d /\ out' = out \o c.out
  BY <1>1 DEF Feed, Cut, NotParsed, Parsed
<1>3. /\ wire \in Wires /\ got \in 0 .. Len(wire.bytes) /\ Len(wire.bytes) \in Nat /\ IsBody(wire)
      /\ Streamed(wire, got, Partial, decoder, out)
  BY <1>2, WiresAssumption, ChunkedWireIs DEF ChunksInv, IsChunked, Chunked
<1>4. got' \in 0 .. Len(wire'.bytes) /\ got \in Nat /\ n \in Nat \ {0} /\ got + n <= Len(wire.bytes)
  BY <1>2, <1>3
<1>5. More(wire, got, n, decoder, out)
  BY <1>3, <1>4 DEF More
<1>6. Streamed(wire, got + n, c.ret, c.d, out \o c.out)
  BY <1>1, <1>5, StreamGoesOn
<1>7. Streamed(wire', got', parse'.ret, decoder', out')
  BY <1>2, <1>6
<1> QED BY <1>2, <1>3, <1>4, <1>7 DEF ChunksInv, Chunked

\* It is inductive.
LEMMA ChunksInductive == Spec => []ChunksInv
<1>1. ChunksInv /\ [Next]_vars => ChunksInv'
  <2> SUFFICES ASSUME ChunksInv, [Next]_vars PROVE ChunksInv'
    OBVIOUS
  <2>1. CASE Next
    BY <2>1, ArriveChunks, FeedChunks DEF Next
  <2>2. CASE UNCHANGED vars
    <3>1. wire' = wire /\ got' = got /\ parse' = parse /\ decoder' = decoder /\ out' = out
      BY <2>2 DEF vars
    <3> QED BY <3>1 DEF ChunksInv, Chunked
  <2> QED BY <2>1, <2>2
<1> QED BY <1>1, InitChunks, PTL DEF Spec

\* What it says of the results.
LEMMA ChunksShow ==
  ASSUME ChunksInv, Chunked
  PROVE  Shows(wire, got, parse.ret, decoder, out)
<1>1. Stands(wire, got, parse.ret, decoder, out)
  BY DEF ChunksInv, Stands, IsChunked, Chunked
<1> QED BY <1>1, StreamShows, Zenon

\* Wherever the pieces of a chunked body are cut, phr_decode_chunked has handed
\* out the data that arrived, all of them, in order, and nothing else, and says
\* whether the next byte is data.
THEOREM DataAlwaysAsSent == Spec => []DataAsSent
<1>1. ChunksInv => DataAsSent
  <2> SUFFICES ASSUME ChunksInv, Chunked, WellFormed, parse.ret # Failed
               PROVE  /\ out = DataIn[got]
                      /\ parse.ret = Partial => (phr_decode_chunked_is_in_data(decoder) <=> wire.isData[got + 1])
    BY DEF DataAsSent
  <2>1. Shows(wire, got, parse.ret, decoder, out) /\ wire.ok
    BY ChunksShow DEF WellFormed
  <2> QED BY <2>1 DEF Shows, DataIn, Marks, phr_decode_chunked_is_in_data
<1> QED BY <1>1, ChunksInductive, PTL

\* The decoder completes at the last byte of a well-formed body, at no other
\* byte and in no other text, and returns how many bytes lie beyond it.
THEOREM AlwaysEndsWhereTheBodyEnds == Spec => []EndsWhereTheBodyEnds
<1>1. ChunksInv => EndsWhereTheBodyEnds
  <2> SUFFICES ASSUME ChunksInv, Chunked
               PROVE  /\ parse.ret >= 0 => WellFormed /\ got - parse.ret = Len(wire.isData)
                      /\ parse.ret = Partial /\ WellFormed => got < Len(wire.isData)
    BY DEF EndsWhereTheBodyEnds
  <2>1. Shows(wire, got, parse.ret, decoder, out)
    BY ChunksShow
  <2> QED BY <2>1 DEF Shows, WellFormed
<1> QED BY <1>1, ChunksInductive, PTL
-----------------------------------------------------------------------------
(* The parsers, on a text and on its beginning: a scan of the beginning    *)
(* runs into its end or gives what the scan of the whole text gives.       *)

Prefix(b, w) ==
  b \in Seq(Nat) /\ w \in Seq(Nat) /\ Len(b) <= Len(w) /\ \A i \in 1 .. Len(b) : b[i] = w[i]
At(b, w, i) == Prefix(b, w) /\ i \in 1 .. Len(b) + 1
On(b, w, i) == Prefix(b, w) /\ i \in 1 .. Len(b)

\* x was found in the beginning and y in the whole, from lo on: the same, unless
\* y takes more than the beginning has.
Alike(b, lo, x, y) ==
  \/ x = Partial /\ (y < 0 \/ y > Len(b) + 1)
  \/ x = y /\ (x = Failed \/ x \in lo .. Len(b) + 1)
\* The same at a byte, one of S.
AlikeOn(b, lo, S, x, y) ==
  \/ x = Partial /\ (y < 0 \/ y > Len(b))
  \/ x = y /\ (x = Failed \/ (x \in lo .. Len(b) /\ b[x] \in S))

\* A text is a beginning of itself.
LEMMA AtItself ==
  ASSUME NEW b, NEW w, Prefix(b, w)
  PROVE  /\ Prefix(w, w) /\ Len(b) \in Nat /\ Len(w) \in Nat /\ Len(b) <= Len(w)
         /\ \A i \in 1 .. Len(b) + 1 : At(w, w, i)
         /\ \A i \in 1 .. Len(w) + 1 : At(w, w, i)
         /\ \A i \in 1 .. Len(w) : On(w, w, i)
<1>1. Prefix(w, w) /\ Len(b) \in Nat /\ Len(w) \in Nat /\ Len(b) <= Len(w)
  BY DEF Prefix
<1>2. \A i \in 1 .. Len(b) + 1 : i \in 1 .. Len(w) + 1
  BY <1>1
<1> QED BY <1>1, <1>2 DEF At, On

\* A search.
LEMMA SearchSame ==
  ASSUME NEW b, NEW w, NEW i, NEW S, At(b, w, i), NEW x, NEW y, x = Search(b, i, S), y = Search(w, i, S)
  PROVE  AlikeOn(b, i, S, x, y) /\ x # Failed /\ (x # Partial => \A j \in i .. x - 1 : b[j] \notin S)
<1>0. /\ b \in Seq(Nat) /\ w \in Seq(Nat) /\ Len(b) <= Len(w) /\ \A j \in 1 .. Len(b) : b[j] = w[j]
      /\ i \in 1 .. Len(b) + 1 /\ Len(b) \in Nat /\ Len(w) \in Nat /\ i \in Nat \ {0}
  BY DEF At, Prefix
<1>1. PICK f, g, m, n : f = Find(b, i, S) /\ g = Find(w, i, S) /\ m = Len(b) /\ n = Len(w)
  OBVIOUS
<1>2. \/ f \in i .. m /\ b[f] \in S /\ \A j \in i .. f - 1 : b[j] \notin S
      \/ f = m + 1 /\ \A j \in i .. m : b[j] \notin S
  BY <1>0, <1>1, FindIs
<1>3. \/ g \in i .. n /\ w[g] \in S /\ \A j \in i .. g - 1 : w[j] \notin S
      \/ g = n + 1 /\ \A j \in i .. n : w[j] \notin S
  BY <1>0, <1>1, FindIs
<1>4. x = (IF f > m THEN Partial ELSE f) /\ y = (IF g > n THEN Partial ELSE g)
  BY <1>1 DEF Search, AtEnd
<1>5. m \in Nat /\ n \in Nat /\ m <= n /\ i \in 1 .. m + 1 /\ \A j \in 1 .. m : b[j] = w[j]
  BY <1>0, <1>1
<1>6. CASE f = m + 1
  <2>1. x = Partial
    BY <1>4, <1>5, <1>6
  <2>2. g > m /\ g \in Nat
    <3>1. \A j \in i .. m : w[j] \notin S
      <4>1. \A j \in i .. m : b[j] \notin S
        BY <1>2, <1>5, <1>6
      <4> QED BY <1>5, <4>1
    <3> QED BY <1>3, <1>5, <3>1
  <2>3. y < 0 \/ y > m
    BY <1>4, <1>5, <2>2 DEF Partial
  <2> QED BY <1>1, <2>1, <2>3 DEF AlikeOn, Partial, Failed
<1>7. CASE f \in i .. m /\ b[f] \in S /\ \A j \in i .. f - 1 : b[j] \notin S
  <2>1. g = f
    <3>1. w[f] \in S /\ \A j \in i .. f - 1 : w[j] \notin S
      BY <1>5, <1>7
    <3> QED BY <1>3, <1>5, <1>7, <3>1
  <2>2. x = f /\ y = f
    BY <1>4, <1>5, <1>7, <2>1
  <2>3. x # Failed
    BY <1>5, <1>7, <2>2 DEF Failed
  <2> QED BY <1>1, <1>7, <2>2, <2>3 DEF AlikeOn
<1> QED BY <1>2, <1>6, <1>7

\* EXPECT_CHAR.
LEMMA ExpectSame ==
  ASSUME NEW b, NEW w, NEW i, NEW c, At(b, w, i), NEW x, NEW y, x = EXPECT_CHAR(b, i, c), y = EXPECT_CHAR(w, i, c)
  PROVE  Alike(b, i + 1, x, y)
<1>0. /\ Len(b) <= Len(w) /\ \A j \in 1 .. Len(b) : b[j] = w[j]
      /\ i \in 1 .. Len(b) + 1 /\ Len(b) \in Nat /\ Len(w) \in Nat
  BY DEF At, Prefix
<1>1. PICK m, n : m = Len(b) /\ n = Len(w)
  OBVIOUS
<1>2. m \in Nat /\ n \in Nat /\ m <= n /\ i \in 1 .. m + 1 /\ \A j \in 1 .. m : b[j] = w[j]
  BY <1>0, <1>1
<1>3. x = (IF i > m THEN Partial ELSE IF b[i] # c THEN Failed ELSE i + 1)
  BY <1>1 DEF EXPECT_CHAR, AtEnd
<1>4. y = (IF i > n THEN Partial ELSE IF w[i] # c THEN Failed ELSE i + 1)
  BY <1>1 DEF EXPECT_CHAR, AtEnd
<1>5. \/ x = Partial /\ (y < 0 \/ y > m + 1)
      \/ x = y /\ (x = Failed \/ x \in i + 1 .. m + 1)
  BY <1>2, <1>3, <1>4 DEF Partial, Failed
<1> QED BY <1>1, <1>5 DEF Alike

\* A line end.
LEMMA EndOfLineSame ==
  ASSUME NEW b, NEW w, NEW i, On(b, w, i), NEW x, NEW y, x = EndOfLine(b, i), y = EndOfLine(w, i)
  PROVE  Alike(b, i + 1, x, y)
<1>0. /\ Prefix(b, w) /\ b[i] = w[i] /\ i \in 1 .. Len(b) /\ Len(b) \in Nat
  BY DEF On, Prefix
<1>1. PICK m : m = Len(b)
  OBVIOUS
<1>2. m \in Nat /\ i \in 1 .. m
  BY <1>0, <1>1
<1>3. CASE b[i] = CR
  <2>1. x = EXPECT_CHAR(b, i + 1, LF) /\ y = EXPECT_CHAR(w, i + 1, LF)
    BY <1>0, <1>3 DEF EndOfLine, CR, LF
  <2>2. At(b, w, i + 1)
    BY <1>0, <1>1, <1>2 DEF At
  <2>3. Alike(b, (i + 1) + 1, x, y)
    BY <2>1, <2>2, ExpectSame
  <2>4. \/ x = Partial /\ (y < 0 \/ y > m + 1)
        \/ x = y /\ (x = Failed \/ x \in (i + 1) + 1 .. m + 1)
    BY <1>1, <2>3 DEF Alike
  <2>5. \/ x = Partial /\ (y < 0 \/ y > m + 1)
        \/ x = y /\ (x = Failed \/ x \in i + 1 .. m + 1)
    BY <1>2, <2>4
  <2> QED BY <1>1, <2>5 DEF Alike
<1>4. CASE b[i] # CR
  <2>1. x = y /\ (x = Failed \/ x = i + 1)
    BY <1>0, <1>4 DEF EndOfLine, CR, LF
  <2>2. i + 1 \in i + 1 .. m + 1
    BY <1>2
  <2> QED BY <1>1, <2>1, <2>2 DEF Alike
<1> QED BY <1>3, <1>4

\* A token or a path.
LEMMA ScanToSame ==
  ASSUME NEW b, NEW w, NEW i, NEW stop, NEW bad, At(b, w, i), NEW x, NEW y,
         x = ScanTo(b, i, stop, bad), y = ScanTo(w, i, stop, bad)
  PROVE  AlikeOn(b, i, {stop}, x, y)
<1>1. PICK j, k, S : j = Search(b, i, S) /\ k = Search(w, i, S) /\ S = {stop} \cup bad
  OBVIOUS
<1>2. AlikeOn(b, i, S, j, k) /\ j # Failed
  BY <1>1, SearchSame
<1>3. x = (IF j < 0 \/ b[j] = stop THEN j ELSE Failed) /\ y = (IF k < 0 \/ w[k] = stop THEN k ELSE Failed)
  BY <1>1 DEF ScanTo
<1>4. CASE j = Partial /\ (k < 0 \/ k > Len(b))
  BY <1>3, <1>4 DEF AlikeOn, Partial, Failed
<1>5. CASE j = k /\ j \in i .. Len(b)
  <2>1. j \in 1 .. Len(b) /\ ~ (j < 0) /\ w[j] = b[j]
    BY <1>5 DEF At, Prefix
  <2> QED BY <1>3, <1>5, <2>1 DEF AlikeOn
<1> QED BY <1>2, <1>4, <1>5 DEF AlikeOn

\* A line: where its text ends and the next line begins.
AlikeLine(b, i, x, y) ==
  /\ Alike(b, i + 1, x.buf, y.buf)
  /\ x.buf >= 0 => x.end = y.end /\ x.end \in i .. Len(b) /\ x.buf > x.end
  /\ x.buf >= 0 => \A j \in i .. x.end - 1 : b[j] \notin Controls \ {HT}
  /\ x.buf >= 0 => b[x.end] \in {CR, LF}

\* The rest of a line.
LEMMA LineSame ==
  ASSUME NEW b, NEW w, NEW i, At(b, w, i), NEW x, NEW y, x = get_token_to_eol(b, i), y = get_token_to_eol(w, i)
  PROVE  AlikeLine(b, i, x, y)
<1>0. Prefix(b, w) /\ i \in 1 .. Len(b) + 1 /\ Len(b) \in Nat
  BY DEF At, Prefix
<1>1. PICK j, k, S : j = Search(b, i, S) /\ k = Search(w, i, S) /\ S = Controls \ {HT}
  OBVIOUS
<1>2. AlikeOn(b, i, S, j, k) /\ j # Failed /\ (j # Partial => \A l \in i .. j - 1 : b[l] \notin S)
  BY <1>1, SearchSame
<1>3. /\ x.buf = (IF j < 0 THEN j ELSE EndOfLine(b, j)) /\ x.end = j
      /\ y.buf = (IF k < 0 THEN k ELSE EndOfLine(w, k)) /\ y.end = k
  BY <1>1 DEF get_token_to_eol, Then
<1>4. CASE j = Partial /\ (k < 0 \/ k > Len(b))
  <2>1. x.buf = Partial /\ ~ (x.buf >= 0)
    BY <1>3, <1>4 DEF Partial
  <2>2. y.buf < 0 \/ y.buf > Len(b) + 1
    <3>1. CASE k < 0
      BY <1>3, <3>1
    <3>2. CASE ~ (k < 0) /\ k > Len(b)
      <4>1. k \in i .. Len(w)
        <5>1. AlikeOn(w, i, S, k, k)
          BY <1>0, <1>1, AtItself, SearchSame
        <5> QED BY <3>2, <5>1 DEF AlikeOn, Partial, Failed
      <4>2. On(w, w, k) /\ k \in Nat /\ Len(w) \in Nat
        BY <1>0, <4>1, AtItself
      <4>3. Alike(w, k + 1, y.buf, y.buf)
        BY <1>3, <3>2, <4>2, EndOfLineSame
      <4>4. PICK e : e = y.buf
        OBVIOUS
      <4>5. e < 0 \/ e \in k + 1 .. Len(w) + 1
        BY <4>3, <4>4 DEF Alike, Partial, Failed
      <4>6. e < 0 \/ e > Len(b) + 1
        BY <1>0, <3>2, <4>2, <4>5
      <4> QED BY <4>4, <4>6
    <3> QED BY <1>4, <3>1, <3>2
  <2> QED BY <2>1, <2>2 DEF AlikeLine, Alike
<1>5. CASE j = k /\ j \in i .. Len(b)
  <2>1. On(b, w, j) /\ ~ (j < 0)
    BY <1>0, <1>5 DEF On
  <2>2. Alike(b, j + 1, EndOfLine(b, j), EndOfLine(w, j))
    BY <2>1, EndOfLineSame
  <2>3. PICK e, f : e = EndOfLine(b, j) /\ f = EndOfLine(w, j)
    OBVIOUS
  <2>4. x.buf = e /\ y.buf = f /\ x.end = j /\ y.end = j
    BY <1>3, <1>5, <2>1, <2>3
  <2>5. \/ e = Partial /\ (f < 0 \/ f > Len(b) + 1)
        \/ e = f /\ (e = Failed \/ e \in j + 1 .. Len(b) + 1)
    BY <2>2, <2>3 DEF Alike
  <2>6. \/ e = Partial /\ (f < 0 \/ f > Len(b) + 1)
        \/ e = f /\ (e = Failed \/ (e \in i + 1 .. Len(b) + 1 /\ e > j))
    BY <1>0, <1>5, <2>5
  <2>7. e >= 0 => b[j] \in {CR, LF}
    BY <2>3 DEF EndOfLine, Failed
  <2>8. Alike(b, i + 1, x.buf, y.buf)
    BY <2>4, <2>6 DEF Alike
  <2>9. ASSUME x.buf >= 0 PROVE e > j
    BY <2>4, <2>6, <2>9 DEF Partial, Failed
  <2>10. \A l \in i .. j - 1 : b[l] \notin Controls \ {HT}
    <3>1. j # Partial
      BY <2>1 DEF Partial
    <3>2. \A l \in i .. j - 1 : b[l] \notin S
      BY <1>2, <3>1
    <3> QED BY <1>1, <3>2, Zenon
  <2>11. x.buf >= 0 => x.end = y.end /\ x.end \in i .. Len(b) /\ x.buf > x.end
    BY <1>5, <2>4, <2>9
  <2>12. x.buf >= 0 => \A l \in i .. x.end - 1 : b[l] \notin Controls \ {HT}
    BY <2>4, <2>10
  <2>13. x.buf >= 0 => b[x.end] \in {CR, LF}
    BY <2>4, <2>7
  <2> QED BY <2>8, <2>11, <2>12, <2>13, Zenon DEF AlikeLine
<1> QED BY <1>2, <1>4, <1>5 DEF AlikeOn

\* What the beginning contains.
LEMMA SubSame ==
  ASSUME NEW b, NEW w, Prefix(b, w), NEW lo, NEW hi, lo \in Nat \ {0} /\ hi \in Int /\ hi <= Len(b)
  PROVE  SubSeq(b, lo, hi) = SubSeq(w, lo, hi) /\ SubSeq(b, lo, hi) \in Seq(Nat)
<1>1. b \in Seq(Nat) /\ w \in Seq(Nat) /\ \A i \in 1 .. Len(b) : b[i] = w[i]
  BY DEF Prefix
<1>2. lo \in Int /\ \A i \in lo .. hi : i \in 1 .. Len(b) /\ b[i] \in Nat /\ w[i] \in Nat /\ b[i] = w[i]
  BY <1>1
<1>3. PICK s, t : s = SubSeq(b, lo, hi) /\ t = SubSeq(w, lo, hi)
  OBVIOUS
<1>4. s \in Seq(Nat) /\ Len(s) = (IF lo <= hi THEN hi - lo + 1 ELSE 0) /\ \A i \in 1 .. hi - lo + 1 : s[i] = b[lo + i - 1]
  BY <1>2, <1>3, SubSeqProperties
<1>5. t \in Seq(Nat) /\ Len(t) = (IF lo <= hi THEN hi - lo + 1 ELSE 0) /\ \A i \in 1 .. hi - lo + 1 : t[i] = w[lo + i - 1]
  BY <1>2, <1>3, SubSeqProperties
<1>6. \A i \in 1 .. Len(s) : s[i] = t[i]
  <2> TAKE i \in 1 .. Len(s)
  <2>1. i \in 1 .. hi - lo + 1 /\ lo + i - 1 \in lo .. hi
    BY <1>2, <1>4
  <2> QED BY <1>2, <1>4, <1>5, <2>1
<1> HIDE DEF Prefix
<1>7. Len(s) = Len(t)
  BY <1>4, <1>5
<1>8. s = t
  BY <1>4, <1>5, <1>6, <1>7, SeqEqual
<1> QED BY <1>3, <1>4, <1>8

\* The version, for which nine bytes must have come.
LEMMA VersionSame ==
  ASSUME NEW b, NEW w, NEW i, At(b, w, i), NEW x, NEW y, x = parse_http_version(b, i), y = parse_http_version(w, i)
  PROVE  AlikeOn(b, i + 1, Nat, x, y)
<1>0. /\ Prefix(b, w) /\ b \in Seq(Nat) /\ \A j \in 1 .. Len(b) : b[j] = w[j]
      /\ i \in 1 .. Len(b) + 1 /\ Len(b) \in Nat /\ Len(w) \in Nat /\ Len(b) <= Len(w)
  BY DEF At, Prefix
<1>1. CASE Len(b) - i + 1 < 9
  <2>1. x = Partial
    BY <1>1 DEF parse_http_version
  <2>2. y = Partial \/ y = Failed \/ y = i + 8
    BY DEF parse_http_version
  <2>3. y < 0 \/ y > Len(b)
    BY <1>0, <1>1, <2>2 DEF Partial, Failed
  <2> QED BY <2>1, <2>3 DEF AlikeOn
<1>2. CASE ~ (Len(b) - i + 1 < 9)
  <2>1. /\ ~ (Len(w) - i + 1 < 9) /\ i + 6 <= Len(b) /\ i + 7 \in 1 .. Len(b) /\ i + 8 \in i + 1 .. Len(b) /\ i \in Nat \ {0}
        /\ i + 6 \in Int /\ i + 8 \in 1 .. Len(b)
    BY <1>0, <1>2
  <2>2. SubSeq(b, i, i + 6) = SubSeq(w, i, i + 6) /\ SubSeq(b, i, i + 6) \in Seq(Nat)
    <3>1. i \in Nat \ {0} /\ i + 6 \in Int /\ i + 6 <= Len(b)
      BY <2>1
    <3> QED BY <1>0, <3>1, SubSame, Zenon
  <2>3. b[i + 7] = w[i + 7] /\ b[i + 8] \in Nat
    <3>1. i + 7 \in 1 .. Len(b) /\ i + 8 \in 1 .. Len(b)
      BY <2>1
    <3>2. b[i + 7] = w[i + 7]
      BY <1>0, <3>1
    <3>3. b[i + 8] \in Nat
      BY <1>0, <3>1
    <3> QED BY <3>2, <3>3
  <2>4. x = y
    BY <1>2, <2>1, <2>2, <2>3 DEF parse_http_version
  <2>5. x = Failed \/ x = i + 8
    BY <1>2 DEF parse_http_version
  <2> QED BY <2>1, <2>3, <2>4, <2>5 DEF AlikeOn
<1> QED BY <1>1, <1>2
-----------------------------------------------------------------------------
(* Blocks of headers. *)

\* It failed, or takes more than b has.
Past(b, y) == (y.buf < 0 /\ ~ y.more) \/ y.buf > Len(b) + 1

\* What a line of headers gives, from the beginning and from the whole: the
\* next line starts at lo at least, the end of the block comes one byte before.
AlikeHeader(b, lo, x, y) ==
  \/ x.buf = Partial /\ ~ x.more /\ Past(b, y)
  \/ x = y /\ x.buf = Failed /\ ~ x.more
  \/ x = y /\ x.more /\ x.buf \in lo .. Len(b) + 1
  \/ x = y /\ ~ x.more /\ x.buf \in lo - 1 .. Len(b) + 1

\* A line that gives no header.
LEMMA EarlyEnd ==
  ASSUME NEW b, NEW lo, NEW hs, NEW x, NEW y,
         \/ x = Headers(Partial, hs) /\ Past(b, y)
         \/ x = Headers(Failed, hs) /\ y = Headers(Failed, hs)
  PROVE  AlikeHeader(b, lo, x, y)
<1>1. CASE x = Headers(Partial, hs) /\ Past(b, y)
  BY <1>1 DEF AlikeHeader, Headers
<1>2. CASE x = Headers(Failed, hs) /\ y = Headers(Failed, hs)
  <2>1. x = y
    BY <1>2
  <2>2. x.buf = Failed /\ ~ x.more
    BY <1>2 DEF Headers
  <2> QED BY <2>1, <2>2, Zenon DEF AlikeHeader
<1> QED BY <1>1, <1>2

\* The value of a header that starts with its line has at least a blank.
LEMMA ValueSame ==
  ASSUME NEW b, NEW w, NEW hs, NEW name, NEW v, At(b, w, v),
         NEW x, NEW y, x = HeaderValue(b, hs, name, v), y = HeaderValue(w, hs, name, v)
  PROVE  /\ AlikeHeader(b, v + 1, x, y)
         /\ v <= Len(b) /\ b[v] \in Blanks => AlikeHeader(b, v + 2, x, y)
<1>0. Prefix(b, w) /\ v \in 1 .. Len(b) + 1 /\ Len(b) \in Nat /\ v \in Nat \ {0} /\ ~ (v < 0)
  BY DEF At, Prefix
<1>1. PICK l, k : l = get_token_to_eol(b, v) /\ k = get_token_to_eol(w, v)
  OBVIOUS
<1>2. AlikeLine(b, v, l, k)
  BY <1>1, LineSame
<1>3. x = HeaderLine(b, hs, name, v, l) /\ y = HeaderLine(w, hs, name, v, k)
  BY <1>0, <1>1 DEF HeaderValue
<1>4. CASE l.buf = Partial /\ (k.buf < 0 \/ k.buf > Len(b) + 1)
  <2>1. x = Headers(Partial, hs)
    BY <1>3, <1>4 DEF HeaderLine, Partial
  <2>2. Past(b, y)
    <3>1. CASE k.buf < 0
      BY <1>3, <3>1 DEF HeaderLine, Headers, Past
    <3>2. CASE ~ (k.buf < 0)
      BY <1>3, <1>4, <3>2 DEF HeaderLine, Past
    <3> QED BY <3>1, <3>2
  <2> QED BY <2>1, <2>2, EarlyEnd
<1>5. CASE l.buf = k.buf /\ l.buf = Failed
  <2>1. x = Headers(Failed, hs) /\ y = Headers(Failed, hs)
    BY <1>3, <1>5 DEF HeaderLine, Failed
  <2> QED BY <2>1, EarlyEnd
<1>6. CASE l.buf = k.buf /\ l.buf \in v + 1 .. Len(b) + 1
  <2>1. l.buf >= 0 /\ ~ (l.buf < 0)
    BY <1>0, <1>6
  <2>2. PICK e : e = l.end
    OBVIOUS
  <2>3. k.end = e /\ e \in v .. Len(b) /\ l.buf > e /\ b[e] \in {CR, LF}
    BY <1>2, <2>1, <2>2 DEF AlikeLine
  <2>4. SubSeq(b, v, e - 1) = SubSeq(w, v, e - 1) /\ SubSeq(b, v, e - 1) \in Seq(Nat)
    <3>1. v \in Nat \ {0} /\ e - 1 \in Int /\ e - 1 <= Len(b)
      BY <1>0, <2>3
    <3> QED BY <1>0, <3>1, SubSame, Zenon
  <2>5. PICK h : h = [name |-> name, value |-> Strip(SubSeq(b, v, e - 1), Blanks)]
    OBVIOUS
  <2>6. x = [buf |-> l.buf, more |-> TRUE, headers |-> Append(hs, h)]
    BY <1>3, <2>1, <2>2, <2>5, Zenon DEF HeaderLine
  <2>7. y = [buf |-> l.buf, more |-> TRUE, headers |-> Append(hs, h)]
    <3>1. y = [buf |-> k.buf, more |-> TRUE,
               headers |-> Append(hs, [name |-> name, value |-> Strip(SubSeq(w, v, k.end - 1), Blanks)])]
      BY <1>3, <1>6, <2>1, Zenon DEF HeaderLine
    <3>2. k.end = e /\ k.buf = l.buf
      BY <1>6, <2>3
    <3>3. h = [name |-> name, value |-> Strip(SubSeq(w, v, k.end - 1), Blanks)]
      BY <2>4, <2>5, <3>2, Zenon
    <3> QED BY <3>1, <3>2, <3>3, Zenon
  <2>8. x = y /\ x.more /\ x.buf = l.buf
    BY <2>6, <2>7
  <2>9. AlikeHeader(b, v + 1, x, y)
    BY <1>6, <2>8 DEF AlikeHeader
  <2>10. ASSUME b[v] \in Blanks PROVE l.buf \in v + 2 .. Len(b) + 1
    <3>1. e # v
      BY <2>3, <2>10 DEF Blanks, CR, LF, SP, HT
    <3> QED BY <1>0, <1>6, <2>3, <3>1
  <2>11. b[v] \in Blanks => AlikeHeader(b, v + 2, x, y)
    BY <2>8, <2>10 DEF AlikeHeader
  <2> QED BY <2>9, <2>11
<1> QED BY <1>2, <1>4, <1>5, <1>6 DEF AlikeLine, Alike

\* A value that starts beyond the beginning ends there too.
LEMMA ValuePast ==
  ASSUME NEW b, NEW w, Prefix(b, w), NEW hs, NEW name, NEW u, u < 0 \/ u \in Len(b) + 1 .. Len(w) + 1,
         NEW y, y = HeaderValue(w, hs, name, u)
  PROVE  Past(b, y)
<1>0. Len(b) \in Nat /\ Len(w) \in Nat
  BY DEF Prefix
<1>1. CASE u < 0
  BY <1>1 DEF HeaderValue, Headers, Past
<1>2. CASE ~ (u < 0) /\ u \in Len(b) + 1 .. Len(w) + 1
  <2>1. PICK k : k = get_token_to_eol(w, u)
    OBVIOUS
  <2>2. y = HeaderLine(w, hs, name, u, k)
    BY <1>2, <2>1 DEF HeaderValue
  <2>3. u \in 1 .. Len(w) + 1
    BY <1>0, <1>2
  <2>4. AlikeLine(w, u, k, k)
    BY <2>1, <2>3, AtItself, LineSame
  <2>5. PICK e : e = k.buf
    OBVIOUS
  <2>6. e < 0 \/ e \in u + 1 .. Len(w) + 1
    BY <2>4, <2>5 DEF AlikeLine, Alike, Partial, Failed
  <2>7. e < 0 \/ e > Len(b) + 1
    BY <1>0, <1>2, <2>6
  <2>8. CASE e < 0
    BY <2>2, <2>5, <2>8 DEF HeaderLine, Headers, Past
  <2>9. CASE ~ (e < 0)
    BY <2>2, <2>5, <2>7, <2>9 DEF HeaderLine, Past
  <2> QED BY <2>8, <2>9
<1> QED BY <1>1, <1>2

\* The name of a header has a byte at least, and the colon comes after it.
LEMMA NameSame ==
  ASSUME NEW b, NEW w, NEW hs, NEW i, At(b, w, i), NEW c, NEW d, AlikeOn(b, i, {COLON}, c, d),
         AlikeOn(w, i, {COLON}, d, d),
         NEW x, NEW y, x = HeaderName(b, i, hs, c), y = HeaderName(w, i, hs, d)
  PROVE  AlikeHeader(b, i + 2, x, y)
<1>0. Prefix(b, w) /\ i \in 1 .. Len(b) + 1 /\ Len(b) \in Nat /\ i \in Nat \ {0}
  BY DEF At, Prefix
<1>1. PICK name, v, m, u : name = SubSeq(b, i, c - 1) /\ v = ValueStart(b, i, c) /\ m = SubSeq(w, i, d - 1) /\ u = ValueStart(w, i, d)
  OBVIOUS
<1>2. x = HeaderValue(b, hs, name, v) /\ y = HeaderValue(w, hs, m, u)
  BY <1>1 DEF HeaderName
<1>3. ASSUME v = Partial, u < 0 \/ u \in Len(b) + 1 .. Len(w) + 1 PROVE AlikeHeader(b, i + 2, x, y)
  <2>1. x = Headers(Partial, hs)
    BY <1>2, <1>3 DEF HeaderValue, Partial
  <2>2. Past(b, y)
    BY <1>0, <1>2, <1>3, ValuePast
  <2> QED BY <2>1, <2>2, EarlyEnd
<1>4. ASSUME v = Failed, u = Failed PROVE AlikeHeader(b, i + 2, x, y)
  <2>1. x = Headers(Failed, hs) /\ y = Headers(Failed, hs)
    BY <1>2, <1>4 DEF HeaderValue, Failed
  <2> QED BY <2>1, EarlyEnd
<1>9. Len(w) \in Nat /\ Len(b) <= Len(w)
  BY <1>0, AtItself
<1>10. ASSUME NEW k, k \in 1 .. Len(w), k >= Len(b), NEW z, z = Search(w, k + 1, OtherThan(Blanks))
       PROVE  z < 0 \/ z \in Len(b) + 1 .. Len(w) + 1
  <2>1. k + 1 \in 1 .. Len(w) + 1
    BY <1>9, <1>10
  <2>2. AlikeOn(w, k + 1, OtherThan(Blanks), z, z)
    BY <1>0, <1>10, <2>1, AtItself, SearchSame
  <2>3. z < 0 \/ z \in k + 1 .. Len(w)
    BY <2>2 DEF AlikeOn, Partial, Failed
  <2> QED BY <1>0, <1>9, <1>10, <2>3
<1>5. CASE c = Partial /\ (d < 0 \/ d > Len(b))
  <2>1. v = Partial
    BY <1>0, <1>1, <1>5 DEF ValueStart, Partial
  <2>2. d < 0 \/ d \in 1 .. Len(w)
    BY <1>0, <1>5, <1>9 DEF AlikeOn, Partial, Failed
  <2>3. u < 0 \/ u \in Len(b) + 1 .. Len(w) + 1
    <3>1. CASE d = i
      BY <1>1, <3>1 DEF ValueStart, Failed
    <3>2. CASE d # i /\ d < 0
      BY <1>1, <3>2 DEF ValueStart
    <3>3. CASE d # i /\ ~ (d < 0)
      <4>1. d \in 1 .. Len(w) /\ d >= Len(b)
        BY <1>0, <1>5, <1>9, <2>2, <3>3
      <4>2. u = Search(w, d + 1, OtherThan(Blanks))
        BY <1>1, <3>3 DEF ValueStart
      <4> QED BY <1>10, <4>1, <4>2
    <3> QED BY <3>1, <3>2, <3>3
  <2> QED BY <1>3, <2>1, <2>3
<1>6. CASE c = d /\ c = Failed
  <2>1. v = Failed /\ u = Failed
    BY <1>0, <1>1, <1>6 DEF ValueStart, Failed
  <2> QED BY <1>4, <2>1
<1>7. CASE c = d /\ c = i
  <2>1. v = Failed /\ u = Failed
    BY <1>1, <1>7 DEF ValueStart
  <2> QED BY <1>4, <2>1
<1>8. CASE c = d /\ c # i /\ c \in i .. Len(b)
  <2>1. c + 1 \in i + 2 .. Len(b) + 1 /\ c + 1 \in 1 .. Len(b) + 1 /\ ~ (c < 0) /\ c - 1 \in Int /\ c - 1 <= Len(b) /\ c \in Nat
    BY <1>0, <1>8
  <2>2. v = Search(b, c + 1, OtherThan(Blanks)) /\ u = Search(w, c + 1, OtherThan(Blanks))
    BY <1>1, <1>8, <2>1 DEF ValueStart
  <2>3. At(b, w, c + 1)
    BY <1>0, <2>1 DEF At
  <2>4. AlikeOn(b, c + 1, OtherThan(Blanks), v, u) /\ v # Failed
    BY <2>2, <2>3, SearchSame
  <2>5. name = m
    <3>1. i \in Nat \ {0} /\ c - 1 \in Int /\ c - 1 <= Len(b)
      BY <1>0, <2>1
    <3>2. SubSeq(b, i, c - 1) = SubSeq(w, i, c - 1) /\ SubSeq(b, i, c - 1) \in Seq(Nat)
      BY <1>0, <3>1, SubSame, Zenon
    <3> QED BY <1>1, <1>8, <3>2
  <2>6. CASE v = u /\ v \in c + 1 .. Len(b)
    <3>1. v \in 1 .. Len(b) + 1 /\ v \in i + 2 .. Len(b) /\ v \in Nat
      BY <1>0, <2>1, <2>6
    <3>2. At(b, w, v)
      BY <1>0, <3>1 DEF At
    <3>3. y = HeaderValue(w, hs, name, v)
      BY <1>2, <2>5, <2>6
    <3>4. AlikeHeader(b, v + 1, x, y)
      BY <1>2, <3>2, <3>3, ValueSame
    <3>5. \A p : p \in v + 1 .. Len(b) + 1 => p \in i + 2 .. Len(b) + 1
      BY <1>0, <3>1
    <3>6. \A p : p \in (v + 1) - 1 .. Len(b) + 1 => p \in (i + 2) - 1 .. Len(b) + 1
      BY <1>0, <3>1
    <3> QED BY <3>4, <3>5, <3>6 DEF AlikeHeader
  <2>7. CASE v = Partial /\ (u < 0 \/ u > Len(b))
    <3>1. u < 0 \/ u \in c + 1 .. Len(w)
      <4>1. c + 1 \in 1 .. Len(b) + 1
        BY <2>1
      <4>2. AlikeOn(w, c + 1, OtherThan(Blanks), u, u)
        BY <1>0, <2>2, <4>1, AtItself, SearchSame
      <4> QED BY <4>2 DEF AlikeOn, Partial, Failed
    <3>2. u < 0 \/ u \in Len(b) + 1 .. Len(w) + 1
      BY <1>0, <1>9, <2>1, <2>7, <3>1
    <3> QED BY <1>3, <2>7, <3>2
  <2> QED BY <2>4, <2>6, <2>7 DEF AlikeOn
<1> QED BY <1>5, <1>6, <1>7, <1>8 DEF AlikeOn

\* A line that has a byte at least ...
LEMMA OneHeaderSame ==
  ASSUME NEW b, NEW w, NEW m, NEW h, On(b, w, h.buf), h.more,
         NEW x, NEW y, x = NextHeader(b, m, h), y = NextHeader(w, m, h)
  PROVE  AlikeHeader(b, h.buf + 2, x, y)
<1>1. PICK i, hs : i = h.buf /\ hs = h.headers
  OBVIOUS
<1>2. /\ At(b, w, i) /\ Prefix(b, w) /\ i \in 1 .. Len(b) + 1 /\ Len(b) \in Nat /\ Len(b) <= Len(w) /\ Len(w) \in Nat
      /\ i \in 1 .. Len(b)
  BY <1>1 DEF At, On, Prefix
<1>4. CASE i \in 1 .. Len(b)
  <2>1. ~ AtEnd(b, i) /\ ~ AtEnd(w, i) /\ w[i] = b[i] /\ On(b, w, i)
    BY <1>2, <1>4 DEF AtEnd, Prefix, On
  <2>2. CASE b[i] \in {CR, LF}
    <3>1. x = Headers(EndOfLine(b, i), hs) /\ y = Headers(EndOfLine(w, i), hs)
      BY <1>1, <2>1, <2>2 DEF NextHeader
    <3>2. PICK e, f : e = EndOfLine(b, i) /\ f = EndOfLine(w, i)
      OBVIOUS
    <3>3. Alike(b, i + 1, e, f)
      BY <2>1, <3>2, EndOfLineSame
    <3>4. CASE e = Partial /\ (f < 0 \/ f > Len(b) + 1)
      <4>1. Past(b, y)
        BY <3>1, <3>2, <3>4 DEF Headers, Past
      <4> QED BY <3>1, <3>2, <3>4, <4>1, EarlyEnd
    <3>5. CASE e = f /\ e = Failed
      BY <3>1, <3>2, <3>5, EarlyEnd
    <3>6. CASE e = f /\ e \in i + 1 .. Len(b) + 1
      <4>1. x = y /\ x.buf = e /\ ~ x.more
        BY <3>1, <3>2, <3>6 DEF Headers
      <4>2. e \in (i + 2) - 1 .. Len(b) + 1
        BY <1>2, <3>6
      <4> QED BY <1>1, <4>1, <4>2 DEF AlikeHeader
    <3> QED BY <3>3, <3>4, <3>5, <3>6 DEF Alike
  <2>3. CASE b[i] \notin {CR, LF} /\ Len(hs) = m
    <3>1. x = Headers(Failed, hs) /\ y = Headers(Failed, hs)
      BY <1>1, <2>1, <2>3 DEF NextHeader
    <3> QED BY <3>1, EarlyEnd
  <2>4. CASE b[i] \notin {CR, LF} /\ Len(hs) # m /\ hs # <<>> /\ b[i] \in Blanks
    <3>1. x = HeaderValue(b, hs, <<>>, i) /\ y = HeaderValue(w, hs, <<>>, i)
      BY <1>1, <2>1, <2>4 DEF NextHeader
    <3>2. AlikeHeader(b, i + 1, x, y) /\ (i <= Len(b) /\ b[i] \in Blanks => AlikeHeader(b, i + 2, x, y))
      BY <1>2, <3>1, ValueSame
    <3> QED BY <1>1, <1>2, <1>4, <2>4, <3>2
  <2>5. CASE b[i] \notin {CR, LF} /\ Len(hs) # m /\ ~ (hs # <<>> /\ b[i] \in Blanks)
    <3>1. PICK c, d : c = parse_token(b, i, COLON) /\ d = parse_token(w, i, COLON)
      OBVIOUS
    <3>2. AlikeOn(b, i, {COLON}, c, d)
      BY <1>2, <3>1, ScanToSame DEF parse_token
    <3>3. x = HeaderName(b, i, hs, c) /\ y = HeaderName(w, i, hs, d)
      BY <1>1, <2>1, <2>5, <3>1 DEF NextHeader
    <3>4. AlikeOn(w, i, {COLON}, d, d)
      BY <1>2, <3>1, AtItself, ScanToSame DEF parse_token
    <3> QED BY <1>1, <1>2, <3>2, <3>3, <3>4, NameSame
  <2> QED BY <2>2, <2>3, <2>4, <2>5
<1> QED BY <1>2, <1>4

\* ... and any line.
LEMMA NextHeaderSame ==
  ASSUME NEW b, NEW w, NEW m, NEW h, At(b, w, h.buf), h.more,
         NEW x, NEW y, x = NextHeader(b, m, h), y = NextHeader(w, m, h)
  PROVE  AlikeHeader(b, h.buf + 2, x, y)
<1>0. Prefix(b, w) /\ h.buf \in 1 .. Len(b) + 1 /\ Len(b) \in Nat /\ Len(b) <= Len(w) /\ Len(w) \in Nat
  BY DEF At, Prefix
<1>1. CASE h.buf \in 1 .. Len(b)
  BY <1>0, <1>1, OneHeaderSame DEF On
<1>2. CASE h.buf = Len(b) + 1
  <2>1. x = Headers(Partial, h.headers)
    BY <1>0, <1>2 DEF NextHeader, AtEnd
  <2>2. Past(b, y)
    <3>1. CASE h.buf = Len(w) + 1
      <4>1. y = Headers(Partial, h.headers)
        BY <1>0, <3>1 DEF NextHeader, AtEnd
      <4> QED BY <4>1 DEF Headers, Past, Partial
    <3>2. CASE h.buf \in 1 .. Len(w)
      <4>1. On(w, w, h.buf)
        BY <1>0, <3>2, AtItself
      <4>2. AlikeHeader(w, h.buf + 2, y, y)
        BY <4>1, OneHeaderSame
      <4>3. PICK e : e = y.buf
        OBVIOUS
      <4>4. \/ e \in {Partial, Failed} /\ ~ y.more
            \/ e \in h.buf + 2 .. Len(w) + 1
            \/ e \in (h.buf + 2) - 1 .. Len(w) + 1
        BY <4>2, <4>3 DEF AlikeHeader
      <4>5. (e < 0 /\ ~ y.more) \/ e > Len(b) + 1
        BY <1>0, <1>2, <4>4 DEF Partial, Failed
      <4> QED BY <4>3, <4>5 DEF Past
    <3> QED BY <1>0, <1>2, <3>1, <3>2
  <2> QED BY <2>1, <2>2, EarlyEnd
<1> QED BY <1>0, <1>1, <1>2

FirstLine(i) == [Headers(i, <<>>) EXCEPT !.more = TRUE]

IsHeaderRun(h, b, i, m, k) ==
  h = [n \in 0 .. k |-> IF n = 0 THEN FirstLine(i) ELSE NextHeader(b, m, h[n - 1])]

\* The loop of parse_headers can go on for any number of lines.
LEMMA SomeHeaderRun ==
  ASSUME NEW b, NEW i, NEW m PROVE \A k \in Nat : \E h : IsHeaderRun(h, b, i, m, k)
<1> DEFINE W == {k \in Nat : ~ \E h : IsHeaderRun(h, b, i, m, k)}
<1> SUFFICES ASSUME W # {} PROVE FALSE
  OBVIOUS
<1>1. PICK k \in W : \A j \in W : k <= j
  <2>1. W \in SUBSET Nat
    OBVIOUS
  <2> HIDE DEF W
  <2> QED BY <2>1, SmallestNumber
<1>2. CASE k = 0
  <2> DEFINE g == [n \in 0 .. 0 |-> FirstLine(i)]
  <2>1. \A n \in 0 .. 0 : FirstLine(i) = (IF n = 0 THEN FirstLine(i) ELSE NextHeader(b, m, g[n - 1]))
    OBVIOUS
  <2>2. IsHeaderRun(g, b, i, m, 0)
    BY <2>1 DEF IsHeaderRun
  <2> QED BY <1>1, <1>2, <2>2
<1>3. CASE k # 0
  <2>1. k - 1 \in Nat /\ k - 1 \notin W
    BY <1>1, <1>3
  <2>2. PICK h : IsHeaderRun(h, b, i, m, k - 1)
    BY <2>1
  <2> DEFINE g == [n \in 0 .. k |-> IF n = 0 THEN FirstLine(i) ELSE NextHeader(b, m, h[n - 1])]
  <2>3. \A n \in 0 .. k - 1 : g[n] = h[n]
    BY <1>1, <2>1, <2>2 DEF IsHeaderRun
  <2>4. \A n \in 0 .. k : (IF n = 0 THEN FirstLine(i) ELSE NextHeader(b, m, h[n - 1]))
                          = (IF n = 0 THEN FirstLine(i) ELSE NextHeader(b, m, g[n - 1]))
    <3> HIDE DEF g
    <3> TAKE n \in 0 .. k
    <3>1. n # 0 => n - 1 \in 0 .. k - 1
      BY <1>1
    <3>2. n # 0 => g[n - 1] = h[n - 1]
      BY <2>3, <3>1
    <3> QED BY <3>2
  <2>5. IsHeaderRun(g, b, i, m, k)
    BY <2>4, Zenon DEF IsHeaderRun
  <2> QED BY <1>1, <2>5
<1> QED BY <1>2, <1>3

RunsThrough(h, b, i, m, k, x) ==
  h[0] = FirstLine(i) /\ h[k] = x /\ \A n \in 1 .. k : h[n] = NextHeader(b, m, h[n - 1])

\* parse_headers takes as many lines as it says.
LEMMA HeaderRunIs ==
  ASSUME NEW b, NEW i, NEW m, NEW k, k \in Nat, k = Len(b) \div 2 + 1
  PROVE  \E h : RunsThrough(h, b, i, m, k, parse_headers(b, i, m))
<1>1. PICK h : h = CHOOSE g : IsHeaderRun(g, b, i, m, k)
  OBVIOUS
<1>2. parse_headers(b, i, m) = h[k]
  BY <1>1, Zenon DEF IsHeaderRun, parse_headers, FirstLine
<1>3. IsHeaderRun(h, b, i, m, k)
  BY <1>1, SomeHeaderRun, Zenon
<1>4. h[0] = FirstLine(i) /\ \A n \in 1 .. k : h[n] = NextHeader(b, m, h[n - 1])
  <2> PICK l \in Nat : l = k
    OBVIOUS
  <2>1. IsHeaderRun(h, b, i, m, l)
    BY <1>3
  <2>2. 0 \in 0 .. l /\ \A n \in 1 .. l : n \in 0 .. l /\ n # 0
    OBVIOUS
  <2>3. \A n \in 0 .. l : h[n] = IF n = 0 THEN FirstLine(i) ELSE NextHeader(b, m, h[n - 1])
    BY <2>1, Zenon DEF IsHeaderRun
  <2> QED BY <2>2, <2>3, Zenon
<1> QED BY <1>2, <1>4 DEF RunsThrough

\* Once past b the lines of w stay there.
WellPast(b, y) == Past(b, y) /\ y.buf \in Int

\* A line that starts beyond the beginning ends there.
LEMMA PastStays ==
  ASSUME NEW b, NEW w, Prefix(b, w), NEW m, NEW q, WellPast(b, q), NEW y, y = NextHeader(w, m, q)
  PROVE  WellPast(b, y)
<1>0. Len(b) \in Nat /\ Len(w) \in Nat
  BY DEF Prefix
<1>1. CASE ~ q.more
  BY <1>1 DEF NextHeader
<1>2. CASE q.more
  <2>1. q.buf \in Int /\ q.buf > Len(b) + 1
    BY <1>2 DEF WellPast, Past
  <2>2. CASE q.buf > Len(w)
    <3>1. y = Headers(Partial, q.headers)
      BY <1>2, <2>2 DEF NextHeader, AtEnd
    <3> QED BY <3>1 DEF Headers, WellPast, Past, Partial
  <2>3. CASE q.buf \in 1 .. Len(w)
    <3>1. On(w, w, q.buf)
      BY <2>3, AtItself
    <3>2. AlikeHeader(w, q.buf + 2, y, y)
      BY <1>2, <3>1, OneHeaderSame
    <3>3. PICK e : e = y.buf
      OBVIOUS
    <3>4. \/ e \in {Partial, Failed} /\ ~ y.more
          \/ e \in q.buf + 2 .. Len(w) + 1
          \/ e \in (q.buf + 2) - 1 .. Len(w) + 1
      BY <3>2, <3>3 DEF AlikeHeader
    <3>5. ((e < 0 /\ ~ y.more) \/ e > Len(b) + 1) /\ e \in Int
      BY <1>0, <2>1, <3>4 DEF Partial, Failed
    <3> QED BY <3>3, <3>5 DEF WellPast, Past
  <2> QED BY <1>0, <2>1, <2>2, <2>3
<1> QED BY <1>1, <1>2

\* After n lines from i on.
HeadersTogether(b, i, n, x, y) ==
  \/ x.buf = Partial /\ ~ x.more /\ WellPast(b, y)
  \/ x = y /\ ~ x.more /\ (x.buf = Failed \/ x.buf \in i + 1 .. Len(b) + 1)
  \/ x = y /\ x.more /\ x.buf \in i + 2 * n .. Len(b) + 1

\* One more line of both.
LEMMA LineTogether ==
  ASSUME NEW b, NEW w, NEW i, NEW m, NEW n, n \in Nat, At(b, w, i), NEW p, NEW q, HeadersTogether(b, i, n, p, q),
         NEW x, NEW y, x = NextHeader(b, m, p), y = NextHeader(w, m, q)
  PROVE  HeadersTogether(b, i, n + 1, x, y)
<1>0. Prefix(b, w) /\ i \in 1 .. Len(b) + 1 /\ Len(b) \in Nat
  BY DEF At, Prefix
<1>1. CASE p.buf = Partial /\ ~ p.more /\ WellPast(b, q)
  <2>1. x = p
    BY <1>1 DEF NextHeader
  <2>2. WellPast(b, y)
    BY <1>0, <1>1, PastStays
  <2> QED BY <1>1, <2>1, <2>2 DEF HeadersTogether
<1>2. CASE p = q /\ ~ p.more /\ (p.buf = Failed \/ p.buf \in i + 1 .. Len(b) + 1)
  <2>1. x = p /\ y = p
    BY <1>2 DEF NextHeader
  <2> QED BY <1>2, <2>1 DEF HeadersTogether
<1>3. CASE p = q /\ p.more /\ p.buf \in i + 2 * n .. Len(b) + 1
  <2>1. p.buf \in 1 .. Len(b) + 1 /\ p.buf >= i + 2 * n
    BY <1>0, <1>3
  <2>2. At(b, w, p.buf)
    BY <1>0, <2>1 DEF At
  <2>3. AlikeHeader(b, p.buf + 2, x, y)
    BY <1>3, <2>2, NextHeaderSame
  <2>4. \A k : k \in p.buf + 2 .. Len(b) + 1 => k \in i + 2 * (n + 1) .. Len(b) + 1
    BY <1>0, <2>1
  <2>5. \A k : k \in (p.buf + 2) - 1 .. Len(b) + 1 => k \in i + 1 .. Len(b) + 1
    BY <1>0, <2>1
  <2>6. y.buf \in Int
    <3>1. At(w, w, p.buf)
      BY <1>0, <2>1, AtItself
    <3>2. AlikeHeader(w, p.buf + 2, y, y)
      BY <1>3, <3>1, NextHeaderSame
    <3> QED BY <3>2 DEF AlikeHeader, Partial, Failed
  <2> QED BY <2>3, <2>4, <2>5, <2>6 DEF AlikeHeader, HeadersTogether, WellPast
<1> QED BY <1>1, <1>2, <1>3 DEF HeadersTogether

AlikeHeaders(b, lo, x, y) ==
  \/ x.buf = Partial /\ (y.buf < 0 \/ y.buf > Len(b) + 1)
  \/ x = y /\ (x.buf = Failed \/ x.buf \in lo .. Len(b) + 1)

\* A whole block: the loop ends when the text does.
LEMMA HeadersSame ==
  ASSUME NEW b, NEW w, NEW i, NEW m, At(b, w, i),
         NEW x, NEW y, x = parse_headers(b, i, m), y = parse_headers(w, i, m)
  PROVE  AlikeHeaders(b, i + 1, x, y)
<1>0. Prefix(b, w) /\ i \in 1 .. Len(b) + 1 /\ Len(b) \in Nat /\ Len(w) \in Nat /\ Len(b) <= Len(w)
  BY DEF At, Prefix
<1>1. PICK k, l : k = Len(b) \div 2 + 1 /\ l = Len(w) \div 2 + 1
  OBVIOUS
<1>2. k \in Nat /\ l \in Nat /\ k <= l /\ 2 * k >= Len(b) + 1
  <2>1. PICK p, q : p = Len(b) /\ q = Len(w)
    OBVIOUS
  <2>2. p \in Nat /\ q \in Nat /\ p <= q
    BY <1>0, <2>1
  <2>3. p \div 2 \in Nat /\ q \div 2 \in Nat /\ p \div 2 <= q \div 2 /\ p <= 2 * (p \div 2) + 1
    BY <2>2
  <2> QED BY <1>1, <2>1, <2>2, <2>3
<1>3. PICK g : g[0] = FirstLine(i) /\ g[k] = x /\ \A n \in 1 .. k : g[n] = NextHeader(b, m, g[n - 1])
  <2>1. \E g : RunsThrough(g, b, i, m, k, x)
    BY <1>1, <1>2, HeaderRunIs
  <2> QED BY <2>1, Zenon DEF RunsThrough
<1>4. PICK h : h[0] = FirstLine(i) /\ h[l] = y /\ \A n \in 1 .. l : h[n] = NextHeader(w, m, h[n - 1])
  <2>1. \E h : RunsThrough(h, w, i, m, l, y)
    BY <1>1, <1>2, HeaderRunIs
  <2> QED BY <2>1, Zenon DEF RunsThrough
<1> DEFINE W == {n \in 0 .. k : ~ HeadersTogether(b, i, n, g[n], h[n])}
<1>5. ASSUME W # {} PROVE FALSE
  <2>1. PICK n \in W : \A j \in W : n <= j
    <3>1. W \in SUBSET Nat
      OBVIOUS
    <3> HIDE DEF W
    <3> QED BY <1>5, <3>1, SmallestNumber
  <2>2. n \in 0 .. k /\ ~ HeadersTogether(b, i, n, g[n], h[n])
    BY <2>1
  <2>3. n # 0
    <3>1. PICK z : z = FirstLine(i)
      OBVIOUS
    <3>2. z.buf = i /\ z.more
      BY <3>1 DEF Headers, FirstLine
    <3>3. i \in i + 2 * 0 .. Len(b) + 1
      BY <1>0
    <3>4. HeadersTogether(b, i, 0, z, z)
      BY <3>2, <3>3 DEF HeadersTogether
    <3> QED BY <1>3, <1>4, <2>2, <3>1, <3>4
  <2>4. n - 1 \in 0 .. k /\ n - 1 < n /\ n \in 1 .. k /\ n \in 1 .. l /\ n - 1 \in Nat /\ (n - 1) + 1 = n
    BY <1>2, <2>2, <2>3
  <2>5. HeadersTogether(b, i, n - 1, g[n - 1], h[n - 1])
    <3>1. n - 1 \notin W
      <4> HIDE DEF W
      <4> QED BY <2>1, <2>2, <2>4
    <3> QED BY <2>4, <3>1
  <2>6. g[n] = NextHeader(b, m, g[n - 1]) /\ h[n] = NextHeader(w, m, h[n - 1])
    BY <1>3, <1>4, <2>4
  <2>7. HeadersTogether(b, i, (n - 1) + 1, g[n], h[n])
    BY <2>4, <2>5, <2>6, LineTogether
  <2> QED BY <2>2, <2>4, <2>7
<1>6. HeadersTogether(b, i, k, g[k], h[k])
  <2>1. k \in 0 .. k /\ k \notin W
    <3>1. k \in 0 .. k
      BY <1>2
    <3> HIDE DEF W
    <3> QED BY <1>5, <3>1
  <2> QED BY <2>1
<1>7. ~ (x.more /\ x.buf \in i + 2 * k .. Len(b) + 1)
  <2>1. PICK p, z : p = Len(b) /\ z = x.buf
    OBVIOUS
  <2>2. p \in Nat /\ 2 * k >= p + 1 /\ i \in 1 .. p + 1 /\ k \in Nat
    BY <1>0, <1>2, <2>1
  <2>3. z \notin i + 2 * k .. p + 1
    BY <2>2
  <2> QED BY <2>1, <2>3
<1>8. CASE x = h[k] /\ ~ x.more
  <2>1. \A j \in k .. l - 1 : h[j] = h[k] => h[j + 1] = h[k]
    <3> TAKE j \in k .. l - 1
    <3>1. j + 1 \in 1 .. l /\ (j + 1) - 1 = j
      BY <1>2
    <3>2. h[j + 1] = NextHeader(w, m, h[(j + 1) - 1])
      BY <1>4, <3>1
    <3> QED BY <1>8, <3>1, <3>2 DEF NextHeader
  <2>2. \A j \in k .. l : h[j] = h[k]
    BY <1>2, <2>1, Stays
  <2>3. y = x
    BY <1>2, <1>4, <1>8, <2>2
  <2> QED BY <1>3, <1>6, <1>7, <2>3 DEF HeadersTogether, AlikeHeaders, Partial
<1>9. CASE x.buf = Partial /\ WellPast(b, h[k])
  <2> DEFINE V == {n \in k .. l : ~ WellPast(b, h[n])}
  <2>1. ASSUME V # {} PROVE FALSE
    <3>1. PICK n \in V : \A j \in V : n <= j
      <4>1. \A j \in V : j \in k .. l
        OBVIOUS
      <4>2. \A j \in k .. l : j \in Nat
        BY <1>2
      <4>3. V \in SUBSET Nat
        BY <4>1, <4>2
      <4> HIDE DEF V
      <4> QED BY <2>1, <4>3, SmallestNumber
    <3>2. n \in k .. l /\ ~ WellPast(b, h[n])
      BY <3>1
    <3>3. n # k
      BY <1>9, <3>2
    <3>4. n - 1 \in k .. l /\ n - 1 < n /\ n \in 1 .. l
      BY <1>2, <3>2, <3>3
    <3>5. WellPast(b, h[n - 1])
      <4>1. n - 1 \notin V
        <5> HIDE DEF V
        <5> QED BY <3>1, <3>2, <3>4
      <4> QED BY <3>4, <4>1
    <3>6. h[n] = NextHeader(w, m, h[n - 1])
      BY <1>4, <3>4
    <3>7. WellPast(b, h[n])
      BY <1>0, <3>5, <3>6, PastStays
    <3> QED BY <3>2, <3>7
  <2>2. WellPast(b, h[l])
    <3>1. l \in k .. l
      BY <1>2
    <3>2. l \notin V
      <4> HIDE DEF V
      <4> QED BY <2>1
    <3> QED BY <3>1, <3>2
  <2> QED BY <1>4, <1>9, <2>2 DEF AlikeHeaders, WellPast, Past
<1> QED BY <1>3, <1>6, <1>7, <1>8, <1>9 DEF HeadersTogether
-----------------------------------------------------------------------------
(* Requests and responses. *)

\* What a parse of the beginning and one of the whole return.
AlikeParse(b, x, y) ==
  \/ x.ret = Partial /\ (y.ret < 0 \/ y.ret > Len(b))
  \/ x = y /\ (x.ret = Failed \/ x.ret \in 1 .. Len(b))

\* A parse that ends before the headers.
LEMMA EarlyResult ==
  ASSUME NEW b, NEW x, NEW y,
         \/ x = NotParsed(Partial) /\ (y.ret < 0 \/ y.ret > Len(b))
         \/ (x = NotParsed(Failed) /\ y = NotParsed(Failed))
  PROVE  AlikeParse(b, x, y)
<1>1. CASE x = NotParsed(Partial) /\ (y.ret < 0 \/ y.ret > Len(b))
  BY <1>1 DEF AlikeParse, NotParsed, Parsed
<1>2. CASE x = NotParsed(Failed) /\ y = NotParsed(Failed)
  <2>1. x = y
    BY <1>2
  <2>2. x.ret = Failed
    BY <1>2 DEF NotParsed, Parsed
  <2> QED BY <2>1, <2>2, Zenon DEF AlikeParse
<1> QED BY <1>1, <1>2

\* The headers after a first line that is the same.
LEMMA WithHeadersSame ==
  ASSUME NEW b, NEW w, Prefix(b, w), NEW m, NEW i, NEW j, Alike(b, 1, i, j), Alike(w, 1, j, j),
         NEW f, NEW g, NEW s, NEW t, i \in 1 .. Len(b) + 1 => f = g /\ s = t,
         NEW x, NEW y, x = WithHeaders(b, i, m, f, s), y = WithHeaders(w, j, m, g, t)
  PROVE  AlikeParse(b, x, y)
<1>0. Len(b) \in Nat /\ Len(w) \in Nat /\ Len(b) <= Len(w)
  BY DEF Prefix
<1>4. ASSUME NEW n, n \in 1 .. Len(w) + 1, NEW k, k = parse_headers(w, n, m)
      PROVE  k.buf < 0 \/ k.buf \in n + 1 .. Len(w) + 1
  <2>1. AlikeHeaders(w, n + 1, k, k)
    BY <1>4, AtItself, HeadersSame
  <2> QED BY <2>1 DEF AlikeHeaders, Partial, Failed
<1>1. CASE i = Partial /\ (j < 0 \/ j > Len(b) + 1)
  <2>1. x = NotParsed(Partial)
    BY <1>1 DEF WithHeaders, Partial
  <2>2. y.ret < 0 \/ y.ret > Len(b)
    <3>1. CASE j < 0
      BY <3>1 DEF WithHeaders, NotParsed, Parsed
    <3>2. CASE ~ (j < 0)
      <4>1. PICK k : k = parse_headers(w, j, m)
        OBVIOUS
      <4>2. j \in 1 .. Len(w) + 1
        BY <3>2 DEF Alike, Partial, Failed
      <4>3. PICK e : e = k.buf
        OBVIOUS
      <4>4. e < 0 \/ e \in j + 1 .. Len(w) + 1
        BY <1>4, <4>1, <4>2, <4>3
      <4>5. y = AfterHeaders(k, g, t)
        BY <3>2, <4>1 DEF WithHeaders
      <4>6. CASE e < 0
        BY <4>3, <4>5, <4>6 DEF AfterHeaders, NotParsed, Parsed
      <4>7. CASE ~ (e < 0)
        <5>1. y.ret = e - 1
          BY <4>3, <4>5, <4>7 DEF AfterHeaders, Parsed
        <5>2. e - 1 > Len(b)
          BY <1>0, <1>1, <3>2, <4>2, <4>4, <4>7
        <5> QED BY <5>1, <5>2
      <4> QED BY <4>6, <4>7
    <3> QED BY <3>1, <3>2
  <2> QED BY <2>1, <2>2, EarlyResult
<1>2. CASE i = j /\ i = Failed
  <2>1. x = NotParsed(Failed) /\ y = NotParsed(Failed)
    BY <1>2 DEF WithHeaders, Failed
  <2> QED BY <2>1, EarlyResult
<1>3. CASE i = j /\ i \in 1 .. Len(b) + 1
  <2>1. PICK h, k : h = parse_headers(b, i, m) /\ k = parse_headers(w, i, m)
    OBVIOUS
  <2>2. ~ (i < 0) /\ At(b, w, i) /\ i \in Nat
    BY <1>0, <1>3 DEF At
  <2>3. x = AfterHeaders(h, f, s) /\ y = AfterHeaders(k, f, s)
    BY <1>3, <2>1, <2>2 DEF WithHeaders
  <2>4. AlikeHeaders(b, i + 1, h, k)
    BY <2>1, <2>2, HeadersSame
  <2>5. CASE h.buf = Partial /\ (k.buf < 0 \/ k.buf > Len(b) + 1)
    <3>1. x = NotParsed(Partial)
      BY <2>3, <2>5 DEF AfterHeaders, Partial
    <3>2. PICK e : e = k.buf
      OBVIOUS
    <3>3. e < 0 \/ e \in i + 1 .. Len(w) + 1
      <4>1. i \in 1 .. Len(w) + 1
        BY <1>0, <1>3
      <4> QED BY <1>4, <2>1, <3>2, <4>1
    <3>4. CASE e < 0
      <4>1. y.ret = e
        BY <2>3, <3>2, <3>4 DEF AfterHeaders, NotParsed, Parsed
      <4> QED BY <3>1, <3>4, <4>1, EarlyResult
    <3>5. CASE ~ (e < 0)
      <4>1. y.ret = e - 1
        BY <2>3, <3>2, <3>5 DEF AfterHeaders, Parsed
      <4>2. e - 1 > Len(b)
        BY <1>0, <2>2, <2>5, <3>2, <3>3, <3>5
      <4> QED BY <3>1, <4>1, <4>2, EarlyResult
    <3> QED BY <3>4, <3>5
  <2>6. CASE h = k /\ h.buf = Failed
    <3>1. x = NotParsed(Failed) /\ y = NotParsed(Failed)
      BY <2>3, <2>6 DEF AfterHeaders, Failed
    <3> QED BY <3>1, EarlyResult
  <2>7. CASE h = k /\ h.buf \in i + 1 .. Len(b) + 1
    <3>1. x = y
      BY <2>3, <2>7
    <3>2. ~ (h.buf < 0) /\ h.buf - 1 \in 1 .. Len(b)
      BY <1>0, <1>3, <2>2, <2>7
    <3>3. x.ret = h.buf - 1
      BY <2>3, <3>2 DEF AfterHeaders, Parsed
    <3> QED BY <3>1, <3>2, <3>3 DEF AlikeParse
  <2> QED BY <2>4, <2>5, <2>6, <2>7 DEF AlikeHeaders
<1> QED BY <1>1, <1>2, <1>3 DEF Alike

\* A scan from a position past the beginning stays past it.
IsPast(b, w, t) == t < 0 \/ (t > Len(b) /\ t \in 1 .. Len(w) + 1)

\* What starts beyond the beginning ends there.
LEMMA ScanPast ==
  ASSUME NEW b, NEW w, Prefix(b, w), NEW t, IsPast(b, w, t), ~ (t < 0), NEW S, NEW stop, NEW bad,
         NEW y, y = Search(w, t, S) \/ y = ScanTo(w, t, stop, bad)
  PROVE  y < 0 \/ y > Len(b)
<1>0. Len(b) \in Nat /\ Len(w) \in Nat /\ t > Len(b) /\ t \in 1 .. Len(w) + 1
  BY DEF IsPast, Prefix
<1>1. At(w, w, t)
  BY <1>0, AtItself
<1>2. AlikeOn(w, t, S, y, y) \/ AlikeOn(w, t, {stop}, y, y)
  BY <1>1, SearchSame, ScanToSame
<1>3. y < 0 \/ y \in t .. Len(w)
  BY <1>2 DEF AlikeOn, Partial, Failed
<1> QED BY <1>0, <1>3

\* Where a request starts takes a byte to tell.
AlikeStart(b, x, y) ==
  \/ x = Partial /\ (y < 0 \/ y > Len(b))
  \/ x = y /\ (x = Failed \/ x \in 1 .. Len(b) + 1)

\* The start of a request, after an empty line.
LEMMA StartSame ==
  ASSUME NEW b, NEW w, Prefix(b, w)
  PROVE  AlikeStart(b, RequestStart(b), RequestStart(w))
<1>0. b \in Seq(Nat) /\ w \in Seq(Nat) /\ Len(b) \in Nat /\ Len(w) \in Nat /\ Len(b) <= Len(w) /\ \A j \in 1 .. Len(b) : b[j] = w[j]
  BY DEF Prefix
<1>1. CASE b = <<>>
  <2>1. RequestStart(b) = Partial /\ Len(b) = 0
    BY <1>1 DEF RequestStart
  <2>2. RequestStart(w) < 0 \/ RequestStart(w) > 0
    <3>1. CASE w # <<>> /\ w[1] \in {CR, LF}
      <4>1. On(w, w, 1)
        <5>1. 1 \in 1 .. Len(w)
          BY <1>0, <3>1
        <5> QED BY <5>1, AtItself
      <4>2. PICK e : e = EndOfLine(w, 1)
        OBVIOUS
      <4>3. Alike(w, 1 + 1, e, e)
        BY <4>1, <4>2, EndOfLineSame
      <4>4. e < 0 \/ e > 0
        BY <4>3 DEF Alike, Partial, Failed
      <4> QED BY <3>1, <4>2, <4>4 DEF RequestStart
    <3>2. CASE ~ (w # <<>> /\ w[1] \in {CR, LF})
      BY <3>2 DEF RequestStart, Partial
    <3> QED BY <3>1, <3>2
  <2> QED BY <2>1, <2>2 DEF AlikeStart
<1>2. CASE b # <<>>
  <2>1. 1 \in 1 .. Len(b) /\ w # <<>>
    BY <1>0, <1>2
  <2>2. On(b, w, 1) /\ w[1] = b[1]
    BY <1>0, <2>1 DEF On
  <2>3. Alike(b, 1 + 1, EndOfLine(b, 1), EndOfLine(w, 1))
    BY <2>2, EndOfLineSame
  <2>4. CASE b[1] \in {CR, LF}
    <3>1. RequestStart(b) = EndOfLine(b, 1) /\ RequestStart(w) = EndOfLine(w, 1)
      BY <1>2, <2>1, <2>2, <2>4 DEF RequestStart
    <3>2. \A k : k \in 1 + 1 .. Len(b) + 1 => k \in 1 .. Len(b) + 1
      BY <1>0
    <3>5. EndOfLine(w, 1) \in Int
      <4>1. On(w, w, 1)
        BY <1>0, <2>1, AtItself
      <4>2. Alike(w, 1 + 1, EndOfLine(w, 1), EndOfLine(w, 1))
        BY <4>1, EndOfLineSame
      <4> QED BY <4>2 DEF Alike, Partial, Failed
    <3>3. \A k : k > Len(b) + 1 /\ k \in Int => k > Len(b)
      BY <1>0
    <3>4. RequestStart(w) \in Int
      BY <3>1, <3>5
    <3> QED BY <2>3, <3>1, <3>2, <3>3, <3>4 DEF Alike, AlikeStart
  <2>5. CASE b[1] \notin {CR, LF}
    <3>1. RequestStart(b) = 1 /\ RequestStart(w) = 1
      BY <1>2, <2>1, <2>2, <2>5 DEF RequestStart
    <3>2. 1 \in 1 .. Len(b) + 1
      BY <1>0
    <3> QED BY <3>1, <3>2 DEF AlikeStart
  <2> QED BY <2>4, <2>5
<1> QED BY <1>1, <1>2

\* The method.
LEMMA MethodSame ==
  ASSUME NEW b, NEW w, Prefix(b, w), NEW x, NEW y, x = MethodEnd(b), y = MethodEnd(w)
  PROVE  /\ AlikeOn(b, 1, {SP}, x, y)
         /\ x \in 1 .. Len(b) => RequestStart(b) \in 1 .. Len(b) + 1 /\ RequestStart(w) = RequestStart(b)
<1>0. Len(b) \in Nat
  BY DEF Prefix
<1>1. PICK s, t : s = RequestStart(b) /\ t = RequestStart(w)
  OBVIOUS
<1>2. AlikeStart(b, s, t) /\ AlikeStart(w, t, t) /\ Len(w) \in Nat
  BY <1>1, AtItself, StartSame
<1>3. x = (IF s < 0 THEN s ELSE parse_token(b, s, SP)) /\ y = (IF t < 0 THEN t ELSE parse_token(w, t, SP))
  BY <1>1 DEF MethodEnd, Then
<1>4. CASE s = Partial /\ (t < 0 \/ t > Len(b))
  <2>1. x = Partial /\ ~ (x \in 1 .. Len(b))
    BY <1>0, <1>3, <1>4 DEF Partial
  <2>2. IsPast(b, w, t)
    <3>1. t < 0 \/ t \in 1 .. Len(w) + 1
      BY <1>2 DEF AlikeStart, Partial, Failed
    <3> QED BY <1>4, <3>1 DEF IsPast
  <2>3. ~ (t < 0) => y = ScanTo(w, t, SP, OtherThan(TokenChars))
    BY <1>3 DEF parse_token
  <2>4. y < 0 \/ y > Len(b)
    BY <1>3, <2>2, <2>3, ScanPast
  <2> QED BY <2>1, <2>4 DEF AlikeOn
<1>5. CASE s = t /\ s = Failed
  <2>1. x = Failed /\ y = Failed /\ ~ (x \in 1 .. Len(b))
    BY <1>0, <1>3, <1>5 DEF Failed
  <2> QED BY <2>1 DEF AlikeOn
<1>6. CASE s = t /\ s \in 1 .. Len(b) + 1
  <2>1. At(b, w, s) /\ ~ (s < 0)
    BY <1>0, <1>6 DEF At
  <2>2. x = ScanTo(b, s, SP, OtherThan(TokenChars)) /\ y = ScanTo(w, s, SP, OtherThan(TokenChars))
    BY <1>3, <1>6, <2>1 DEF parse_token
  <2>3. AlikeOn(b, s, {SP}, x, y)
    BY <2>1, <2>2, ScanToSame
  <2>4. \A k : k \in s .. Len(b) => k \in 1 .. Len(b)
    BY <1>0, <1>6
  <2> QED BY <1>1, <1>6, <2>3, <2>4 DEF AlikeOn
<1> QED BY <1>2, <1>4, <1>5, <1>6 DEF AlikeStart

\* The spaces before the path.
LEMMA PathSame ==
  ASSUME NEW b, NEW w, Prefix(b, w), NEW x, NEW y, x = PathStart(b), y = PathStart(w)
  PROVE  /\ AlikeOn(b, 1, OtherThan({SP}), x, y)
         /\ x \in 1 .. Len(b) => MethodEnd(b) \in 1 .. Len(b) /\ MethodEnd(w) = MethodEnd(b)
<1>0. Len(b) \in Nat
  BY DEF Prefix
<1>1. PICK s, t : s = MethodEnd(b) /\ t = MethodEnd(w)
  OBVIOUS
<1>2. AlikeOn(b, 1, {SP}, s, t) /\ AlikeOn(w, 1, {SP}, t, t) /\ Len(w) \in Nat
  BY <1>1, AtItself, MethodSame
<1>3. x = (IF s < 0 THEN s ELSE SkipSpaces(b, s)) /\ y = (IF t < 0 THEN t ELSE SkipSpaces(w, t))
  BY <1>1 DEF PathStart, Then
<1>4. CASE s = Partial /\ (t < 0 \/ t > Len(b))
  <2>1. x = Partial /\ ~ (x \in 1 .. Len(b))
    BY <1>0, <1>3, <1>4 DEF Partial
  <2>2. IsPast(b, w, t)
    <3>1. t < 0 \/ t \in 1 .. Len(w) + 1
      BY <1>2 DEF AlikeOn, Partial, Failed
    <3> QED BY <1>4, <3>1 DEF IsPast
  <2>3. ~ (t < 0) => y = Search(w, t, OtherThan({SP}))
    BY <1>3 DEF SkipSpaces
  <2>4. y < 0 \/ y > Len(b)
    BY <1>3, <2>2, <2>3, ScanPast
  <2> QED BY <2>1, <2>4 DEF AlikeOn
<1>5. CASE s = t /\ s = Failed
  <2>1. x = Failed /\ y = Failed /\ ~ (x \in 1 .. Len(b))
    BY <1>0, <1>3, <1>5 DEF Failed
  <2> QED BY <2>1 DEF AlikeOn
<1>6. CASE s = t /\ s \in 1 .. Len(b)
  <2>1. At(b, w, s) /\ ~ (s < 0)
    BY <1>0, <1>6 DEF At
  <2>2. x = Search(b, s, OtherThan({SP})) /\ y = Search(w, s, OtherThan({SP}))
    BY <1>3, <1>6, <2>1 DEF SkipSpaces
  <2>3. AlikeOn(b, s, OtherThan({SP}), x, y)
    BY <2>1, <2>2, SearchSame
  <2>4. \A k : k \in s .. Len(b) => k \in 1 .. Len(b)
    BY <1>0, <1>6
  <2> QED BY <1>1, <1>6, <2>3, <2>4 DEF AlikeOn
<1> QED BY <1>2, <1>4, <1>5, <1>6 DEF AlikeOn

PathEnd(b) == Then(PathStart(b), LAMBDA i : ADVANCE_TOKEN(b, i))

\* The path.
LEMMA PathEndSame ==
  ASSUME NEW b, NEW w, Prefix(b, w), NEW x, NEW y, x = PathEnd(b), y = PathEnd(w)
  PROVE  /\ AlikeOn(b, 1, {SP}, x, y)
         /\ x \in 1 .. Len(b) => PathStart(b) \in 1 .. Len(b) /\ PathStart(w) = PathStart(b)
<1>0. Len(b) \in Nat
  BY DEF Prefix
<1>1. PICK s, t : s = PathStart(b) /\ t = PathStart(w)
  OBVIOUS
<1>2. AlikeOn(b, 1, OtherThan({SP}), s, t) /\ AlikeOn(w, 1, OtherThan({SP}), t, t) /\ Len(w) \in Nat
  BY <1>1, AtItself, PathSame
<1>3. x = (IF s < 0 THEN s ELSE ADVANCE_TOKEN(b, s)) /\ y = (IF t < 0 THEN t ELSE ADVANCE_TOKEN(w, t))
  BY <1>1 DEF PathEnd, Then
<1>4. CASE s = Partial /\ (t < 0 \/ t > Len(b))
  <2>1. x = Partial /\ ~ (x \in 1 .. Len(b))
    BY <1>0, <1>3, <1>4 DEF Partial
  <2>2. IsPast(b, w, t)
    <3>1. t < 0 \/ t \in 1 .. Len(w) + 1
      BY <1>2 DEF AlikeOn, Partial, Failed
    <3> QED BY <1>4, <3>1 DEF IsPast
  <2>3. ~ (t < 0) => y = ScanTo(w, t, SP, Controls)
    BY <1>3 DEF ADVANCE_TOKEN
  <2>4. y < 0 \/ y > Len(b)
    BY <1>3, <2>2, <2>3, ScanPast
  <2> QED BY <2>1, <2>4 DEF AlikeOn
<1>5. CASE s = t /\ s = Failed
  <2>1. x = Failed /\ y = Failed /\ ~ (x \in 1 .. Len(b))
    BY <1>0, <1>3, <1>5 DEF Failed
  <2> QED BY <2>1 DEF AlikeOn
<1>6. CASE s = t /\ s \in 1 .. Len(b)
  <2>1. At(b, w, s) /\ ~ (s < 0)
    BY <1>0, <1>6 DEF At
  <2>2. x = ScanTo(b, s, SP, Controls) /\ y = ScanTo(w, s, SP, Controls)
    BY <1>3, <1>6, <2>1 DEF ADVANCE_TOKEN
  <2>3. AlikeOn(b, s, {SP}, x, y)
    BY <2>1, <2>2, ScanToSame
  <2>4. \A k : k \in s .. Len(b) => k \in 1 .. Len(b)
    BY <1>0, <1>6
  <2> QED BY <1>1, <1>6, <2>3, <2>4 DEF AlikeOn
<1> QED BY <1>2, <1>4, <1>5, <1>6 DEF AlikeOn

SameMethod(b, w) == MethodEnd(w) = MethodEnd(b) /\ RequestStart(w) = RequestStart(b)

\* The rest of the first line.
LEMMA VersionLineSame ==
  ASSUME NEW b, NEW w, NEW e, On(b, w, e), SameMethod(b, w),
         NEW x, NEW y, x = VersionLine(b, e), y = VersionLine(w, e)
  PROVE  Alike(b, e + 1, x, y)
<1>0. Prefix(b, w) /\ e \in 1 .. Len(b) /\ Len(b) \in Nat /\ Len(w) \in Nat /\ Len(b) <= Len(w)
  BY DEF On, Prefix
<1> DEFINE V(t, i) == IF MethodEnd(t) = RequestStart(t) THEN Failed ELSE parse_http_version(t, i)
<1>1. PICK s, t : s = Search(b, e, OtherThan({SP})) /\ t = Search(w, e, OtherThan({SP}))
  OBVIOUS
<1>2. PICK u, v : u = (IF s < 0 THEN s ELSE V(b, s)) /\ v = (IF t < 0 THEN t ELSE V(w, t))
  OBVIOUS
<1>3. x = (IF u < 0 THEN u ELSE EndOfLine(b, u)) /\ y = (IF v < 0 THEN v ELSE EndOfLine(w, v))
  BY <1>1, <1>2 DEF VersionLine, Then, SkipSpaces, V
<1>4. AlikeOn(b, e, OtherThan({SP}), s, t) /\ s # Failed /\ AlikeOn(w, e, OtherThan({SP}), t, t)
  <2>1. At(b, w, e) /\ At(w, w, e)
    <3>1. e \in 1 .. Len(b) + 1
      BY <1>0
    <3> QED BY <1>0, <3>1, AtItself DEF At
  <2> QED BY <1>1, <2>1, SearchSame
<1>9. \A n : n \in 1 .. Len(w) => V(w, n) < 0 \/ V(w, n) \in n + 1 .. Len(w)
  <2> TAKE n
  <2> HAVE n \in 1 .. Len(w)
  <2>1. PICK z : z = parse_http_version(w, n)
    OBVIOUS
  <2>2. AlikeOn(w, n + 1, Nat, z, z)
    <3>1. n \in 1 .. Len(w) + 1
      BY <1>0
    <3> QED BY <1>0, <2>1, <3>1, AtItself, VersionSame
  <2>3. z < 0 \/ z \in n + 1 .. Len(w)
    BY <2>2 DEF AlikeOn, Partial, Failed
  <2> QED BY <2>1, <2>3 DEF Failed
<1> HIDE DEF V
<1>10. v < 0 \/ v \in e + 1 .. Len(w)
  <2>1. t < 0 \/ t \in e .. Len(w)
    BY <1>4 DEF AlikeOn, Partial, Failed
  <2>2. CASE t < 0
    BY <1>2, <2>2
  <2>3. CASE ~ (t < 0)
    <3>1. t \in 1 .. Len(w) /\ v = V(w, t) /\ t \in Nat /\ t >= e
      BY <1>0, <1>2, <2>1, <2>3
    <3>2. v < 0 \/ v \in t + 1 .. Len(w)
      BY <1>9, <3>1
    <3> QED BY <1>0, <3>1, <3>2
  <2> QED BY <2>2, <2>3
<1>5. AlikeOn(b, e + 1, Nat, u, v)
  <2>1. CASE s = Partial /\ (t < 0 \/ t > Len(b))
    <3>1. u = Partial
      BY <1>2, <2>1 DEF Partial
    <3>2. CASE t < 0
      BY <1>2, <3>1, <3>2 DEF AlikeOn
    <3>3. CASE ~ (t < 0)
      <4>1. t \in 1 .. Len(w) /\ v = V(w, t) /\ t > Len(b)
        BY <1>0, <1>2, <1>4, <2>1, <3>3 DEF AlikeOn, Partial, Failed
      <4>2. v < 0 \/ v \in t + 1 .. Len(w)
        BY <1>9, <4>1
      <4>3. v < 0 \/ v > Len(b)
        BY <1>0, <4>1, <4>2
      <4> QED BY <3>1, <4>3 DEF AlikeOn
    <3> QED BY <3>2, <3>3
  <2>2. CASE s = t /\ s \in e .. Len(b)
    <3>1. At(b, w, s) /\ ~ (s < 0)
      BY <1>0, <2>2 DEF At
    <3>2. CASE MethodEnd(b) = RequestStart(b)
      <4>1. u = Failed /\ v = Failed
        BY <1>2, <2>2, <3>1, <3>2 DEF SameMethod, V
      <4> QED BY <4>1 DEF AlikeOn
    <3>3. CASE MethodEnd(b) # RequestStart(b)
      <4>1. u = parse_http_version(b, s) /\ v = parse_http_version(w, s)
        BY <1>2, <2>2, <3>1, <3>3 DEF SameMethod, V
      <4>2. AlikeOn(b, s + 1, Nat, u, v)
        BY <3>1, <4>1, VersionSame
      <4>3. \A k : k \in s + 1 .. Len(b) => k \in e + 1 .. Len(b)
        BY <1>0, <2>2
      <4> QED BY <4>2, <4>3 DEF AlikeOn
    <3> QED BY <3>2, <3>3
  <2> QED BY <1>4, <2>1, <2>2 DEF AlikeOn
<1>6. CASE u = Partial /\ (v < 0 \/ v > Len(b))
  <2>1. x = Partial
    BY <1>3, <1>6 DEF Partial
  <2>2. y < 0 \/ y > Len(b) + 1
    <3>1. CASE v < 0
      BY <1>3, <3>1
    <3>2. CASE ~ (v < 0)
      <4>1. v \in 1 .. Len(w) /\ v > Len(b) /\ v \in Nat
        BY <1>0, <1>6, <1>10, <3>2
      <4>2. y = EndOfLine(w, v) /\ On(w, w, v)
        BY <1>0, <1>3, <3>2, <4>1, AtItself
      <4>3. Alike(w, v + 1, y, y)
        BY <4>2, EndOfLineSame
      <4>4. y < 0 \/ y \in v + 1 .. Len(w) + 1
        BY <4>3 DEF Alike, Partial, Failed
      <4> QED BY <1>0, <4>1, <4>4
    <3> QED BY <3>1, <3>2
  <2> QED BY <2>1, <2>2 DEF Alike
<1>7. CASE u = v /\ u = Failed
  BY <1>3, <1>7 DEF Alike, Failed
<1>8. CASE u = v /\ u \in e + 1 .. Len(b)
  <2>1. On(b, w, u) /\ ~ (u < 0)
    BY <1>0, <1>8 DEF On
  <2>2. x = EndOfLine(b, u) /\ y = EndOfLine(w, u)
    BY <1>3, <1>8, <2>1
  <2>3. Alike(b, u + 1, x, y)
    BY <2>1, <2>2, EndOfLineSame
  <2>4. \A k : k \in u + 1 .. Len(b) + 1 => k \in e + 1 .. Len(b) + 1
    BY <1>0, <1>8
  <2> QED BY <2>3, <2>4 DEF Alike
<1> QED BY <1>5, <1>6, <1>7, <1>8 DEF AlikeOn

\* parse_request: a request in part is partial, or gives what it gives whole.
LEMMA RequestSame ==
  ASSUME NEW b, NEW w, Prefix(b, w), NEW m, NEW x, NEW y, x = parse_request(b, m), y = parse_request(w, m)
  PROVE  AlikeParse(b, x, y)
<1>0. Len(b) \in Nat /\ Len(w) \in Nat /\ Len(b) <= Len(w) /\ Prefix(w, w)
  BY AtItself
<1>1. PICK e, d : e = PathEnd(b) /\ d = PathEnd(w)
  OBVIOUS
<1>2. AlikeOn(b, 1, {SP}, e, d) /\ AlikeOn(w, 1, {SP}, d, d) /\ (e \in 1 .. Len(b) => PathStart(b) \in 1 .. Len(b) /\ PathStart(w) = PathStart(b))
  BY <1>0, <1>1, PathEndSame
<1>3. PICK i, j : i = (IF e < 0 THEN e ELSE VersionLine(b, e)) /\ j = (IF d < 0 THEN d ELSE VersionLine(w, d))
  OBVIOUS
<1>4. PICK f, g, s, t : /\ f = SubSeq(b, RequestStart(b), MethodEnd(b) - 1) /\ s = SubSeq(b, PathStart(b), e - 1)
                        /\ g = SubSeq(w, RequestStart(w), MethodEnd(w) - 1) /\ t = SubSeq(w, PathStart(w), d - 1)
  OBVIOUS
<1>5. x = WithHeaders(b, i, m, f, s) /\ y = WithHeaders(w, j, m, g, t)
  BY <1>1, <1>3, <1>4 DEF parse_request, AfterPath, PathEnd, Then
<1>9. d < 0 \/ d \in 1 .. Len(w)
  BY <1>2 DEF AlikeOn, Partial, Failed
<1>10. ASSUME ~ (d < 0) PROVE Alike(w, d + 1, j, j) /\ Alike(w, 1, j, j)
  <2>1. On(w, w, d)
    BY <1>0, <1>9, <1>10, AtItself
  <2>2. SameMethod(w, w)
    BY DEF SameMethod
  <2>3. j = VersionLine(w, d)
    BY <1>3, <1>10
  <2>4. Alike(w, d + 1, j, j)
    BY <2>1, <2>2, <2>3, VersionLineSame
  <2>5. \A k : k \in d + 1 .. Len(w) + 1 => k \in 1 .. Len(w) + 1
    BY <1>0, <1>9, <1>10
  <2> QED BY <2>4, <2>5 DEF Alike
<1>11. Alike(w, 1, j, j)
  <2>1. CASE d < 0
    <3>1. d \in {Failed, Partial}
      BY <1>0, <1>2, <2>1 DEF AlikeOn
    <3>2. j = d
      BY <1>3, <2>1
    <3> QED BY <2>1, <3>1, <3>2 DEF Alike
  <2> QED BY <1>10, <2>1
<1>6. CASE e = Partial /\ (d < 0 \/ d > Len(b))
  <2>1. i = Partial /\ ~ (i \in 1 .. Len(b) + 1)
    BY <1>0, <1>3, <1>6 DEF Partial
  <2>2. j < 0 \/ j > Len(b) + 1
    <3>1. CASE d < 0
      BY <1>3, <3>1
    <3>2. CASE ~ (d < 0)
      <4>1. j < 0 \/ j \in d + 1 .. Len(w) + 1
        BY <1>10, <3>2 DEF Alike, Partial, Failed
      <4>2. d \in 1 .. Len(w) /\ d > Len(b)
        BY <1>6, <1>9, <3>2
      <4> QED BY <1>0, <4>1, <4>2
    <3> QED BY <3>1, <3>2
  <2>3. Alike(b, 1, i, j)
    BY <2>1, <2>2 DEF Alike
  <2> QED BY <1>5, <1>11, <2>1, <2>3, WithHeadersSame
<1>7. CASE e = d /\ e = Failed
  <2>1. i = Failed /\ j = Failed /\ ~ (i \in 1 .. Len(b) + 1)
    BY <1>0, <1>3, <1>7 DEF Failed
  <2>2. Alike(b, 1, i, j)
    BY <2>1 DEF Alike
  <2> QED BY <1>5, <1>11, <2>1, <2>2, WithHeadersSame
<1>8. CASE e = d /\ e \in 1 .. Len(b)
  <2>1. PathStart(b) \in 1 .. Len(b) /\ PathStart(w) = PathStart(b)
    BY <1>2, <1>8
  <2>2. MethodEnd(b) \in 1 .. Len(b) /\ MethodEnd(w) = MethodEnd(b)
    BY <2>1, PathSame
  <2>3. RequestStart(b) \in 1 .. Len(b) + 1 /\ RequestStart(w) = RequestStart(b)
    BY <2>2, MethodSame
  <2>4. On(b, w, e) /\ ~ (e < 0) /\ SameMethod(b, w)
    BY <1>0, <1>8, <2>2, <2>3 DEF On, SameMethod
  <2>5. i = VersionLine(b, e) /\ j = VersionLine(w, e)
    BY <1>3, <1>8, <2>4
  <2>6. Alike(b, 1, i, j)
    <3>1. Alike(b, e + 1, i, j)
      BY <2>4, <2>5, VersionLineSame
    <3>2. \A k : k \in e + 1 .. Len(b) + 1 => k \in 1 .. Len(b) + 1
      BY <1>0, <1>8
    <3> QED BY <3>1, <3>2 DEF Alike
  <2>7. f = g
    <3>1. PICK lo, hi : lo = RequestStart(b) /\ hi = MethodEnd(b) - 1
      OBVIOUS
    <3>2. lo \in Nat \ {0} /\ hi \in Int /\ hi <= Len(b)
      BY <1>0, <2>2, <2>3, <3>1
    <3>3. SubSeq(b, lo, hi) = SubSeq(w, lo, hi) /\ SubSeq(b, lo, hi) \in Seq(Nat)
      BY <3>2, SubSame, Zenon
    <3> QED BY <1>4, <2>2, <2>3, <3>1, <3>3
  <2>8. s = t
    <3>1. PICK lo, hi : lo = PathStart(b) /\ hi = e - 1
      OBVIOUS
    <3>2. lo \in Nat \ {0} /\ hi \in Int /\ hi <= Len(b)
      BY <1>0, <1>8, <2>1, <3>1
    <3>3. SubSeq(b, lo, hi) = SubSeq(w, lo, hi) /\ SubSeq(b, lo, hi) \in Seq(Nat)
      BY <3>2, SubSame, Zenon
    <3> QED BY <1>4, <1>8, <2>1, <3>1, <3>3
  <2> QED BY <1>5, <1>11, <2>6, <2>7, <2>8, WithHeadersSame
<1> QED BY <1>2, <1>6, <1>7, <1>8 DEF AlikeOn
-----------------------------------------------------------------------------
StatusStart(b) == Then(parse_http_version(b, 1), LAMBDA i : IF b[i] # SP THEN Failed ELSE SkipSpaces(b, i))

\* The start of the status.
LEMMA StatusStartSame ==
  ASSUME NEW b, NEW w, Prefix(b, w), NEW x, NEW y, x = StatusStart(b), y = StatusStart(w)
  PROVE  AlikeOn(b, 1, OtherThan({SP}), x, y)
<1>0. Len(b) \in Nat /\ Len(w) \in Nat /\ Len(b) <= Len(w) /\ \A j \in 1 .. Len(b) : b[j] = w[j]
  BY DEF Prefix
<1>1. PICK s, t : s = parse_http_version(b, 1) /\ t = parse_http_version(w, 1)
  OBVIOUS
<1>2. AlikeOn(b, 1 + 1, Nat, s, t) /\ AlikeOn(w, 1 + 1, Nat, t, t)
  <2>1. At(b, w, 1) /\ At(w, w, 1)
    <3>1. 1 \in 1 .. Len(b) + 1
      BY <1>0
    <3> QED BY <3>1, AtItself DEF At
  <2> QED BY <1>1, <2>1, VersionSame
<1>3. x = (IF s < 0 THEN s ELSE IF b[s] # SP THEN Failed ELSE SkipSpaces(b, s))
  BY <1>1 DEF StatusStart, Then
<1>4. y = (IF t < 0 THEN t ELSE IF w[t] # SP THEN Failed ELSE SkipSpaces(w, t))
  BY <1>1 DEF StatusStart, Then
<1>5. CASE s = Partial /\ (t < 0 \/ t > Len(b))
  <2>1. x = Partial
    BY <1>3, <1>5 DEF Partial
  <2>2. y < 0 \/ y > Len(b)
    <3>1. CASE t < 0 \/ w[t] # SP
      BY <1>4, <3>1 DEF Failed
    <3>2. CASE ~ (t < 0) /\ w[t] = SP
      <4>1. y = Search(w, t, OtherThan({SP}))
        BY <1>4, <3>2 DEF SkipSpaces
      <4>2. IsPast(b, w, t)
        <5>1. t \in 1 .. Len(w) + 1
          BY <1>0, <1>2, <3>2 DEF AlikeOn, Partial, Failed
        <5> QED BY <1>5, <3>2, <5>1 DEF IsPast
      <4> QED BY <3>2, <4>1, <4>2, ScanPast
    <3> QED BY <3>1, <3>2
  <2> QED BY <2>1, <2>2 DEF AlikeOn
<1>6. CASE s = t /\ s = Failed
  BY <1>3, <1>4, <1>6 DEF AlikeOn, Failed
<1>7. CASE s = t /\ s \in 1 + 1 .. Len(b)
  <2>1. s \in 1 .. Len(b) /\ ~ (s < 0) /\ w[s] = b[s]
    BY <1>0, <1>7
  <2>2. CASE b[s] # SP
    BY <1>3, <1>4, <1>7, <2>1, <2>2 DEF AlikeOn
  <2>3. CASE b[s] = SP
    <3>1. x = Search(b, s, OtherThan({SP})) /\ y = Search(w, s, OtherThan({SP}))
      BY <1>3, <1>4, <1>7, <2>1, <2>3 DEF SkipSpaces
    <3>2. At(b, w, s)
      BY <1>0, <2>1 DEF At
    <3>3. AlikeOn(b, s, OtherThan({SP}), x, y)
      BY <3>1, <3>2, SearchSame
    <3>4. \A k : k \in s .. Len(b) => k \in 1 .. Len(b)
      BY <1>0, <2>1
    <3> QED BY <3>3, <3>4 DEF AlikeOn
  <2> QED BY <2>2, <2>3
<1> QED BY <1>2, <1>5, <1>6, <1>7 DEF AlikeOn

StatusEnd(b, status) ==
  Then(status, LAMBDA i :
    IF Len(b) - i + 1 < 4 THEN Partial
    ELSE IF \A j \in i .. i + 2 : b[j] \in Digits THEN i + 3 ELSE Failed)

\* Its three digits.
LEMMA StatusEndSame ==
  ASSUME NEW b, NEW w, Prefix(b, w), NEW s, NEW t, AlikeOn(b, 1, OtherThan({SP}), s, t),
         AlikeOn(w, 1, OtherThan({SP}), t, t),
         NEW x, NEW y, x = StatusEnd(b, s), y = StatusEnd(w, t)
  PROVE  AlikeOn(b, 1, Nat, x, y) /\ (x \in 1 .. Len(b) => s = t /\ s \in 1 .. Len(b))
<1>0. b \in Seq(Nat) /\ Len(b) \in Nat /\ Len(w) \in Nat /\ Len(b) <= Len(w) /\ \A j \in 1 .. Len(b) : b[j] = w[j]
  BY DEF Prefix
<1>1. CASE s = Partial /\ (t < 0 \/ t > Len(b))
  <2>1. x = Partial /\ ~ (x \in 1 .. Len(b))
    BY <1>0, <1>1 DEF StatusEnd, Then, Partial
  <2>2. y < 0 \/ y > Len(b)
    <3>1. CASE t < 0
      BY <3>1 DEF StatusEnd, Then
    <3>2. CASE ~ (t < 0)
      <4>1. t \in 1 .. Len(w) /\ t > Len(b)
        BY <1>1, <3>2 DEF AlikeOn, Partial, Failed
      <4>2. y = Partial \/ y = Failed \/ y = t + 3
        BY <3>2 DEF StatusEnd, Then
      <4> QED BY <1>0, <4>1, <4>2 DEF Partial, Failed
    <3> QED BY <3>1, <3>2
  <2> QED BY <2>1, <2>2 DEF AlikeOn
<1>2. CASE s = t /\ s = Failed
  <2>1. x = Failed /\ y = Failed /\ ~ (x \in 1 .. Len(b))
    BY <1>0, <1>2 DEF StatusEnd, Then, Failed
  <2> QED BY <2>1 DEF AlikeOn
<1>3. CASE s = t /\ s \in 1 .. Len(b)
  <2>0. ~ (s < 0)
    BY <1>0, <1>3
  <2>1. x = (IF Len(b) - s + 1 < 4 THEN Partial ELSE IF \A j \in s .. s + 2 : b[j] \in Digits THEN s + 3 ELSE Failed)
    BY <2>0 DEF StatusEnd, Then
  <2>2. y = (IF Len(w) - s + 1 < 4 THEN Partial ELSE IF \A j \in s .. s + 2 : w[j] \in Digits THEN s + 3 ELSE Failed)
    BY <1>3, <2>0 DEF StatusEnd, Then
  <2>3. CASE Len(b) - s + 1 < 4
    <3>1. x = Partial
      BY <2>1, <2>3
    <3>2. y = Partial \/ y = Failed \/ y = s + 3
      BY <2>2
    <3>3. y < 0 \/ y > Len(b)
      BY <1>0, <1>3, <2>3, <3>2 DEF Partial, Failed
    <3>4. ~ (x \in 1 .. Len(b))
      BY <1>0, <3>1 DEF Partial
    <3> QED BY <3>1, <3>3, <3>4 DEF AlikeOn
  <2>4. CASE ~ (Len(b) - s + 1 < 4)
    <3>1. ~ (Len(w) - s + 1 < 4) /\ s + 3 \in 1 .. Len(b) /\ \A j \in s .. s + 2 : b[j] = w[j]
      BY <1>0, <1>3, <2>4
    <3>2. x = y /\ (x = Failed \/ x = s + 3)
      BY <2>1, <2>2, <2>4, <3>1
    <3>3. b[s + 3] \in Nat
      BY <1>0, <3>1
    <3> QED BY <1>3, <3>1, <3>2, <3>3 DEF AlikeOn
  <2> QED BY <2>3, <2>4
<1> QED BY <1>1, <1>2, <1>3 DEF AlikeOn

\* The message and the headers after it.
LEMMA MessageSame ==
  ASSUME NEW b, NEW w, Prefix(b, w), NEW m, NEW status, NEW i, NEW j, Alike(b, 1, i, j), Alike(w, 1, j, j),
         NEW p, NEW q, i \in 1 .. Len(b) + 1 => p = q,
         NEW x, NEW y, x = Message(b, m, status, i, p), y = Message(w, m, status, j, q)
  PROVE  AlikeParse(b, x, y)
<1>0. Len(b) \in Nat
  BY DEF Prefix
<1>1. CASE i = Partial /\ (j < 0 \/ j > Len(b) + 1)
  <2>1. x = NotParsed(Partial)
    BY <1>1 DEF Message, Partial
  <2>2. y.ret < 0 \/ y.ret > Len(b)
    <3>1. CASE j < 0
      BY <3>1 DEF Message, NotParsed, Parsed
    <3>2. CASE ~ (j < 0) /\ q # <<>> /\ q[1] # SP
      BY <3>2 DEF Message, NotParsed, Parsed, Failed
    <3>3. CASE ~ (j < 0) /\ ~ (q # <<>> /\ q[1] # SP)
      <4>1. PICK s : s = SubSeq(q, Find(q, 1, OtherThan({SP})), Len(q))
        OBVIOUS
      <4>2. y = WithHeaders(w, j, m, status, s)
        BY <3>3, <4>1 DEF Message
      <4>3. PICK z : z = WithHeaders(b, i, m, status, s)
        OBVIOUS
      <4>4. AlikeParse(b, z, y)
        BY <4>2, <4>3, WithHeadersSame
      <4>5. z.ret = Partial
        BY <1>1, <4>3 DEF WithHeaders, NotParsed, Parsed, Partial
      <4>6. Partial # Failed /\ ~ (Partial \in 1 .. Len(b))
        BY <1>0 DEF Partial, Failed
      <4> QED BY <4>4, <4>5, <4>6 DEF AlikeParse
    <3> QED BY <3>1, <3>2, <3>3
  <2> QED BY <2>1, <2>2, EarlyResult
<1>2. CASE i = j /\ i = Failed
  <2>1. x = NotParsed(Failed) /\ y = NotParsed(Failed)
    BY <1>2 DEF Message, Failed
  <2> QED BY <2>1, EarlyResult
<1>3. CASE i = j /\ i \in 1 .. Len(b) + 1
  <2>1. ~ (i < 0) /\ p = q
    BY <1>0, <1>3
  <2>2. CASE p # <<>> /\ p[1] # SP
    <3>1. x = NotParsed(Failed) /\ y = NotParsed(Failed)
      BY <1>3, <2>1, <2>2 DEF Message
    <3> QED BY <3>1, EarlyResult
  <2>3. CASE ~ (p # <<>> /\ p[1] # SP)
    <3>1. PICK s : s = SubSeq(p, Find(p, 1, OtherThan({SP})), Len(p))
      OBVIOUS
    <3>2. x = WithHeaders(b, i, m, status, s) /\ y = WithHeaders(w, j, m, status, s)
      BY <1>3, <2>1, <2>3, <3>1 DEF Message
    <3> QED BY <3>2, WithHeadersSame
  <2> QED BY <2>2, <2>3
<1> QED BY <1>1, <1>2, <1>3 DEF Alike

\* parse_response: the same as for a request.
LEMMA ResponseSame ==
  ASSUME NEW b, NEW w, Prefix(b, w), NEW m, NEW x, NEW y, x = parse_response(b, m), y = parse_response(w, m)
  PROVE  AlikeParse(b, x, y)
<1>0. Len(b) \in Nat /\ Len(w) \in Nat /\ Len(b) <= Len(w) /\ Prefix(w, w)
  BY AtItself
<1>1. PICK s, t : s = StatusStart(b) /\ t = StatusStart(w)
  OBVIOUS
<1>2. AlikeOn(b, 1, OtherThan({SP}), s, t) /\ AlikeOn(w, 1, OtherThan({SP}), t, t)
  BY <1>0, <1>1, StatusStartSame
<1>3. PICK e, d : e = StatusEnd(b, s) /\ d = StatusEnd(w, t)
  OBVIOUS
<1>4. AlikeOn(b, 1, Nat, e, d) /\ AlikeOn(w, 1, Nat, d, d) /\ (e \in 1 .. Len(b) => s = t /\ s \in 1 .. Len(b))
  BY <1>0, <1>2, <1>3, StatusEndSame
<1>5. x = AfterStatus(b, m, s, e) /\ y = AfterStatus(w, m, t, d)
  BY <1>1, <1>3 DEF parse_response, StatusAt, StatusStart, StatusEnd
<1>9. ASSUME NEW n, n \in 1 .. Len(w), NEW k, k = get_token_to_eol(w, n)
      PROVE  Alike(w, n + 1, k.buf, k.buf) /\ Alike(w, 1, k.buf, k.buf)
  <2>1. n \in 1 .. Len(w) + 1
    BY <1>0, <1>9
  <2>2. Alike(w, n + 1, k.buf, k.buf)
    BY <1>0, <1>9, <2>1, AtItself, LineSame DEF AlikeLine
  <2>3. \A l : l \in n + 1 .. Len(w) + 1 => l \in 1 .. Len(w) + 1
    BY <1>0, <1>9
  <2> QED BY <2>2, <2>3 DEF Alike
<1>6. CASE e = Partial /\ (d < 0 \/ d > Len(b))
  <2>1. x = NotParsed(Partial)
    BY <1>5, <1>6 DEF AfterStatus, Partial
  <2>2. CASE d < 0
    <3>1. y.ret < 0
      BY <1>5, <2>2 DEF AfterStatus, NotParsed, Parsed
    <3> QED BY <2>1, <3>1, EarlyResult
  <2>3. CASE ~ (d < 0)
    <3>1. d \in 1 .. Len(w) /\ d > Len(b)
      BY <1>4, <1>6, <2>3 DEF AlikeOn, Partial, Failed
    <3>2. PICK k : k = get_token_to_eol(w, d)
      OBVIOUS
    <3>3. PICK g, q : g = SubSeq(w, t, d - 1) /\ q = SubSeq(w, d, k.end - 1)
      OBVIOUS
    <3>4. y = Message(w, m, g, k.buf, q)
      BY <1>5, <2>3, <3>2, <3>3 DEF AfterStatus
    <3>5. PICK z : z = Message(b, m, g, Partial, q)
      OBVIOUS
    <3>6. Alike(w, d + 1, k.buf, k.buf) /\ Alike(w, 1, k.buf, k.buf)
      BY <1>9, <3>1, <3>2
    <3>7. Alike(b, 1, Partial, k.buf)
      <4>1. PICK f : f = k.buf
        OBVIOUS
      <4>2. f < 0 \/ f \in d + 1 .. Len(w) + 1
        BY <3>6, <4>1 DEF Alike, Partial, Failed
      <4>3. f < 0 \/ f > Len(b) + 1
        BY <1>0, <3>1, <4>2
      <4> QED BY <4>1, <4>3 DEF Alike
    <3>8. AlikeParse(b, z, y)
      BY <3>4, <3>5, <3>6, <3>7, MessageSame
    <3>9. z.ret = Partial
      BY <3>5 DEF Message, NotParsed, Parsed, Partial
    <3>10. y.ret < 0 \/ y.ret > Len(b)
      <4>1. Partial # Failed /\ ~ (Partial \in 1 .. Len(b))
        BY <1>0 DEF Partial, Failed
      <4> QED BY <3>8, <3>9, <4>1 DEF AlikeParse
    <3> QED BY <2>1, <3>10, EarlyResult
  <2> QED BY <2>2, <2>3
<1>7. CASE e = d /\ e = Failed
  <2>1. x = NotParsed(Failed) /\ y = NotParsed(Failed)
    BY <1>5, <1>7 DEF AfterStatus, Failed
  <2> QED BY <2>1, EarlyResult
<1>8. CASE e = d /\ e \in 1 .. Len(b)
  <2>1. PICK l, k : l = get_token_to_eol(b, e) /\ k = get_token_to_eol(w, e)
    OBVIOUS
  <2>2. At(b, w, e) /\ ~ (e < 0) /\ e \in Nat \ {0}
    BY <1>0, <1>8 DEF At
  <2>3. AlikeLine(b, e, l, k)
    BY <2>1, <2>2, LineSame
  <2>4. PICK f, g : f = SubSeq(b, s, e - 1) /\ g = SubSeq(w, t, e - 1)
    OBVIOUS
  <2>5. PICK p, q : p = SubSeq(b, e, l.end - 1) /\ q = SubSeq(w, e, k.end - 1)
    OBVIOUS
  <2>6. x = Message(b, m, f, l.buf, p) /\ y = Message(w, m, g, k.buf, q)
    BY <1>5, <1>8, <2>1, <2>2, <2>4, <2>5 DEF AfterStatus
  <2>7. f = g
    <3>1. s = t /\ s \in Nat \ {0} /\ e - 1 \in Int /\ e - 1 <= Len(b)
      BY <1>0, <1>4, <1>8
    <3>2. PICK hi : hi = e - 1
      OBVIOUS
    <3>3. SubSeq(b, s, hi) = SubSeq(w, s, hi) /\ SubSeq(b, s, hi) \in Seq(Nat)
      <4>1. s \in Nat \ {0} /\ hi \in Int /\ hi <= Len(b)
        BY <3>1, <3>2
      <4> QED BY <4>1, SubSame, Zenon
    <3> QED BY <2>4, <3>1, <3>2, <3>3
  <2>8. Alike(b, 1, l.buf, k.buf)
    <3>1. \A n : n \in e + 1 .. Len(b) + 1 => n \in 1 .. Len(b) + 1
      BY <1>0, <2>2
    <3> QED BY <2>3, <3>1 DEF AlikeLine, Alike
  <2>10. Alike(w, 1, k.buf, k.buf)
    <3>1. e \in 1 .. Len(w)
      BY <1>0, <1>8
    <3> QED BY <1>9, <2>1, <3>1
  <2>9. ASSUME l.buf \in 1 .. Len(b) + 1 PROVE p = q
    <3>1. PICK hi : hi = l.end - 1
      OBVIOUS
    <3>2. l.end = k.end /\ l.end \in e .. Len(b)
      BY <1>0, <2>3, <2>9 DEF AlikeLine
    <3>3. e \in Nat \ {0} /\ hi \in Int /\ hi <= Len(b)
      BY <1>0, <2>2, <3>1, <3>2
    <3>4. SubSeq(b, e, hi) = SubSeq(w, e, hi) /\ SubSeq(b, e, hi) \in Seq(Nat)
      BY <3>3, SubSame, Zenon
    <3> QED BY <2>5, <3>1, <3>2, <3>4
  <2> QED BY <2>6, <2>7, <2>8, <2>9, <2>10, MessageSame
<1> QED BY <1>4, <1>6, <1>7, <1>8 DEF AlikeOn

\* A parse of all the bytes at once.
AtOnce(kind, b) == Parse(kind, b, 0)

\* Each of the three parsers.
LEMMA ParseSame ==
  ASSUME NEW b, NEW w, Prefix(b, w), NEW kind, kind \in {"request", "response", "headers"}
  PROVE  AlikeParse(b, AtOnce(kind, b), AtOnce(kind, w))
<1>1. CASE kind = "request"
  <2>1. AtOnce(kind, b) = parse_request(b, MaxHeaders) /\ AtOnce(kind, w) = parse_request(w, MaxHeaders)
    BY <1>1 DEF AtOnce, Parse, phr_parse_request, Incremental
  <2> QED BY <2>1, RequestSame
<1>2. CASE kind = "response"
  <2>1. AtOnce(kind, b) = parse_response(b, MaxHeaders) /\ AtOnce(kind, w) = parse_response(w, MaxHeaders)
    BY <1>2 DEF AtOnce, Parse, phr_parse_response, Incremental
  <2> QED BY <2>1, ResponseSame
<1>3. CASE kind = "headers"
  <2>1. AtOnce(kind, b) = WithHeaders(b, 1, MaxHeaders, <<>>, <<>>) /\ AtOnce(kind, w) = WithHeaders(w, 1, MaxHeaders, <<>>, <<>>)
    BY <1>3 DEF AtOnce, Parse, phr_parse_headers, Incremental
  <2>2. Alike(b, 1, 1, 1) /\ Alike(w, 1, 1, 1)
    BY DEF Alike, Prefix
  <2> QED BY <2>1, <2>2, WithHeadersSame
<1> QED BY <1>1, <1>2, <1>3
-----------------------------------------------------------------------------
(* The search for the end of the headers. *)

NoneYet(i) == [at |-> i, seen |-> 0]

IsNewlineRun(h, b, i, k) ==
  h = [n \in 0 .. k |-> IF n = 0 THEN NoneYet(i) ELSE NextNewline(b, h[n - 1])]

\* The count of line ends can go on for any number of steps.
LEMMA SomeNewlineRun ==
  ASSUME NEW b, NEW i PROVE \A k \in Nat : \E h : IsNewlineRun(h, b, i, k)
<1> DEFINE W == {k \in Nat : ~ \E h : IsNewlineRun(h, b, i, k)}
<1> SUFFICES ASSUME W # {} PROVE FALSE
  OBVIOUS
<1>1. PICK k \in W : \A m \in W : k <= m
  <2>1. W \in SUBSET Nat
    OBVIOUS
  <2> HIDE DEF W
  <2> QED BY <2>1, SmallestNumber
<1>2. CASE k = 0
  <2> DEFINE g == [n \in 0 .. 0 |-> NoneYet(i)]
  <2>1. \A n \in 0 .. 0 : NoneYet(i) = (IF n = 0 THEN NoneYet(i) ELSE NextNewline(b, g[n - 1]))
    OBVIOUS
  <2>2. IsNewlineRun(g, b, i, 0)
    BY <2>1 DEF IsNewlineRun
  <2> QED BY <1>1, <1>2, <2>2
<1>3. CASE k # 0
  <2>1. k - 1 \in Nat /\ k - 1 \notin W
    BY <1>1, <1>3
  <2>2. PICK h : IsNewlineRun(h, b, i, k - 1)
    BY <2>1
  <2> DEFINE g == [n \in 0 .. k |-> IF n = 0 THEN NoneYet(i) ELSE NextNewline(b, h[n - 1])]
  <2>3. \A n \in 0 .. k - 1 : g[n] = h[n]
    BY <1>1, <2>1, <2>2 DEF IsNewlineRun
  <2>4. \A n \in 0 .. k : (IF n = 0 THEN NoneYet(i) ELSE NextNewline(b, h[n - 1]))
                          = (IF n = 0 THEN NoneYet(i) ELSE NextNewline(b, g[n - 1]))
    <3> HIDE DEF g
    <3> TAKE n \in 0 .. k
    <3>1. n # 0 => n - 1 \in 0 .. k - 1
      BY <1>1
    <3>2. n # 0 => g[n - 1] = h[n - 1]
      BY <2>3, <3>1
    <3> QED BY <3>2
  <2>5. IsNewlineRun(g, b, i, k)
    BY <2>4, Zenon DEF IsNewlineRun
  <2> QED BY <1>1, <2>5
<1> QED BY <1>2, <1>3

Counts(s, b, i, k, x) ==
  s[0] = NoneYet(i) /\ s[k].at = x /\ \A n \in 1 .. k : s[n] = NextNewline(b, s[n - 1])

\* TwoNewlines takes as many steps as it says.
LEMMA NewlineRunIs ==
  ASSUME NEW b, NEW i, NEW k, k \in Nat, k = Len(b) + 1
  PROVE  \E s : Counts(s, b, i, k, TwoNewlines(b, i))
<1>1. PICK s : s = CHOOSE g : IsNewlineRun(g, b, i, k)
  OBVIOUS
<1>2. TwoNewlines(b, i) = s[k].at
  BY <1>1, Zenon DEF IsNewlineRun, TwoNewlines, NoneYet
<1>3. IsNewlineRun(s, b, i, k)
  BY <1>1, SomeNewlineRun, Zenon
<1>4. s[0] = NoneYet(i) /\ \A n \in 1 .. k : s[n] = NextNewline(b, s[n - 1])
  <2> PICK l \in Nat : l = k
    OBVIOUS
  <2>1. IsNewlineRun(s, b, i, l)
    BY <1>3
  <2>2. 0 \in 0 .. l /\ \A n \in 1 .. l : n \in 0 .. l /\ n # 0
    OBVIOUS
  <2>3. \A n \in 0 .. l : s[n] = IF n = 0 THEN NoneYet(i) ELSE NextNewline(b, s[n - 1])
    BY <2>1, Zenon DEF IsNewlineRun
  <2> QED BY <2>2, <2>3, Zenon
<1> QED BY <1>2, <1>4 DEF Counts

\* A position, or the result that ends the count.
IsResult(x) == x \in {Failed, Partial} \/ x \in Nat \ {0}

\* It gives a position or an error.
LEMMA NewlinesResult ==
  ASSUME NEW b, b \in Seq(Nat), NEW i, i \in Nat \ {0}
  PROVE  IsResult(TwoNewlines(b, i))
<1>1. PICK k : k \in Nat /\ k = Len(b) + 1
  OBVIOUS
<1>2. PICK s : Counts(s, b, i, k, TwoNewlines(b, i))
  BY <1>1, NewlineRunIs
<1>3. s[0] = NoneYet(i) /\ s[k].at = TwoNewlines(b, i) /\ \A n \in 1 .. k : s[n] = NextNewline(b, s[n - 1])
  BY <1>2, Zenon DEF Counts
<1> DEFINE W == {n \in 0 .. k : ~ IsResult(s[n].at)}
<1>4. ASSUME W # {} PROVE FALSE
  <2>1. PICK n \in W : \A j \in W : n <= j
    <3>1. W \in SUBSET Nat
      BY <1>1
    <3> HIDE DEF W
    <3> QED BY <1>4, <3>1, SmallestNumber
  <2>2. n \in 0 .. k /\ ~ IsResult(s[n].at)
    BY <2>1
  <2>3. n # 0
    BY <1>3, <2>2 DEF NoneYet, IsResult
  <2>4. n - 1 \in 0 .. k /\ n - 1 < n /\ n \in 1 .. k
    BY <1>1, <2>2, <2>3
  <2>5. IsResult(s[n - 1].at)
    <3>1. n - 1 \notin W
      <4> HIDE DEF W
      <4> QED BY <2>1, <2>2, <2>4
    <3> QED BY <2>4, <3>1
  <2>6. PICK p : p = s[n - 1]
    OBVIOUS
  <2>7. s[n] = NextNewline(b, p) /\ IsResult(p.at)
    BY <1>3, <2>4, <2>5, <2>6
  <2>8. CASE p.at < 0 \/ p.seen = 2
    BY <2>2, <2>7, <2>8 DEF NextNewline
  <2>9. CASE ~ (p.at < 0 \/ p.seen = 2) /\ AtEnd(b, p.at)
    <3>1. s[n] = [p EXCEPT !.at = Partial]
      BY <2>7, <2>9 DEF NextNewline
    <3>2. s[n].at = Partial \/ s[n].at = p.at
      BY <3>1
    <3> QED BY <2>2, <2>7, <3>2 DEF IsResult
  <2>10. CASE ~ (p.at < 0 \/ p.seen = 2) /\ ~ AtEnd(b, p.at)
    <3>1. p.at \in 1 .. Len(b)
      BY <2>7, <2>10 DEF IsResult, AtEnd, Partial, Failed
    <3>2. s[n].at = EndOfLine(b, p.at) \/ s[n].at = p.at + 1
      BY <2>7, <2>10 DEF NextNewline
    <3>3. IsResult(EndOfLine(b, p.at))
      <4>1. On(b, b, p.at)
        BY <3>1 DEF On, Prefix
      <4>2. Alike(b, p.at + 1, EndOfLine(b, p.at), EndOfLine(b, p.at))
        BY <4>1, EndOfLineSame
      <4> QED BY <3>1, <4>2 DEF Alike, IsResult
    <3>4. IsResult(p.at + 1)
      BY <3>1 DEF IsResult
    <3> QED BY <2>2, <3>2, <3>3, <3>4
  <2> QED BY <2>8, <2>9, <2>10
<1>5. k \in 0 .. k /\ k \notin W
  <2>1. k \in 0 .. k
    BY <1>1
  <2> HIDE DEF W
  <2> QED BY <1>4, <2>1
<1> QED BY <1>3, <1>5
-----------------------------------------------------------------------------
(* The end of a head. *)

\* The head of w is r bytes: every CR in it begins a line end, and it ends with
\* two line ends, the first of them at e.
HeadOf(w, r, e) ==
  /\ r \in 1 .. Len(w) /\ e \in 1 .. r - 1 /\ w[e] = LF /\ w[r] = LF
  /\ e = r - 1 \/ (e = r - 2 /\ w[r - 1] = CR)
  /\ \A j \in 1 .. r - 1 : w[j] = CR => w[j + 1] = LF

IsCount(s) == s = [at |-> s.at, seen |-> s.seen]

\* The count of n steps from i on, where the head is whole or not.
NotPastTheEnd(s, b, r, e, i, n) ==
  /\ IsCount(s)
  /\ \/ s.at = Partial /\ Len(b) < r
     \/ s.seen = 2 /\ s.at \in 1 .. r + 1
     \/ s.seen \in {0, 1} /\ s.at \in i + n .. e /\ s.at <= Len(b) + 1
     \/ s.seen = 1 /\ s.at = e + 1 /\ s.at >= i + n /\ s.at <= Len(b) + 1

Counting(b, w, r, e, i) == Prefix(b, w) /\ HeadOf(w, r, e) /\ i \in 1 .. e /\ i <= Len(b) + 1

\* One step more.
LEMMA CountsOn ==
  ASSUME NEW b, NEW w, NEW r, NEW e, NEW i, Counting(b, w, r, e, i), NEW n, n \in Nat,
         NEW p, NotPastTheEnd(p, b, r, e, i, n), NEW s, s = NextNewline(b, p)
  PROVE  NotPastTheEnd(s, b, r, e, i, n + 1)
<1>0. /\ Prefix(b, w) /\ Len(b) \in Nat /\ Len(w) \in Nat /\ Len(b) <= Len(w) /\ \A j \in 1 .. Len(b) : b[j] = w[j]
      /\ i \in 1 .. e /\ i <= Len(b) + 1
  BY DEF Counting, Prefix
<1>1. /\ r \in 1 .. Len(w) /\ e \in 1 .. r - 1 /\ w[e] = LF /\ w[r] = LF
      /\ e = r - 1 \/ (e = r - 2 /\ w[r - 1] = CR)
      /\ \A j \in 1 .. r - 1 : w[j] = CR => w[j + 1] = LF
  BY DEF Counting, HeadOf
<1>9. IsCount(p)
  BY DEF NotPastTheEnd
<1>10. IsCount(s)
  <2>1. PICK a, c : p = [at |-> a, seen |-> c]
    BY <1>9 DEF IsCount
  <2>2. PICK x : x = EndOfLine(b, p.at)
    OBVIOUS
  <2>3. s \in {p, [at |-> Partial, seen |-> c], [at |-> x, seen |-> c + 1], [at |-> a + 1, seen |-> 0]}
    BY <2>1, <2>2 DEF NextNewline
  <2> QED BY <1>9, <2>3 DEF IsCount
<1>2. CASE p.at = Partial /\ Len(b) < r
  BY <1>9, <1>2, <1>10 DEF NextNewline, NotPastTheEnd, Partial
<1>3. CASE p.seen = 2 /\ p.at \in 1 .. r + 1
  BY <1>10, <1>3 DEF NextNewline, NotPastTheEnd
<1>4. ASSUME p.seen \in {0, 1}, p.at \in i + n .. e + 1, p.at <= Len(b) + 1, p.at = e + 1 => p.seen = 1
      PROVE  NotPastTheEnd(s, b, r, e, i, n + 1)
  <2>1. PICK a, c, l : a = p.at /\ c = p.seen /\ l = Len(b)
    OBVIOUS
  <2>2. a \in 1 .. e + 1 /\ a \in 1 .. r /\ a >= i + n /\ a <= l + 1 /\ l \in Nat /\ a \in Nat /\ c \in {0, 1} /\ ~ (a < 0) /\ c # 2
    BY <1>0, <1>1, <1>4, <2>1
  <2>3. CASE a = l + 1
    <3>1. s = [p EXCEPT !.at = Partial]
      BY <2>1, <2>2, <2>3 DEF NextNewline, AtEnd
    <3>2. l < r
      BY <1>1, <2>2, <2>3
    <3>3. s.at = Partial
      <4>1. PICK x, y : p = [at |-> x, seen |-> y]
        BY <1>9 DEF IsCount
      <4> QED BY <3>1, <4>1
    <3> QED BY <1>10, <2>1, <3>2, <3>3 DEF NotPastTheEnd
  <2>4. CASE a \in 1 .. l
    <3>1. ~ AtEnd(b, a) /\ b[a] = w[a] /\ On(b, b, a)
      BY <1>0, <2>1, <2>4 DEF AtEnd, On, Prefix
    <3>2. CASE b[a] \in {CR, LF}
      <4>1. s = [at |-> EndOfLine(b, a), seen |-> c + 1]
        BY <2>1, <2>2, <3>1, <3>2 DEF NextNewline
      <4>2. PICK x : x = EndOfLine(b, a)
        OBVIOUS
      <4>3. Alike(b, a + 1, x, x)
        BY <3>1, <4>2, EndOfLineSame
      <4>4. CASE b[a] = LF
        <5>1. x = a + 1
          BY <4>2, <4>4 DEF EndOfLine, CR, LF
        <5>2. s.at = a + 1 /\ s.seen = c + 1
          BY <4>1, <4>2, <5>1
        <5>3. \/ c + 1 = 2 /\ a + 1 \in 1 .. r + 1
              \/ c + 1 = 1 /\ a + 1 \in i + (n + 1) .. e + 1 /\ a + 1 <= l + 1
          <6>1. c = 1 \/ (c = 0 /\ a # e + 1)
            BY <1>4, <2>1, <2>2
          <6>2. r \in Nat /\ i \in Nat /\ e \in Nat /\ e < r
            BY <1>0, <1>1
          <6> QED BY <2>2, <2>4, <6>1, <6>2
        <5>4. \/ c + 1 = 2 /\ a + 1 \in 1 .. r + 1
              \/ c + 1 = 1 /\ a + 1 \in i + (n + 1) .. e /\ a + 1 <= l + 1
              \/ c + 1 = 1 /\ a + 1 = e + 1 /\ a + 1 >= i + (n + 1) /\ a + 1 <= l + 1
          BY <1>0, <1>1, <2>2, <5>3
        <5> QED BY <1>10, <2>1, <5>2, <5>4 DEF NotPastTheEnd
      <4>5. CASE b[a] = CR
        <5>1. a < r /\ w[a] = CR
          <6>1. w[a] = CR
            BY <3>1, <4>5
          <6>2. a # r
            BY <1>1, <6>1 DEF CR, LF
          <6>3. a <= r
            BY <2>2
          <6> QED BY <1>0, <1>1, <2>2, <6>1, <6>2, <6>3
        <5>2. w[a + 1] = LF
          BY <1>1, <2>2, <5>1
        <5>3. x = EXPECT_CHAR(b, a + 1, LF)
          BY <4>2, <4>5 DEF EndOfLine, CR, LF
        <5>4. CASE a + 1 > l
          <6>1. x = Partial
            BY <2>1, <5>3, <5>4 DEF EXPECT_CHAR, AtEnd
          <6>2. l < r
            BY <1>1, <2>2, <2>4, <5>1, <5>4
          <6> QED BY <1>10, <2>1, <4>1, <4>2, <6>1, <6>2 DEF NotPastTheEnd
        <5>5. CASE a + 1 <= l
          <6>1. b[a + 1] = LF
            BY <1>0, <2>1, <2>2, <5>2, <5>5
          <6>2. x = a + 2
            <7>1. ~ (a + 1 > l) /\ (a + 1) + 1 = a + 2
              BY <2>2, <5>5
            <7> QED BY <2>1, <5>3, <6>1, <7>1 DEF EXPECT_CHAR, AtEnd
          <6>3. a # e
            BY <1>1, <5>1 DEF CR, LF
          <6>4. \/ c + 1 = 2 /\ a + 2 \in 1 .. r + 1
                \/ c + 1 = 1 /\ a + 2 \in i + (n + 1) .. e /\ a + 2 <= l + 1
                \/ c + 1 = 1 /\ a + 2 = e + 1 /\ a + 2 >= i + (n + 1) /\ a + 2 <= l + 1
            <7>1. c = 1 \/ (c = 0 /\ a # e + 1)
              BY <1>4, <2>1, <2>2
            <7>2. r \in Nat /\ i \in Nat /\ e \in Nat /\ e < r
              BY <1>0, <1>1
            <7> QED BY <2>2, <5>1, <5>5, <6>3, <7>1, <7>2
          <6>5. s.at = a + 2 /\ s.seen = c + 1
            BY <4>1, <4>2, <6>2
          <6> QED BY <1>10, <2>1, <6>4, <6>5 DEF NotPastTheEnd
        <5> QED BY <2>2, <5>4, <5>5
      <4> QED BY <3>2, <4>4, <4>5
    <3>3. CASE b[a] \notin {CR, LF}
      <4>1. s.at = a + 1 /\ s.seen = 0
        BY <2>1, <2>2, <3>1, <3>3 DEF NextNewline
      <4>2. a # e /\ a # r /\ (e = r - 2 => a # r - 1)
        BY <1>1, <3>1, <3>3
      <4>3. a # e + 1
        BY <1>1, <4>2
      <4>4. a + 1 \in i + (n + 1) .. e /\ a + 1 <= l + 1
        BY <1>0, <1>1, <2>2, <2>4, <4>2, <4>3
      <4> QED BY <1>10, <2>1, <4>1, <4>4 DEF NotPastTheEnd
    <3> QED BY <3>2, <3>3
  <2> QED BY <2>2, <2>3, <2>4
<1>5. CASE p.seen \in {0, 1} /\ p.at \in i + n .. e /\ p.at <= Len(b) + 1
  <2>1. p.at \in i + n .. e + 1 /\ p.at # e + 1
    BY <1>0, <1>1, <1>5
  <2> QED BY <1>4, <1>5, <2>1
<1>6. CASE p.seen = 1 /\ p.at = e + 1 /\ p.at >= i + n /\ p.at <= Len(b) + 1
  <2>1. p.at \in i + n .. e + 1
    BY <1>0, <1>1, <1>6
  <2> QED BY <1>4, <1>6, <2>1
<1> QED BY <1>2, <1>3, <1>5, <1>6 DEF NotPastTheEnd

\* is_complete is never wrong about a head: it says partial only while a byte of
\* it is missing, from wherever before the first of the two line ends it starts.
LEMMA NewlinesSeen ==
  ASSUME NEW b, NEW w, NEW r, NEW e, NEW i, Counting(b, w, r, e, i), NEW x, x = TwoNewlines(b, i)
  PROVE  (x = Partial /\ Len(b) < r) \/ x > 0
<1>0. Len(b) \in Nat /\ i \in 1 .. e /\ i <= Len(b) + 1 /\ r \in Nat /\ e \in Nat
  BY DEF Counting, Prefix, HeadOf
<1>1. PICK k : k \in Nat /\ k = Len(b) + 1
  BY <1>0
<1>2. PICK s : Counts(s, b, i, k, x)
  BY <1>1, NewlineRunIs
<1>3. s[0] = NoneYet(i) /\ s[k].at = x /\ \A n \in 1 .. k : s[n] = NextNewline(b, s[n - 1])
  BY <1>2, Zenon DEF Counts
<1> DEFINE W == {n \in 0 .. k : ~ NotPastTheEnd(s[n], b, r, e, i, n)}
<1>4. ASSUME W # {} PROVE FALSE
  <2>1. PICK n \in W : \A j \in W : n <= j
    <3>1. W \in SUBSET Nat
      BY <1>1
    <3> HIDE DEF W
    <3> QED BY <1>4, <3>1, SmallestNumber
  <2>2. n \in 0 .. k /\ ~ NotPastTheEnd(s[n], b, r, e, i, n)
    BY <2>1
  <2>3. n # 0
    <3>1. NotPastTheEnd(NoneYet(i), b, r, e, i, 0)
      <4>1. i \in i + 0 .. e
        BY <1>0
      <4> QED BY <1>0, <4>1 DEF NotPastTheEnd, NoneYet, IsCount
    <3> QED BY <1>3, <2>2, <3>1
  <2>4. n - 1 \in 0 .. k /\ n - 1 < n /\ n \in 1 .. k /\ n - 1 \in Nat /\ (n - 1) + 1 = n
    BY <1>1, <2>2, <2>3
  <2>5. NotPastTheEnd(s[n - 1], b, r, e, i, n - 1)
    <3>1. n - 1 \notin W
      <4> HIDE DEF W
      <4> QED BY <2>1, <2>2, <2>4
    <3> QED BY <2>4, <3>1
  <2>6. s[n] = NextNewline(b, s[n - 1])
    BY <1>3, <2>4
  <2>7. NotPastTheEnd(s[n], b, r, e, i, (n - 1) + 1)
    BY <2>4, <2>5, <2>6, CountsOn
  <2> QED BY <2>2, <2>4, <2>7
<1>5. k \in 0 .. k /\ k \notin W
  <2>1. k \in 0 .. k
    BY <1>1
  <2> HIDE DEF W
  <2> QED BY <1>4, <2>1
<1>6. NotPastTheEnd(s[k], b, r, e, i, k)
  BY <1>5
<1>7. PICK z : z = s[k]
  OBVIOUS
<1> QED BY <1>0, <1>1, <1>3, <1>6, <1>7 DEF NotPastTheEnd
-----------------------------------------------------------------------------
(* What a head that is parsed looks like.                                  *)

\* Among the bytes from lo to before hi, every CR begins a line end.
NoBareCR(w, lo, hi) ==
  /\ w \in Seq(Nat) /\ lo \in 1 .. hi /\ hi \in 1 .. Len(w) + 1
  /\ \A j \in lo .. hi - 1 : w[j] = CR => j + 1 < hi /\ w[j + 1] = LF

Within(w, i) == w \in Seq(Nat) /\ i \in 1 .. Len(w) + 1

\* Two parts in a row.
LEMMA NoBareCROn ==
  ASSUME NEW w, NEW a, NEW b, NEW c, NoBareCR(w, a, b), NoBareCR(w, b, c)
  PROVE  NoBareCR(w, a, c)
<1>1. /\ w \in Seq(Nat) /\ a \in 1 .. b /\ b \in 1 .. c /\ c \in 1 .. Len(w) + 1 /\ Len(w) \in Nat
      /\ \A j \in a .. b - 1 : w[j] = CR => j + 1 < b /\ w[j + 1] = LF
      /\ \A j \in b .. c - 1 : w[j] = CR => j + 1 < c /\ w[j + 1] = LF
  BY DEF NoBareCR
<1>2. a \in 1 .. c
  BY <1>1
<1>3. ASSUME NEW j \in a .. c - 1, w[j] = CR PROVE j + 1 < c /\ w[j + 1] = LF
  <2>1. j \in a .. b - 1 \/ j \in b .. c - 1
    BY <1>1
  <2> QED BY <1>1, <1>3, <2>1
<1> QED BY <1>1, <1>2, <1>3 DEF NoBareCR

\* A part without any CR.
LEMMA NoCR ==
  ASSUME NEW w, NEW lo, NEW hi, Within(w, lo), Within(w, hi), lo <= hi, \A j \in lo .. hi - 1 : w[j] # CR
  PROVE  NoBareCR(w, lo, hi)
<1>1. w \in Seq(Nat) /\ lo \in 1 .. Len(w) + 1 /\ hi \in 1 .. Len(w) + 1 /\ Len(w) \in Nat
  BY DEF Within
<1>2. lo \in 1 .. hi
  BY <1>1
<1> QED BY <1>1, <1>2 DEF NoBareCR

\* What a search passes over that stops at CR.
LEMMA SearchClean ==
  ASSUME NEW w, NEW i, Within(w, i), NEW S, CR \in S, NEW x, x = Search(w, i, S), ~ (x < 0)
  PROVE  NoBareCR(w, i, x) /\ x \in 1 .. Len(w)
<1>1. At(w, w, i) /\ w \in Seq(Nat) /\ i \in 1 .. Len(w) + 1 /\ Len(w) \in Nat
  BY DEF Within, At, Prefix
<1>2. AlikeOn(w, i, S, x, x) /\ (x # Partial => \A j \in i .. x - 1 : w[j] \notin S)
  BY <1>1, SearchSame
<1>3. x \in i .. Len(w) /\ \A j \in i .. x - 1 : w[j] \notin S
  BY <1>2 DEF AlikeOn, Partial, Failed
<1>4. i <= x /\ x \in 1 .. Len(w) /\ x \in 1 .. Len(w) + 1 /\ \A j \in i .. x - 1 : w[j] # CR
  BY <1>1, <1>3
<1>5. Within(w, x)
  BY <1>1, <1>4 DEF Within
<1> QED BY <1>4, <1>5, NoCR

\* A token or a path.
LEMMA ScanClean ==
  ASSUME NEW w, NEW i, Within(w, i), NEW stop, NEW bad, CR \in bad, NEW x, x = ScanTo(w, i, stop, bad), ~ (x < 0)
  PROVE  NoBareCR(w, i, x) /\ x \in 1 .. Len(w)
<1>1. PICK y, S : y = Search(w, i, S) /\ S = {stop} \cup bad
  OBVIOUS
<1>2. x = y
  BY <1>1 DEF ScanTo, Failed
<1> QED BY <1>1, <1>2, SearchClean

\* A line end that takes x - i bytes.
EndsLine(w, i, x) == w[x - 1] = LF /\ (x = i + 1 \/ (x = i + 2 /\ w[i] = CR))

\* A line end.
LEMMA EolClean ==
  ASSUME NEW w, w \in Seq(Nat), NEW i, i \in 1 .. Len(w), NEW x, x = EndOfLine(w, i), ~ (x < 0)
  PROVE  NoBareCR(w, i, x) /\ EndsLine(w, i, x) /\ x \in i + 1 .. Len(w) + 1
<1>0. PICK l : l = Len(w) /\ l \in Nat
  OBVIOUS
<1>1. CASE w[i] = CR
  <2>1. x = EXPECT_CHAR(w, i + 1, LF)
    BY <1>1 DEF EndOfLine, CR, LF
  <2>2. ~ AtEnd(w, i + 1) /\ w[i + 1] = LF /\ x = (i + 1) + 1
    BY <2>1 DEF EXPECT_CHAR, Partial, Failed
  <2>3. i \in 1 .. l /\ i + 1 <= l /\ x = i + 2
    BY <1>0, <2>2 DEF AtEnd
  <2>4. i \in 1 .. x /\ x \in 1 .. l + 1 /\ x - 1 = i + 1 /\ x \in i + 1 .. l + 1 /\ i + 1 < x
    BY <1>0, <2>3
  <2>5. \A j \in i .. x - 1 : w[j] = CR => j + 1 < x /\ w[j + 1] = LF
    <3>1. \A j \in i .. x - 1 : j = i \/ j = i + 1
      BY <1>0, <2>3
    <3> QED BY <2>2, <2>4, <3>1 DEF CR, LF
  <2> QED BY <1>0, <1>1, <2>2, <2>3, <2>4, <2>5 DEF NoBareCR, EndsLine
<1>2. CASE w[i] # CR
  <2>1. w[i] = LF /\ x = i + 1
    BY <1>2 DEF EndOfLine, CR, LF, Failed
  <2>2. i \in 1 .. x /\ x \in 1 .. l + 1 /\ x - 1 = i /\ x \in i + 1 .. l + 1 /\ \A j \in i .. x - 1 : j = i
    BY <1>0, <2>1
  <2> QED BY <1>0, <1>2, <2>1, <2>2 DEF NoBareCR, EndsLine
<1> QED BY <1>1, <1>2

\* A line from i to before x, its end included.
IsLine(w, i, x) == NoBareCR(w, i, x) /\ i < x /\ w[x - 1] = LF

\* The rest of a line.
LEMMA LineClean ==
  ASSUME NEW w, NEW i, Within(w, i), NEW l, l = get_token_to_eol(w, i), ~ (l.buf < 0)
  PROVE  IsLine(w, i, l.buf)
<1>0. w \in Seq(Nat) /\ i \in 1 .. Len(w) + 1 /\ Len(w) \in Nat
  BY DEF Within
<1>1. PICK e, x : e = l.end /\ x = l.buf
  OBVIOUS
<1>2. PICK S : S = Controls \ {HT}
  OBVIOUS
<1>3. e = Search(w, i, S) /\ x = (IF e < 0 THEN e ELSE EndOfLine(w, e))
  BY <1>1, <1>2 DEF get_token_to_eol, Then
<1>4. ~ (e < 0) /\ x = EndOfLine(w, e) /\ ~ (x < 0)
  BY <1>1, <1>3
<1>5. CR \in S
  BY <1>2 DEF Controls, HT, CR
<1>6. NoBareCR(w, i, e) /\ e \in 1 .. Len(w)
  BY <1>3, <1>4, <1>5, SearchClean
<1>7. NoBareCR(w, e, x) /\ EndsLine(w, e, x) /\ x \in e + 1 .. Len(w) + 1
  BY <1>0, <1>4, <1>6, EolClean
<1>8. NoBareCR(w, i, x)
  BY <1>6, <1>7, NoBareCROn, Zenon
<1>9. i < x /\ w[x - 1] = LF
  BY <1>0, <1>6, <1>7 DEF NoBareCR, EndsLine
<1> QED BY <1>1, <1>8, <1>9 DEF IsLine

\* What a line that starts at i gives: a header, or the end of the block.
GivesHeader(w, i, x) == x.more /\ x.headers # <<>> /\ IsLine(w, i, x.buf)
GivesTheEnd(w, i, hs, x) == ~ x.more /\ x.headers = hs /\ NoBareCR(w, i, x.buf) /\ EndsLine(w, i, x.buf)

\* A value.
LEMMA ValueClean ==
  ASSUME NEW w, NEW i, NEW v, v < 0 \/ NoBareCR(w, i, v), NEW hs, NEW name,
         NEW x, x = HeaderValue(w, hs, name, v), ~ (x.buf < 0)
  PROVE  GivesHeader(w, i, x)
<1>1. ~ (v < 0)
  BY DEF HeaderValue, Headers
<1>2. PICK l : l = get_token_to_eol(w, v)
  OBVIOUS
<1>3. x = HeaderLine(w, hs, name, v, l)
  BY <1>1, <1>2 DEF HeaderValue
<1>4. ~ (l.buf < 0)
  BY <1>3 DEF HeaderLine, Headers
<1>5. PICK h, s : h = [name |-> name, value |-> s] /\ x = [buf |-> l.buf, more |-> TRUE, headers |-> Append(hs, h)]
  BY <1>3, <1>4 DEF HeaderLine
<1>6. x.more /\ x.buf = l.buf /\ x.headers = Append(hs, h)
  BY <1>5
<1>7. Append(hs, h) # <<>>
  OBVIOUS
<1>8. Within(w, v)
  BY <1>1 DEF NoBareCR, Within
<1>9. IsLine(w, v, l.buf)
  BY <1>2, <1>4, <1>8, LineClean
<1>10. NoBareCR(w, i, l.buf)
  BY <1>1, <1>9, NoBareCROn, Zenon DEF IsLine
<1>11. i < l.buf
  <2>1. i \in 1 .. v /\ v \in 1 .. Len(w) + 1 /\ v \in 1 .. l.buf /\ l.buf \in 1 .. Len(w) + 1 /\ Len(w) \in Nat
    BY <1>1, <1>9 DEF NoBareCR, IsLine
  <2>2. v < l.buf
    BY <1>9 DEF IsLine
  <2> QED BY <2>1, <2>2
<1> QED BY <1>6, <1>7, <1>9, <1>10, <1>11 DEF GivesHeader, IsLine

\* A name and a value.
LEMMA NameClean ==
  ASSUME NEW w, NEW i, Within(w, i), NEW c, c = parse_token(w, i, COLON), NEW hs,
         NEW x, x = HeaderName(w, i, hs, c), ~ (x.buf < 0)
  PROVE  GivesHeader(w, i, x)
<1>1. PICK v, name : v = ValueStart(w, i, c) /\ name = SubSeq(w, i, c - 1)
  OBVIOUS
<1>2. x = HeaderValue(w, hs, name, v)
  BY <1>1 DEF HeaderName
<1>3. ASSUME ~ (v < 0) PROVE NoBareCR(w, i, v)
  <2>1. PICK S, bad : S = OtherThan(Blanks) /\ bad = OtherThan(TokenChars)
    OBVIOUS
  <2>2. ~ (c < 0) /\ v = Search(w, c + 1, S)
    BY <1>1, <1>3, <2>1 DEF ValueStart, Failed
  <2>3. CR \in S /\ CR \in bad
    BY <2>1 DEF OtherThan, Blanks, TokenChars, CR, HT, SP
  <2>4. c = ScanTo(w, i, COLON, bad)
    BY <2>1 DEF parse_token
  <2>5. NoBareCR(w, i, c) /\ c \in 1 .. Len(w)
    BY <2>2, <2>3, <2>4, ScanClean
  <2>6. w[c] = COLON
    BY <2>2, <2>4 DEF ScanTo, Failed
  <2>7. w \in Seq(Nat) /\ Len(w) \in Nat
    BY DEF Within
  <2>8. Within(w, c) /\ Within(w, c + 1) /\ c <= c + 1
    BY <2>5, <2>7 DEF Within
  <2>9. \A j \in c .. (c + 1) - 1 : w[j] # CR
    <3>1. \A j \in c .. (c + 1) - 1 : j = c
      BY <2>5, <2>7
    <3> QED BY <2>6, <3>1 DEF COLON, CR
  <2>10. NoBareCR(w, c, c + 1)
    BY <2>8, <2>9, NoCR
  <2>11. NoBareCR(w, c + 1, v)
    BY <1>3, <2>2, <2>3, <2>8, SearchClean
  <2>12. NoBareCR(w, i, c + 1)
    BY <2>5, <2>10, NoBareCROn, Zenon
  <2> QED BY <2>11, <2>12, NoBareCROn, Zenon
<1> QED BY <1>2, <1>3, ValueClean

\* A line of the block.
LEMMA HeaderClean ==
  ASSUME NEW w, NEW m, NEW h, h.more, Within(w, h.buf), NEW x, x = NextHeader(w, m, h), ~ (x.buf < 0)
  PROVE  GivesHeader(w, h.buf, x) \/ GivesTheEnd(w, h.buf, h.headers, x)
<1>0. PICK i, hs : i = h.buf /\ hs = h.headers
  OBVIOUS
<1>1. Within(w, i) /\ w \in Seq(Nat) /\ Len(w) \in Nat /\ i \in 1 .. Len(w) + 1
  BY <1>0 DEF Within
<1>2. CASE AtEnd(w, i)
  <2>1. x = Headers(Partial, hs)
    BY <1>0, <1>2 DEF NextHeader
  <2> QED BY <2>1 DEF Headers, Partial
<1>3. CASE ~ AtEnd(w, i) /\ w[i] \in {CR, LF}
  <2>1. x = Headers(EndOfLine(w, i), hs)
    BY <1>0, <1>3 DEF NextHeader
  <2>2. x.buf = EndOfLine(w, i) /\ ~ x.more /\ x.headers = hs
    BY <2>1 DEF Headers
  <2>3. i \in 1 .. Len(w)
    BY <1>1, <1>3 DEF AtEnd
  <2>4. NoBareCR(w, i, x.buf) /\ EndsLine(w, i, x.buf)
    BY <1>1, <2>2, <2>3, EolClean
  <2> QED BY <1>0, <2>2, <2>4 DEF GivesTheEnd
<1>4. CASE ~ AtEnd(w, i) /\ w[i] \notin {CR, LF}
  <2>1. PICK c : c = parse_token(w, i, COLON)
    OBVIOUS
  <2>2. \/ x = Headers(Failed, hs)
        \/ x = HeaderValue(w, hs, <<>>, i)
        \/ x = HeaderName(w, i, hs, c)
    BY <1>0, <1>4, <2>1 DEF NextHeader
  <2>3. CASE x = Headers(Failed, hs)
    BY <2>3 DEF Headers, Failed
  <2>4. CASE x = HeaderValue(w, hs, <<>>, i)
    <3>1. NoBareCR(w, i, i)
      BY <1>1 DEF NoBareCR
    <3> QED BY <1>0, <2>4, <3>1, ValueClean
  <2>5. CASE x = HeaderName(w, i, hs, c)
    BY <1>0, <1>1, <2>1, <2>5, NameClean
  <2> QED BY <2>2, <2>3, <2>4, <2>5
<1> QED BY <1>2, <1>3, <1>4
-----------------------------------------------------------------------------
\* A block of headers from i to before x, the empty line included, and what
\* comes before that line.
EndsBlock(w, i, hs, x) ==
  /\ NoBareCR(w, i, x)
  /\ \E e \in i - 1 .. x - 2 :
       /\ IF e < i THEN hs = <<>> ELSE w[e] = LF
       /\ EndsLine(w, e + 1, x)

\* After n lines from i on.
LinesClean(w, i, n, x) ==
  \/ ~ x.more /\ x.buf < 0
  \/ ~ x.more /\ ~ (x.buf < 0) /\ EndsBlock(w, i, x.headers, x.buf)
  \/ /\ x.more /\ NoBareCR(w, i, x.buf) /\ x.buf >= i + 2 * n
     /\ IF x.buf = i THEN x.headers = <<>> ELSE w[x.buf - 1] = LF

\* One line more.
LEMMA NextClean ==
  ASSUME NEW w, NEW i, NEW m, NEW n, n \in Nat, NEW p, LinesClean(w, i, n, p), NEW x, x = NextHeader(w, m, p)
  PROVE  LinesClean(w, i, n + 1, x)
<1>1. CASE ~ p.more
  <2>1. x = p
    BY <1>1 DEF NextHeader
  <2> QED BY <1>1, <2>1 DEF LinesClean
<1>2. CASE p.more
  <2>1. PICK a : a = p.buf
    OBVIOUS
  <2>2. /\ NoBareCR(w, i, a) /\ a >= i + 2 * n
        /\ IF a = i THEN p.headers = <<>> ELSE w[a - 1] = LF
    BY <1>2, <2>1 DEF LinesClean
  <2>3. /\ w \in Seq(Nat) /\ Len(w) \in Nat /\ a \in 1 .. Len(w) + 1 /\ i \in 1 .. a /\ Within(w, a)
    BY <2>2 DEF NoBareCR, Within
  <2>4. At(w, w, a)
    BY <2>3 DEF At, Prefix
  <2>5. AlikeHeader(w, a + 2, x, x)
    BY <1>2, <2>1, <2>4, NextHeaderSame
  <2>6. CASE x.buf < 0
    <3>1. ~ x.more
      BY <2>3, <2>5, <2>6 DEF AlikeHeader
    <3> QED BY <2>6, <3>1 DEF LinesClean
  <2>7. CASE ~ (x.buf < 0) /\ GivesHeader(w, a, x)
    <3>1. PICK z : z = x.buf
      OBVIOUS
    <3>2. x.more /\ NoBareCR(w, a, z) /\ a < z /\ w[z - 1] = LF
      BY <2>7, <3>1 DEF GivesHeader, IsLine
    <3>3. z \in a + 2 .. Len(w) + 1
      BY <2>5, <2>7, <3>1, <3>2 DEF AlikeHeader, Partial, Failed
    <3>4. NoBareCR(w, i, z)
      BY <2>2, <3>2, NoBareCROn, Zenon
    <3>5. z >= i + 2 * (n + 1) /\ z # i
      BY <2>2, <2>3, <3>3
    <3> QED BY <3>1, <3>2, <3>4, <3>5 DEF LinesClean
  <2>8. CASE ~ (x.buf < 0) /\ GivesTheEnd(w, a, p.headers, x)
    <3>1. PICK z : z = x.buf
      OBVIOUS
    <3>2. ~ x.more /\ x.headers = p.headers /\ NoBareCR(w, a, z) /\ EndsLine(w, a, z)
      BY <2>8, <3>1 DEF GivesTheEnd
    <3>3. NoBareCR(w, i, z)
      BY <2>2, <3>2, NoBareCROn, Zenon
    <3>4. PICK e : e = a - 1
      OBVIOUS
    <3>5. e \in i - 1 .. z - 2 /\ e + 1 = a /\ (e < i <=> a = i)
      BY <2>3, <3>2, <3>4 DEF EndsLine
    <3>6. IF e < i THEN x.headers = <<>> ELSE w[e] = LF
      BY <2>2, <3>2, <3>4, <3>5
    <3>7. EndsBlock(w, i, x.headers, z)
      BY <3>2, <3>3, <3>5, <3>6 DEF EndsBlock
    <3> QED BY <2>8, <3>1, <3>2, <3>7 DEF LinesClean
  <2> QED BY <1>2, <2>1, <2>3, <2>6, <2>7, <2>8, HeaderClean
<1> QED BY <1>1, <1>2

\* A whole block.
LEMMA HeadersClean ==
  ASSUME NEW w, NEW i, Within(w, i), NEW m, NEW x, x = parse_headers(w, i, m), ~ (x.buf < 0)
  PROVE  EndsBlock(w, i, x.headers, x.buf)
<1>0. w \in Seq(Nat) /\ i \in 1 .. Len(w) + 1 /\ Len(w) \in Nat
  BY DEF Within
<1>1. PICK k : k = Len(w) \div 2 + 1
  OBVIOUS
<1>2. k \in Nat /\ 2 * k >= Len(w) + 1
  <2>1. PICK p : p = Len(w)
    OBVIOUS
  <2>2. p \in Nat
    BY <1>0, <2>1
  <2>3. p \div 2 \in Nat /\ p <= 2 * (p \div 2) + 1
    BY <2>2
  <2> QED BY <1>1, <2>1, <2>2, <2>3
<1>3. PICK g : g[0] = FirstLine(i) /\ g[k] = x /\ \A n \in 1 .. k : g[n] = NextHeader(w, m, g[n - 1])
  <2>1. \E g : RunsThrough(g, w, i, m, k, x)
    BY <1>1, <1>2, HeaderRunIs
  <2> QED BY <2>1, Zenon DEF RunsThrough
<1> DEFINE W == {n \in 0 .. k : ~ LinesClean(w, i, n, g[n])}
<1>5. ASSUME W # {} PROVE FALSE
  <2>1. PICK n \in W : \A j \in W : n <= j
    <3>1. W \in SUBSET Nat
      OBVIOUS
    <3> HIDE DEF W
    <3> QED BY <1>5, <3>1, SmallestNumber
  <2>2. n \in 0 .. k /\ ~ LinesClean(w, i, n, g[n])
    BY <2>1
  <2>3. n # 0
    <3>1. PICK z : z = FirstLine(i)
      OBVIOUS
    <3>2. z.buf = i /\ z.more /\ z.headers = <<>>
      BY <3>1 DEF Headers, FirstLine
    <3>3. NoBareCR(w, i, i) /\ i >= i + 2 * 0
      BY <1>0 DEF NoBareCR
    <3>4. LinesClean(w, i, 0, z)
      BY <3>2, <3>3 DEF LinesClean
    <3> QED BY <1>3, <2>2, <3>1, <3>4
  <2>4. n - 1 \in 0 .. k /\ n - 1 < n /\ n \in 1 .. k /\ n - 1 \in Nat /\ (n - 1) + 1 = n
    BY <1>2, <2>2, <2>3
  <2>5. LinesClean(w, i, n - 1, g[n - 1])
    <3>1. n - 1 \notin W
      <4> HIDE DEF W
      <4> QED BY <2>1, <2>2, <2>4
    <3> QED BY <2>4, <3>1
  <2>6. g[n] = NextHeader(w, m, g[n - 1])
    BY <1>3, <2>4
  <2>7. LinesClean(w, i, (n - 1) + 1, g[n])
    BY <2>4, <2>5, <2>6, NextClean
  <2> QED BY <2>2, <2>4, <2>7
<1>6. LinesClean(w, i, k, x)
  <2>1. k \in 0 .. k /\ k \notin W
    <3>1. k \in 0 .. k
      BY <1>2
    <3> HIDE DEF W
    <3> QED BY <1>5, <3>1
  <2> QED BY <1>3, <2>1
<1>7. ~ (NoBareCR(w, i, x.buf) /\ x.buf >= i + 2 * k)
  <2>1. PICK z : z = x.buf
    OBVIOUS
  <2>2. ASSUME z \in 1 .. Len(w) + 1 PROVE ~ (z >= i + 2 * k)
    BY <1>0, <1>2, <2>2
  <2> QED BY <2>1, <2>2 DEF NoBareCR
<1> QED BY <1>6, <1>7 DEF LinesClean

\* After a first line, or with a header at least, the block ends a head.
LEMMA BlockIsHead ==
  ASSUME NEW w, NEW i, NoBareCR(w, 1, i), NEW hs, NEW x, EndsBlock(w, i, hs, x),
         IF i = 1 THEN hs # <<>> ELSE w[i - 1] = LF
  PROVE  \E e : HeadOf(w, x - 1, e)
<1>0. PICK l : l = Len(w)
  OBVIOUS
<1>1. NoBareCR(w, i, x)
  BY DEF EndsBlock
<1>2. NoBareCR(w, 1, x)
  BY <1>1, NoBareCROn, Zenon
<1>3. /\ w \in Seq(Nat) /\ l \in Nat /\ i \in 1 .. x /\ x \in 1 .. l + 1
      /\ \A j \in 1 .. x - 1 : w[j] = CR => j + 1 < x /\ w[j + 1] = LF
  BY <1>0, <1>1, <1>2 DEF NoBareCR
<1>4. PICK e : e \in i - 1 .. x - 2 /\ (IF e < i THEN hs = <<>> ELSE w[e] = LF) /\ EndsLine(w, e + 1, x)
  BY DEF EndsBlock
<1>5. e >= 1 /\ w[e] = LF
  <2>1. CASE e < i
    <3>1. e = i - 1 /\ i # 1
      BY <1>3, <1>4, <2>1
    <3> QED BY <1>3, <3>1
  <2>2. CASE ~ (e < i)
    BY <1>3, <1>4, <2>2
  <2> QED BY <2>1, <2>2
<1>6. w[x - 1] = LF /\ (x = (e + 1) + 1 \/ (x = (e + 1) + 2 /\ w[e + 1] = CR))
  BY <1>4 DEF EndsLine
<1>7. PICK r : r = x - 1
  OBVIOUS
<1>8. r \in 1 .. l /\ e \in 1 .. r - 1 /\ w[r] = LF /\ (e = r - 1 \/ (e = r - 2 /\ e + 1 = r - 1))
  BY <1>3, <1>4, <1>5, <1>6, <1>7
<1>9. e = r - 1 \/ (e = r - 2 /\ w[r - 1] = CR)
  <2>1. e \in Int /\ r \in Int /\ x \in Int
    BY <1>3, <1>4, <1>7
  <2>2. CASE x = (e + 1) + 1
    BY <1>7, <2>1, <2>2
  <2>3. CASE x = (e + 1) + 2 /\ w[e + 1] = CR
    <3>1. e = r - 2 /\ e + 1 = r - 1
      BY <1>7, <2>1, <2>3
    <3> QED BY <2>3, <3>1
  <2> QED BY <1>6, <2>2, <2>3
<1>10. \A j \in 1 .. r - 1 : w[j] = CR => w[j + 1] = LF
  BY <1>3, <1>7
<1> QED BY <1>0, <1>5, <1>7, <1>8, <1>9, <1>10 DEF HeadOf

\* A parse that succeeds after its first line.
LEMMA WithClean ==
  ASSUME NEW w, NEW i, i < 0 \/ IsLine(w, 1, i), NEW m, NEW f, NEW s,
         NEW x, x = WithHeaders(w, i, m, f, s), ~ (x.ret < 0)
  PROVE  \E e : HeadOf(w, x.ret, e)
<1>1. ~ (i < 0)
  BY DEF WithHeaders, NotParsed, Parsed
<1>2. PICK h : h = parse_headers(w, i, m)
  OBVIOUS
<1>3. x = AfterHeaders(h, f, s)
  BY <1>1, <1>2 DEF WithHeaders
<1>4. ~ (h.buf < 0) /\ x.ret = h.buf - 1
  BY <1>3 DEF AfterHeaders, NotParsed, Parsed
<1>5. NoBareCR(w, 1, i) /\ 1 < i /\ w[i - 1] = LF
  BY <1>1 DEF IsLine
<1>6. Within(w, i)
  BY <1>5 DEF NoBareCR, Within
<1>7. EndsBlock(w, i, h.headers, h.buf)
  BY <1>2, <1>4, <1>6, HeadersClean
<1>8. IF i = 1 THEN h.headers # <<>> ELSE w[i - 1] = LF
  BY <1>5
<1>9. \E e : HeadOf(w, h.buf - 1, e)
  BY <1>5, <1>7, <1>8, BlockIsHead
<1> QED BY <1>4, <1>9

\* The version.
LEMMA VersionClean ==
  ASSUME NEW w, NEW i, Within(w, i), NEW x, x = parse_http_version(w, i), ~ (x < 0)
  PROVE  NoBareCR(w, i, x) /\ x \in 1 .. Len(w)
<1>0. w \in Seq(Nat) /\ Len(w) \in Nat /\ i \in 1 .. Len(w) + 1
  BY DEF Within
<1>1. ~ (Len(w) - i + 1 < 9) /\ x = i + 8 /\ w[i + 7] \in Digits /\ SubSeq(w, i, i + 6) = <<72, 84, 84, 80, SLASH, 49, DOT>>
  BY DEF parse_http_version, Partial, Failed
<1>2. i \in Nat /\ i + 8 <= Len(w) /\ x \in 1 .. Len(w)
  BY <1>0, <1>1
<1>3. ASSUME NEW j \in i .. x - 1 PROVE w[j] # CR
  <2>1. CASE j = i + 7
    <3>1. w[j] \in Digits
      BY <1>1, <2>1
    <3> QED BY <3>1 DEF Digits, CR
  <2>2. CASE j # i + 7
    <3>1. PICK k : k = j - i + 1 /\ k \in 1 .. 7 /\ j = i + k - 1
      BY <1>1, <1>2, <1>3, <2>2
    <3>2. SubSeq(w, i, i + 6)[k] = w[i + k - 1]
      <4>1. i \in 1 .. Len(w) + 1 /\ i + 6 \in i - 1 .. Len(w) /\ (i + 6) - i + 1 = 7
        BY <1>0, <1>2
      <4>2. i \in Int /\ i + 6 \in Int /\ \A q \in i .. i + 6 : w[q] \in Nat
        BY <1>0, <1>2
      <4>3. \A q \in 1 .. (i + 6) - i + 1 : SubSeq(w, i, i + 6)[q] = w[i + q - 1]
        BY <4>2, SubSeqProperties
      <4> QED BY <3>1, <4>1, <4>3
    <3>3. <<72, 84, 84, 80, SLASH, 49, DOT>>[k] # CR
      BY <3>1 DEF SLASH, DOT, CR
    <3> QED BY <1>1, <3>1, <3>2, <3>3
  <2> QED BY <2>1, <2>2
<1>4. Within(w, x) /\ i <= x
  BY <1>0, <1>1, <1>2 DEF Within
<1> QED BY <1>2, <1>3, <1>4, NoCR

\* The first line of a request.
LEMMA RequestLineClean ==
  ASSUME NEW w, w \in Seq(Nat), NEW e, e = PathEnd(w), NEW x, x = VersionLine(w, e), ~ (e < 0), ~ (x < 0)
  PROVE  IsLine(w, 1, x)
<1>0. Len(w) \in Nat /\ Within(w, 1) /\ NoBareCR(w, 1, 1)
  BY DEF Within, NoBareCR
<1>1. PICK s, me, p, sp, v :
        s = RequestStart(w) /\ me = MethodEnd(w) /\ p = PathStart(w) /\ sp = Search(w, e, OtherThan({SP}))
        /\ v = parse_http_version(w, sp)
  OBVIOUS
<1>2. me = (IF s < 0 THEN s ELSE ScanTo(w, s, SP, OtherThan(TokenChars)))
  BY <1>1 DEF MethodEnd, Then, parse_token
<1>3. p = (IF me < 0 THEN me ELSE Search(w, me, OtherThan({SP})))
  BY <1>1 DEF PathStart, Then, SkipSpaces
<1>4. e = (IF p < 0 THEN p ELSE ScanTo(w, p, SP, Controls))
  BY <1>1 DEF PathEnd, Then, ADVANCE_TOKEN
<1>5. ~ (p < 0) /\ ~ (me < 0) /\ ~ (s < 0)
  BY <1>2, <1>3, <1>4
<1>6. ~ (sp < 0) /\ ~ (v < 0) /\ x = EndOfLine(w, v)
  <2>1. PICK u : u = (IF sp < 0 THEN sp ELSE IF me = s THEN Failed ELSE v)
    OBVIOUS
  <2>2. x = IF u < 0 THEN u ELSE EndOfLine(w, u)
    BY <1>1, <2>1 DEF VersionLine, Then, SkipSpaces
  <2> QED BY <2>1, <2>2 DEF Failed
<1>7. CR \in OtherThan(TokenChars) /\ CR \in OtherThan({SP}) /\ CR \in Controls
  BY DEF OtherThan, TokenChars, Controls, CR, SP
<1>8. NoBareCR(w, 1, s)
  <2>1. CASE s = 1
    BY <1>0, <2>1
  <2>2. CASE s # 1
    <3>1. w # <<>> /\ s = EndOfLine(w, 1)
      BY <1>1, <1>5, <2>2 DEF RequestStart, Partial
    <3>2. 1 \in 1 .. Len(w)
      BY <3>1
    <3> QED BY <1>5, <3>1, <3>2, EolClean
  <2> QED BY <2>1, <2>2
<1>9. NoBareCR(w, s, me)
  <2>1. Within(w, s)
    BY <1>8 DEF NoBareCR, Within
  <2> QED BY <1>2, <1>5, <1>7, <2>1, ScanClean
<1>10. NoBareCR(w, me, p)
  <2>1. Within(w, me)
    BY <1>9 DEF NoBareCR, Within
  <2> QED BY <1>3, <1>5, <1>7, <2>1, SearchClean
<1>11. NoBareCR(w, p, e)
  <2>1. Within(w, p)
    BY <1>10 DEF NoBareCR, Within
  <2> QED BY <1>4, <1>5, <1>7, <2>1, ScanClean
<1>12. NoBareCR(w, e, sp)
  <2>1. Within(w, e)
    BY <1>11 DEF NoBareCR, Within
  <2> QED BY <1>1, <1>6, <1>7, <2>1, SearchClean
<1>13. NoBareCR(w, sp, v) /\ v \in 1 .. Len(w)
  <2>1. Within(w, sp)
    BY <1>12 DEF NoBareCR, Within
  <2> QED BY <1>1, <1>6, <2>1, VersionClean
<1>14. NoBareCR(w, v, x) /\ EndsLine(w, v, x) /\ x \in v + 1 .. Len(w) + 1
  BY <1>6, <1>13, EolClean
<1>15. NoBareCR(w, 1, me)
  BY <1>8, <1>9, NoBareCROn, Zenon
<1>16. NoBareCR(w, 1, p)
  BY <1>10, <1>15, NoBareCROn, Zenon
<1>17. NoBareCR(w, 1, e)
  BY <1>11, <1>16, NoBareCROn, Zenon
<1>18. NoBareCR(w, 1, sp)
  BY <1>12, <1>17, NoBareCROn, Zenon
<1>19. NoBareCR(w, 1, v)
  BY <1>13, <1>18, NoBareCROn, Zenon
<1>20. NoBareCR(w, 1, x)
  BY <1>14, <1>19, NoBareCROn, Zenon
<1>21. 1 < x /\ w[x - 1] = LF
  BY <1>0, <1>13, <1>14 DEF EndsLine
<1> QED BY <1>20, <1>21 DEF IsLine

\* A request that is parsed is a head.
LEMMA RequestClean ==
  ASSUME NEW w, w \in Seq(Nat), NEW m, NEW x, x = parse_request(w, m), ~ (x.ret < 0)
  PROVE  \E e : HeadOf(w, x.ret, e)
<1>1. PICK e : e = PathEnd(w)
  OBVIOUS
<1>2. PICK i : i = (IF e < 0 THEN e ELSE VersionLine(w, e))
  OBVIOUS
<1>3. PICK f, s : x = WithHeaders(w, i, m, f, s)
  <2>1. x = AfterPath(w, m, e)
    BY <1>1 DEF parse_request, PathEnd
  <2>2. Then(e, LAMBDA j : VersionLine(w, j)) = i
    BY <1>2 DEF Then
  <2> QED BY <2>1, <2>2 DEF AfterPath
<1>4. i < 0 \/ IsLine(w, 1, i)
  BY <1>1, <1>2, RequestLineClean
<1> QED BY <1>3, <1>4, WithClean

\* The first line of a response.
LEMMA StatusLineClean ==
  ASSUME NEW w, w \in Seq(Nat), NEW s, s = StatusStart(w), NEW d, d = StatusEnd(w, s), ~ (d < 0),
         NEW l, l = get_token_to_eol(w, d), ~ (l.buf < 0)
  PROVE  IsLine(w, 1, l.buf)
<1>0. Len(w) \in Nat /\ Within(w, 1)
  BY DEF Within
<1>1. PICK v : v = parse_http_version(w, 1)
  OBVIOUS
<1>2. s = (IF v < 0 THEN v ELSE IF w[v] # SP THEN Failed ELSE Search(w, v, OtherThan({SP})))
  BY <1>1 DEF StatusStart, Then, SkipSpaces
<1>3. d = (IF s < 0 THEN s ELSE IF Len(w) - s + 1 < 4 THEN Partial
           ELSE IF \A j \in s .. s + 2 : w[j] \in Digits THEN s + 3 ELSE Failed)
  BY DEF StatusEnd, Then
<1>4. ~ (s < 0) /\ ~ (Len(w) - s + 1 < 4) /\ d = s + 3 /\ \A j \in s .. s + 2 : w[j] \in Digits
  BY <1>3 DEF Partial, Failed
<1>5. ~ (v < 0) /\ s = Search(w, v, OtherThan({SP}))
  BY <1>2, <1>4 DEF Failed
<1>6. NoBareCR(w, 1, v) /\ v \in 1 .. Len(w)
  BY <1>0, <1>1, <1>5, VersionClean
<1>7. NoBareCR(w, v, s) /\ s \in 1 .. Len(w)
  <2>1. Within(w, v) /\ CR \in OtherThan({SP})
    BY <1>6 DEF NoBareCR, Within, OtherThan, CR, SP
  <2> QED BY <1>4, <1>5, <2>1, SearchClean
<1>8. NoBareCR(w, s, d) /\ Within(w, d)
  <2>1. Within(w, s) /\ Within(w, d) /\ s <= d
    <3>1. PICK k : k = Len(w)
      OBVIOUS
    <3>2. k \in Nat /\ s \in 1 .. k /\ ~ (k - s + 1 < 4) /\ d = s + 3
      BY <1>0, <1>4, <1>7, <3>1
    <3>3. s \in 1 .. k + 1 /\ d \in 1 .. k + 1 /\ s <= d
      BY <3>2
    <3> QED BY <3>1, <3>3 DEF Within
  <2>2. \A j \in s .. d - 1 : j \in s .. s + 2
    BY <1>4, <1>7
  <2>3. \A j \in s .. d - 1 : w[j] # CR
    <3>1. \A j \in s .. d - 1 : w[j] \in Digits
      BY <1>4, <2>2
    <3> QED BY <3>1 DEF Digits, CR
  <2> QED BY <2>1, <2>3, NoCR
<1>9. IsLine(w, d, l.buf)
  BY <1>8, LineClean
<1>10. NoBareCR(w, 1, s)
  BY <1>6, <1>7, NoBareCROn, Zenon
<1>11. NoBareCR(w, 1, d)
  BY <1>8, <1>10, NoBareCROn, Zenon
<1>12. NoBareCR(w, 1, l.buf)
  BY <1>9, <1>11, NoBareCROn, Zenon DEF IsLine
<1>13. 1 < l.buf /\ w[l.buf - 1] = LF
  <2>1. d \in 1 .. l.buf /\ l.buf \in 1 .. Len(w) + 1 /\ d < l.buf /\ w[l.buf - 1] = LF
    BY <1>9 DEF IsLine, NoBareCR
  <2> QED BY <1>0, <2>1
<1> QED BY <1>12, <1>13 DEF IsLine

\* A response that is parsed is a head.
LEMMA ResponseClean ==
  ASSUME NEW w, w \in Seq(Nat), NEW m, NEW x, x = parse_response(w, m), ~ (x.ret < 0)
  PROVE  \E e : HeadOf(w, x.ret, e)
<1>1. PICK s, d, l : s = StatusStart(w) /\ d = StatusEnd(w, s) /\ l = get_token_to_eol(w, d)
  OBVIOUS
<1>2. x = AfterStatus(w, m, s, d)
  BY <1>1 DEF parse_response, StatusAt, StatusStart, StatusEnd
<1>3. ~ (d < 0)
  BY <1>2 DEF AfterStatus, NotParsed, Parsed
<1>4. PICK status, text : x = Message(w, m, status, l.buf, text)
  BY <1>1, <1>2, <1>3 DEF AfterStatus
<1>5. ~ (l.buf < 0)
  BY <1>4 DEF Message, NotParsed, Parsed
<1>6. PICK f, t : x = WithHeaders(w, l.buf, m, f, t)
  BY <1>4, <1>5 DEF Message, NotParsed, Parsed, Failed
<1>7. IsLine(w, 1, l.buf)
  BY <1>1, <1>3, <1>5, StatusLineClean
<1> QED BY <1>6, <1>7, WithClean

\* A block of headers that is parsed is a head if it has one.
LEMMA HeadersAlone ==
  ASSUME NEW w, w \in Seq(Nat), NEW m, NEW x, x = WithHeaders(w, 1, m, <<>>, <<>>), ~ (x.ret < 0), x.headers # <<>>
  PROVE  \E e : HeadOf(w, x.ret, e)
<1>1. PICK h : h = parse_headers(w, 1, m)
  OBVIOUS
<1>2. x = AfterHeaders(h, <<>>, <<>>)
  BY <1>1 DEF WithHeaders
<1>3. ~ (h.buf < 0) /\ x.ret = h.buf - 1 /\ x.headers = h.headers
  BY <1>2 DEF AfterHeaders, NotParsed, Parsed
<1>4. Within(w, 1) /\ NoBareCR(w, 1, 1)
  BY DEF Within, NoBareCR
<1>5. EndsBlock(w, 1, h.headers, h.buf)
  BY <1>1, <1>3, <1>4, HeadersClean
<1>6. \E e : HeadOf(w, h.buf - 1, e)
  BY <1>3, <1>4, <1>5, BlockIsHead
<1> QED BY <1>3, <1>6

\* A head of kind k that is parsed, with a header at least if it has no first line.
LEMMA HeadIs ==
  ASSUME NEW w, w \in Seq(Nat), NEW k, k \in {"request", "response", "headers"},
         NEW x, x = AtOnce(k, w), ~ (x.ret < 0), k = "headers" => x.headers # <<>>
  PROVE  \E e : HeadOf(w, x.ret, e)
<1>1. CASE k = "request"
  <2>1. x = parse_request(w, MaxHeaders)
    BY <1>1 DEF AtOnce, Parse, phr_parse_request, Incremental
  <2> QED BY <2>1, RequestClean
<1>2. CASE k = "response"
  <2>1. x = parse_response(w, MaxHeaders)
    BY <1>2 DEF AtOnce, Parse, phr_parse_response, Incremental
  <2> QED BY <2>1, ResponseClean
<1>3. CASE k = "headers"
  <2>1. x = WithHeaders(w, 1, MaxHeaders, <<>>, <<>>)
    BY <1>3 DEF AtOnce, Parse, phr_parse_headers, Incremental
  <2> QED BY <1>3, <2>1, HeadersAlone
<1> QED BY <1>1, <1>2, <1>3
-----------------------------------------------------------------------------
(* A head that comes in pieces. *)

Whole == AtOnce(wire.kind, wire.bytes)
\* A head that may be cut anywhere.
IsHead(w, p) == p.ret \in Int /\ p.ret > 0 /\ (w.kind = "headers" => p.headers # <<>>)

\* What every reachable state of a stream that is not chunked keeps: a result is
\* that of the whole text in one read, and a head is only partial while a byte
\* of it is still to come.
HeadInv ==
  /\ wire \in Wires /\ got \in 0 .. Len(wire.bytes)
  /\ ~ Chunked =>
       /\ decoder.bytes_left_in_chunk = 0
       /\ parse.ret \in {Failed, Partial} \/ (parse = Whole /\ parse.ret \in 1 .. got)
       /\ IsHead(wire, Whole) => (parse.ret = Partial /\ got < Whole.ret) \/ parse.ret > 0

MayRead(w, g, n) == w \in Wires /\ w.kind # "chunked" /\ g \in Nat /\ n \in Nat \ {0} /\ g + n <= Len(w.bytes)

\* What has arrived is a beginning of what is sent.
LEMMA PieceOfHead ==
  ASSUME NEW w, NEW g, NEW n, MayRead(w, g, n), NEW b, b = SubSeq(w.bytes, 1, g + n)
  PROVE  Prefix(b, w.bytes) /\ Len(b) = g + n /\ w.kind \in {"request", "response", "headers"}
<1>0. w.bytes \in Seq(Nat) /\ w.kind \in {"request", "response", "headers"}
  BY WiresAssumption DEF MayRead
<1>1. PICK m, x : m = g + n /\ x = w.bytes
  OBVIOUS
<1>2. m \in Nat \ {0} /\ m <= Len(x) /\ x \in Seq(Nat) /\ Len(x) \in Nat
  BY <1>0, <1>1 DEF MayRead
<1>3. \A i \in 1 .. m : x[i] \in Nat
  BY <1>2
<1>4. SubSeq(x, 1, m) \in Seq(Nat) /\ Len(SubSeq(x, 1, m)) = m /\ \A i \in 1 .. m : SubSeq(x, 1, m)[i] = x[i]
  <2>1. /\ SubSeq(x, 1, m) \in Seq(Nat)
        /\ Len(SubSeq(x, 1, m)) = IF 1 <= m THEN m - 1 + 1 ELSE 0
        /\ \A i \in 1 .. m - 1 + 1 : SubSeq(x, 1, m)[i] = x[1 + i - 1]
    BY <1>2, <1>3, SubSeqProperties
  <2>2. \A i \in 1 .. m : i \in 1 .. m - 1 + 1 /\ 1 + i - 1 = i
    BY <1>2
  <2>3. (IF 1 <= m THEN m - 1 + 1 ELSE 0) = m
    BY <1>2
  <2>4. ASSUME NEW i \in 1 .. m PROVE SubSeq(x, 1, m)[i] = x[i]
    <3>1. SubSeq(x, 1, m)[i] = x[1 + i - 1]
      BY <2>1, <2>2
    <3> QED BY <2>2, <3>1
  <2> QED BY <2>1, <2>3, <2>4
<1> QED BY <1>0, <1>1, <1>2, <1>4 DEF Prefix

\* A read of a head: what it gives is known from the whole text.
LEMMA PieceGives ==
  ASSUME NEW w, NEW g, NEW n, MayRead(w, g, n), NEW x, x = Parse(w.kind, SubSeq(w.bytes, 1, g + n), g),
         NEW y, y = AtOnce(w.kind, w.bytes)
  PROVE  /\ x.ret \in {Failed, Partial} \/ (x = y /\ x.ret \in 1 .. g + n)
         /\ IsHead(w, y) /\ g < y.ret => (x.ret = Partial /\ g + n < y.ret) \/ x.ret > 0
<1>1. PICK b, l : b = SubSeq(w.bytes, 1, g + n) /\ l = g + n
  OBVIOUS
<1>2. Prefix(b, w.bytes) /\ Len(b) = l /\ w.kind \in {"request", "response", "headers"}
  BY <1>1, PieceOfHead
<1>3. l \in Nat /\ g \in Nat /\ g < l
  BY <1>1 DEF MayRead
<1>4. PICK z : z = AtOnce(w.kind, b)
  OBVIOUS
<1>5. AlikeParse(b, z, y)
  BY <1>2, <1>4, ParseSame
<1>6. \/ z.ret = Partial /\ (y.ret < 0 \/ y.ret > l)
      \/ z = y /\ (z.ret = Failed \/ z.ret \in 1 .. l)
  BY <1>2, <1>5 DEF AlikeParse
<1>7. PICK c : c = is_complete(b, g)
  OBVIOUS
<1>8. x = (IF g # 0 /\ c < 0 THEN NotParsed(c) ELSE z)
  <2>1. CASE w.kind = "request"
    BY <1>1, <1>4, <1>7, <2>1 DEF Parse, AtOnce, phr_parse_request, Incremental
  <2>2. CASE w.kind = "response"
    BY <1>1, <1>4, <1>7, <2>2 DEF Parse, AtOnce, phr_parse_response, Incremental
  <2>3. CASE w.kind = "headers"
    BY <1>1, <1>4, <1>7, <2>3 DEF Parse, AtOnce, phr_parse_headers, Incremental
  <2> QED BY <1>2, <2>1, <2>2, <2>3
<1>9. PICK i : i = (IF g < 3 THEN 1 ELSE g - 2)
  OBVIOUS
<1>10. c = TwoNewlines(b, i) /\ i \in Nat \ {0} /\ i <= l
  BY <1>3, <1>7, <1>9 DEF is_complete
<1>11. CASE x = z
  <2>1. x.ret \in {Failed, Partial} \/ (x = y /\ x.ret \in 1 .. l)
    BY <1>6, <1>11
  <2>2. IsHead(w, y) => (x.ret = Partial /\ l < y.ret) \/ x.ret > 0
    <3> SUFFICES ASSUME IsHead(w, y) PROVE (x.ret = Partial /\ l < y.ret) \/ x.ret > 0
      OBVIOUS
    <3>1. y.ret \in Int /\ y.ret > 0
      BY DEF IsHead
    <3> QED BY <1>3, <1>6, <1>11, <3>1 DEF Failed
  <2> QED BY <1>1, <2>1, <2>2
<1>12. CASE x = NotParsed(c) /\ g # 0 /\ c < 0
  <2>1. x.ret = c
    BY <1>12 DEF NotParsed, Parsed
  <2>2. c \in {Failed, Partial}
    <3>1. b \in Seq(Nat)
      BY <1>2 DEF Prefix
    <3>2. IsResult(c)
      BY <1>10, <3>1, NewlinesResult
    <3> QED BY <1>12, <3>2 DEF IsResult
  <2>3. ASSUME IsHead(w, y), g < y.ret PROVE c = Partial /\ l < y.ret
    <3>1. y.ret \in Int /\ y.ret > 0 /\ w.bytes \in Seq(Nat)
      BY <1>2, <2>3 DEF IsHead, Prefix
    <3>2. PICK e : HeadOf(w.bytes, y.ret, e)
      <4>1. w.kind = "headers" => y.headers # <<>>
        BY <2>3 DEF IsHead
      <4>2. ~ (y.ret < 0)
        BY <3>1
      <4> QED BY <1>2, <3>1, <4>1, <4>2, HeadIs
    <3>3. e \in 1 .. y.ret - 1 /\ (e = y.ret - 1 \/ e = y.ret - 2)
      BY <3>2 DEF HeadOf
    <3>4. i \in 1 .. e /\ i <= l + 1
      BY <1>3, <1>9, <1>10, <2>3, <3>1, <3>3
    <3>5. Counting(b, w.bytes, y.ret, e, i)
      BY <1>2, <3>2, <3>4 DEF Counting
    <3>6. (c = Partial /\ Len(b) < y.ret) \/ c > 0
      BY <1>10, <3>5, NewlinesSeen
    <3> QED BY <1>2, <2>2, <3>6 DEF Failed, Partial
  <2> QED BY <1>1, <2>1, <2>2, <2>3
<1> QED BY <1>8, <1>11, <1>12

\* The invariant holds before the first byte arrives.
LEMMA InitHead == Init => HeadInv
<1> SUFFICES ASSUME Init PROVE HeadInv
  OBVIOUS
<1>1. wire \in Wires /\ got = 0 /\ parse.ret = Partial /\ decoder = Zeroed(Chunked /\ wire.trailer)
  BY DEF Init, NotParsed, Parsed
<1>2. got \in 0 .. Len(wire.bytes)
  BY <1>1, WiresAssumption
<1>3. decoder.bytes_left_in_chunk = 0
  BY <1>1 DEF Zeroed
<1>4. IsHead(wire, Whole) => got < Whole.ret
  BY <1>1 DEF IsHead
<1> QED BY <1>1, <1>2, <1>3, <1>4 DEF HeadInv

\* A read keeps it.
LEMMA ArriveHead ==
  ASSUME HeadInv, NEW n, n \in 1 .. Len(wire.bytes) - got, Arrive(n)
  PROVE  HeadInv'
<1>1. /\ wire' = wire /\ ~ Chunked /\ got' = got + n /\ decoder' = decoder /\ parse.ret = Partial
      /\ parse' = Parse(wire.kind, SubSeq(wire.bytes, 1, got + n), got)
  BY DEF Arrive
<1>2. wire \in Wires /\ got \in 0 .. Len(wire.bytes) /\ Len(wire.bytes) \in Nat /\ decoder.bytes_left_in_chunk = 0
  BY <1>1, WiresAssumption DEF HeadInv
<1>3. got' \in 0 .. Len(wire'.bytes) /\ MayRead(wire, got, n)
  BY <1>1, <1>2 DEF MayRead, Chunked
<1>4. /\ parse'.ret \in {Failed, Partial} \/ (parse' = Whole /\ parse'.ret \in 1 .. got + n)
      /\ IsHead(wire, Whole) /\ got < Whole.ret => (parse'.ret = Partial /\ got + n < Whole.ret) \/ parse'.ret > 0
  BY <1>1, <1>3, PieceGives DEF Whole
<1>5. IsHead(wire, Whole) => got < Whole.ret
  BY <1>1 DEF HeadInv, Partial
<1>6. Whole' = Whole
  BY <1>1 DEF Whole
<1>7. /\ parse'.ret \in {Failed, Partial} \/ (parse' = Whole' /\ parse'.ret \in 1 .. got')
      /\ IsHead(wire', Whole') => (parse'.ret = Partial /\ got' < Whole'.ret) \/ parse'.ret > 0
  BY <1>1, <1>4, <1>5, <1>6
<1> QED BY <1>1, <1>2, <1>3, <1>7 DEF HeadInv, Chunked

\* It is inductive: a body that is decoded does not change what it says.
LEMMA HeadInductive == Spec => []HeadInv
<1>1. HeadInv /\ [Next]_vars => HeadInv'
  <2> SUFFICES ASSUME HeadInv, [Next]_vars PROVE HeadInv'
    OBVIOUS
  <2>1. CASE Next
    <3>1. PICK n \in 1 .. Len(wire.bytes) - got : Arrive(n) \/ Feed(n)
      BY <2>1 DEF Next
    <3>2. CASE Feed(n)
      <4>1. wire' = wire /\ Chunked /\ got' = got + n
        BY <3>2 DEF Feed
      <4>2. wire \in Wires /\ got \in 0 .. Len(wire.bytes) /\ Len(wire.bytes) \in Nat
        BY WiresAssumption DEF HeadInv
      <4>3. got' \in 0 .. Len(wire'.bytes)
        BY <3>1, <4>1, <4>2
      <4> QED BY <4>1, <4>2, <4>3 DEF HeadInv, Chunked
    <3> QED BY <3>1, <3>2, ArriveHead
  <2>2. CASE UNCHANGED vars
    <3>1. wire' = wire /\ got' = got /\ parse' = parse /\ decoder' = decoder
      BY <2>2 DEF vars
    <3> QED BY <3>1 DEF HeadInv, Chunked, Whole
  <2> QED BY <2>1, <2>2
<1> QED BY <1>1, InitHead, PTL DEF Spec

\* The invariant of types, for every set of wires: a result never counts bytes
\* that have not arrived, and the size of a chunk of at most MaxHex digits fits in
\* size_t, so that bytes_left_in_chunk (picohttpparser.c:562) cannot overflow.
THEOREM AlwaysTypeOK == Spec => []TypeOK
<1>1. HeadInv /\ ChunksInv => TypeOK
  <2> SUFFICES ASSUME HeadInv, ChunksInv PROVE TypeOK
    OBVIOUS
  <2>1. got \in 0 .. Len(wire.bytes)
    BY DEF HeadInv
  <2>2. CASE ~ Chunked
    <3>1. decoder.bytes_left_in_chunk = 0 /\ parse.ret \in {Failed, Partial} \cup 1 .. got
      BY <2>2 DEF HeadInv
    <3>2. Sizes[MaxHex] \in Nat \ {0}
      BY MaxHexAssumption, SizesGrow
    <3>3. 0 \in 0 .. Sizes[MaxHex] - 1
      BY <3>2
    <3> QED BY <2>1, <2>2, <3>1, <3>3 DEF TypeOK
  <2>3. CASE Chunked
    <3>1. Streamed(wire, got, parse.ret, decoder, out)
      BY <2>3 DEF ChunksInv
    <3>2. decoder.bytes_left_in_chunk \in Nat /\ decoder.bytes_left_in_chunk < Sizes[MaxHex] /\ Sizes[MaxHex] \in Nat
      BY <3>1, MaxHexAssumption, SizesGrow DEF Streamed, Decoders
    <3>3. parse.ret \in {Failed, Partial} \/ parse.ret \in 0 .. got - 1
      BY <3>1 DEF Streamed, Ends
    <3>4. got \in Nat
      BY <2>1
    <3>5. parse.ret \in {Failed, Partial} \cup 0 .. got
      BY <3>3, <3>4
    <3>6. decoder.bytes_left_in_chunk \in 0 .. Sizes[MaxHex] - 1
      BY <3>2
    <3> QED BY <2>1, <2>3, <3>5, <3>6 DEF TypeOK
  <2> QED BY <2>2, <2>3
<1> QED BY <1>1, HeadInductive, ChunksInductive, PTL

\* A parse that succeeds on pieces gives what one read of the whole text gives,
\* so that the request, response or headers are those that were written.
THEOREM AlwaysOnlyWhatWasSent ==
  ASSUME UnderstoodAtOnce PROVE Spec => []OnlyWhatWasSent
<1>1. HeadInv => OnlyWhatWasSent
  <2> SUFFICES ASSUME HeadInv, ~ Chunked, parse.ret > 0 PROVE parse = wire.sent
    BY DEF OnlyWhatWasSent
  <2>1. wire \in Wires /\ wire.kind # "chunked" /\ parse = Whole
    BY DEF HeadInv, Chunked, Failed, Partial
  <2> QED BY <2>1 DEF UnderstoodAtOnce, Whole, AtOnce
<1> QED BY <1>1, HeadInductive, PTL

\* What was written in a head that keeps to the protocol is what one read gives.
LEMMA WellFormedHead ==
  ASSUME UnderstoodAtOnce, HeadInv, ~ Chunked, WellFormed
  PROVE  wire.sent = Whole /\ IsHead(wire, Whole)
<1>1. wire \in Wires /\ wire.kind # "chunked" /\ wire.sent.ret > 0
  BY DEF HeadInv, Chunked, WellFormed
<1>2. wire.sent = Whole
  BY <1>1 DEF UnderstoodAtOnce, Whole, AtOnce
<1>3. wire.bytes \in Seq(Nat) /\ wire.kind \in {"request", "response", "headers"} /\ (wire.kind = "headers" => wire.sent.headers # <<>>)
  BY <1>1, WiresAssumption
<1>4. Whole.ret \in Int
  <2>1. Prefix(wire.bytes, wire.bytes)
    BY <1>3 DEF Prefix
  <2>2. AlikeParse(wire.bytes, Whole, Whole)
    BY <1>3, <2>1, ParseSame DEF Whole
  <2> QED BY <2>2 DEF AlikeParse, Failed, Partial
<1> QED BY <1>1, <1>2, <1>3, <1>4 DEF IsHead

\* A head is seen as soon as all of it has arrived, wherever the reads cut it:
\* is_complete (picohttpparser.c:202) goes back far enough for a line end that
\* was cut in two.
THEOREM CompleteIsAlwaysSeen ==
  ASSUME UnderstoodAtOnce PROVE Spec => []CompleteIsSeen
<1>1. HeadInv => CompleteIsSeen
  <2> SUFFICES ASSUME HeadInv, ~ Chunked, WellFormed, got >= wire.sent.ret PROVE parse.ret > 0
    BY DEF CompleteIsSeen
  <2>1. wire.sent = Whole /\ IsHead(wire, Whole)
    BY WellFormedHead
  <2>2. got \in Nat /\ Whole.ret \in Int
    BY <2>1, WiresAssumption DEF HeadInv, IsHead
  <2>3. ~ (got < Whole.ret)
    BY <2>1, <2>2
  <2> QED BY <2>1, <2>3 DEF HeadInv
<1> QED BY <1>1, HeadInductive, PTL

\* No beginning of a head is ever an error, and a body only when more than three
\* quarters of it are not data.
THEOREM TextsAreNeverRefused ==
  ASSUME UnderstoodAtOnce PROVE Spec => []NeverRefused
<1>1. HeadInv /\ ChunksInv => NeverRefused
  <2> SUFFICES ASSUME HeadInv, ChunksInv, parse.ret = Failed, WellFormed
               PROVE  Chunked /\ 4 * (got - Len(DataIn[got])) > 3 * got
    BY DEF NeverRefused
  <2>1. Chunked
    <3> SUFFICES ASSUME ~ Chunked PROVE FALSE
      OBVIOUS
    <3>1. IsHead(wire, Whole)
      BY WellFormedHead
    <3> QED BY <3>1 DEF HeadInv, Failed, Partial
  <2>2. Shows(wire, got, parse.ret, decoder, out) /\ wire.ok
    BY <2>1, ChunksShow DEF WellFormed
  <2>3. Refused(got, got - Len(DataIn[got]))
    BY <2>2 DEF Shows, DataIn, Marks
  <2>4. Len(DataIn[got]) \in Nat /\ got \in Nat
    <3>1. wire.bytes \in Seq(Nat) /\ got \in 0 .. Len(wire.bytes)
      BY WiresAssumption DEF HeadInv
    <3>2. PICK k : k = Marks(wire)
      OBVIOUS
    <3>3. Marked(wire.bytes, k)[got] \in Seq(Nat)
      BY <3>1, MarkedSeq
    <3> QED BY <3>1, <3>2, <3>3 DEF DataIn, Marks
  <2>5. PICK d : d = Len(DataIn[got])
    OBVIOUS
  <2>6. d < got \div 4
    <3>1. got - (got - d) < got \div 4
      BY <2>3, <2>5 DEF Refused
    <3> QED BY <2>4, <2>5, <3>1
  <2>7. 4 * (got \div 4) <= got /\ got \div 4 \in Nat
    BY <2>4
  <2>8. 4 * (got - d) > 3 * got
    BY <2>4, <2>5, <2>6, <2>7
  <2> QED BY <2>1, <2>5, <2>8
<1> QED BY <1>1, HeadInductive, ChunksInductive, PTL
===============================================================================
