------------------------------ MODULE DataProofs ------------------------------
(***************************************************************************)
(* Lemmas about data that several proofs need: sums over finite sets, as   *)
(* the folds of the community modules define them, where the order in which*)
(* the elements are taken makes no difference; and the walk along the links*)
(* of a list, of which there is one.  Induction is by a smallest set or    *)
(* number that would be a counterexample.                                  *)
(***************************************************************************)
EXTENDS Integers, Walks, FiniteSetsExt, Functions, FiniteSetTheorems, TLAPS

Pick(s) == CHOOSE x \in s : TRUE

\* The sums of f over the subsets of S, by the element that Pick takes first.
IsIter(f, S, iter) ==
  iter = [s \in SUBSET S |-> IF s = {} THEN 0 ELSE f[Pick(s)] + iter[s \ {Pick(s)}]]
Iter(f, S) == CHOOSE iter : IsIter(f, S, iter)
SumOver(f, S) == Iter(f, S)[S]

\* A family of subsets of a finite set has a smallest member.
LEMMA SmallestSet ==
  ASSUME NEW S, IsFiniteSet(S), NEW W \in SUBSET (SUBSET S), W # {}
  PROVE  \E T \in W : \A U \in W : U \subseteq T => U = T
<1>1. IsWellFoundedOn(StrictSubsetOrdering(S), SUBSET S)
  BY FS_StrictSubsetOrderingWellFounded, FS_FiniteSubsetsOfFinite
<1>2. PICK T \in W : \A U \in W : ~ (<<U, T>> \in StrictSubsetOrdering(S))
  BY <1>1, WFMin
<1> QED BY <1>2 DEF StrictSubsetOrdering

\* A set of numbers has a least one.
LEMMA SmallestNumber ==
  ASSUME NEW W \in SUBSET Nat, W # {} PROVE \E n \in W : \A m \in W : n <= m
<1>1. PICK b \in W : TRUE
  OBVIOUS
<1>2. PICK B : B = 1 .. b
  OBVIOUS
<1> DEFINE V == {T \in SUBSET B : \E i \in W : T = 1 .. i}
<1>3. V # {}
  BY <1>1, <1>2
<1>4. PICK T \in V : \A U \in V : U \subseteq T => U = T
  <2>1. IsFiniteSet(B)
    BY <1>1, <1>2, FS_Interval
  <2>2. V \in SUBSET (SUBSET B)
    OBVIOUS
  <2> HIDE DEF V
  <2> QED BY <1>3, <2>1, <2>2, SmallestSet
<1>5. PICK n \in W : T = 1 .. n
  BY <1>4
<1>6. ASSUME NEW m \in W, m < n PROVE FALSE
  <2>1. 1 .. m \subseteq T /\ n \in T /\ n \notin 1 .. m
    BY <1>5, <1>6
  <2>2. 1 .. m \in V
    BY <1>4, <2>1
  <2> QED BY <1>4, <2>1, <2>2
<1> QED BY <1>5, <1>6

LEMMA PickIn == \A s : s # {} => Pick(s) \in s
  BY DEF Pick

\* Two functions that agree have the same sums.
LEMMA IterUnique ==
  ASSUME NEW S, NEW T, NEW f, NEW g, IsFiniteSet(S), NEW i, NEW j, IsIter(f, S, i), IsIter(g, T, j),
         \A x \in S \cap T : f[x] = g[x]
  PROVE  \A s \in SUBSET (S \cap T) : i[s] = j[s]
<1> DEFINE W == {s \in SUBSET (S \cap T) : i[s] # j[s]}
<1> SUFFICES ASSUME W # {} PROVE FALSE
  OBVIOUS
<1>1. IsFiniteSet(S \cap T)
  BY FS_Subset
<1>2. PICK s \in W : \A u \in W : u \subseteq s => u = s
  <2> HIDE DEF W
  <2>1. W \in SUBSET (SUBSET (S \cap T))
    BY DEF W
  <2> QED BY <1>1, <2>1, SmallestSet
<1>3. CASE s = {}
  BY <1>2, <1>3 DEF IsIter
<1>4. CASE s # {}
  <2>1. PICK x \in s : x = Pick(s)
    BY <1>4, PickIn
  <2>2. i[s \ {x}] = j[s \ {x}]
    BY <1>2, <2>1
  <2>3. i[s] = f[x] + i[s \ {x}] /\ j[s] = g[x] + j[s \ {x}]
    BY <1>2, <1>4, <2>1 DEF IsIter
  <2> QED BY <1>2, <2>1, <2>2, <2>3
<1> QED BY <1>3, <1>4

LEMMA IterSame ==
  ASSUME NEW S, IsFiniteSet(S), NEW q \in SUBSET S, NEW f, NEW i, NEW j, IsIter(f, S, i), IsIter(f, q, j)
  PROVE  i[q] = j[q]
<1> PICK g : g = f
  OBVIOUS
<1>1. IsIter(g, q, j) /\ \A x \in S \cap q : f[x] = g[x]
  OBVIOUS
<1>2. \A s \in SUBSET (S \cap q) : i[s] = j[s]
  BY <1>1, IterUnique
<1> QED BY <1>2

LEMMA IterExists ==
  ASSUME NEW S, NEW f, IsFiniteSet(S)
  PROVE  IsIter(f, S, Iter(f, S))
<1> DEFINE Good(T) == IsIter(f, T, Iter(f, T))
           W == {T \in SUBSET S : ~ Good(T)}
<1> SUFFICES ASSUME W # {} PROVE FALSE
  OBVIOUS
<1>1. PICK T \in W : \A U \in W : U \subseteq T => U = T
  <2> HIDE DEF W
  <2>1. W \in SUBSET (SUBSET S)
    BY DEF W
  <2> QED BY <2>1, SmallestSet
<1>2. \A U \in SUBSET T : U # T => Good(U) /\ IsFiniteSet(U)
  BY <1>1, FS_Subset
<1> HIDE DEF W
<1> DEFINE Rest(s) == s \ {Pick(s)}
           g == [s \in SUBSET T |-> IF s = {} THEN 0 ELSE f[Pick(s)] + Iter(f, Rest(s))[Rest(s)]]
<1>3. ASSUME NEW s \in SUBSET T, s # {}
      PROVE  g[Rest(s)] = Iter(f, Rest(s))[Rest(s)]
  <2> PICK r : r = Rest(s)
    OBVIOUS
  <2>1. r \in SUBSET T /\ r # T
    BY <1>3, PickIn
  <2>2. IsIter(f, r, Iter(f, r)) /\ IsFiniteSet(r)
    BY <1>2, <2>1
  <2>3. CASE r = {}
    BY <2>1, <2>2, <2>3 DEF IsIter
  <2>4. CASE r # {}
    <3>1. Rest(r) \in SUBSET T /\ Rest(r) # T /\ Rest(r) \subseteq r
      BY <2>1, <2>4, PickIn
    <3>2. IsIter(f, Rest(r), Iter(f, Rest(r)))
      BY <1>2, <3>1
    <3>3. Iter(f, r)[Rest(r)] = Iter(f, Rest(r))[Rest(r)]
      <4> PICK q : q = Rest(r)
        OBVIOUS
      <4> PICK i, j : i = Iter(f, r) /\ j = Iter(f, q)
        OBVIOUS
      <4>1. IsFiniteSet(q) /\ IsIter(f, q, j) /\ IsIter(f, r, i) /\ IsFiniteSet(r) /\ q \in SUBSET (r \cap q)
        BY <1>2, <2>2, <3>1, <3>2
      <4>2. i[q] = j[q]
        BY <4>1, IterUnique
      <4> QED BY <4>2
    <3>4. Iter(f, r)[r] = f[Pick(r)] + Iter(f, r)[Rest(r)]
      BY <2>2, <2>4 DEF IsIter
    <3> QED BY <2>1, <2>4, <3>3, <3>4
  <2> QED BY <2>3, <2>4
<1>4. IsIter(f, T, g)
  BY <1>3 DEF IsIter
<1>5. Good(T)
  BY <1>4 DEF Iter
<1> QED BY <1>1, <1>5 DEF W

\* The sum of a set that is not empty takes one element first.
LEMMA SumEquation ==
  ASSUME NEW f, NEW S, IsFiniteSet(S)
  PROVE  /\ S = {} => SumOver(f, S) = 0
         /\ S # {} => SumOver(f, S) = f[Pick(S)] + SumOver(f, S \ {Pick(S)})
<1>1. IsIter(f, S, Iter(f, S))
  BY IterExists
<1>2. CASE S = {}
  BY <1>1, <1>2 DEF IsIter, SumOver
<1>3. CASE S # {}
  <2> PICK q : q = S \ {Pick(S)}
    OBVIOUS
  <2> PICK i, j : i = Iter(f, S) /\ j = Iter(f, q)
    OBVIOUS
  <2>1. q \in SUBSET (S \cap q) /\ q \in SUBSET S /\ IsFiniteSet(q)
    BY FS_Subset
  <2>2. IsIter(f, q, j) /\ IsIter(f, S, i)
    BY <1>1, <2>1, IterExists
  <2>3. i[q] = j[q]
    BY <2>1, <2>2, IterSame
  <2>4. i[S] = f[Pick(S)] + i[q]
    BY <1>3, <2>2 DEF IsIter
  <2> QED BY <1>3, <2>3, <2>4 DEF SumOver
<1> QED BY <1>2, <1>3

LEMMA SumAgrees ==
  ASSUME NEW S, IsFiniteSet(S), NEW f, NEW g, \A x \in S : f[x] = g[x]
  PROVE  SumOver(f, S) = SumOver(g, S)
<1> PICK i, j : i = Iter(f, S) /\ j = Iter(g, S)
  OBVIOUS
<1>1. IsIter(f, S, i) /\ IsIter(g, S, j)
  BY IterExists
<1>2. i[S] = j[S]
  BY <1>1, IterUnique
<1> QED BY <1>2 DEF SumOver

LEMMA SumInt ==
  ASSUME NEW S, IsFiniteSet(S), NEW f, \A x \in S : f[x] \in Int
  PROVE  SumOver(f, S) \in Int
<1> DEFINE W == {T \in SUBSET S : SumOver(f, T) \notin Int}
<1> SUFFICES ASSUME W # {} PROVE FALSE
  OBVIOUS
<1>1. PICK T \in W : \A U \in W : U \subseteq T => U = T
  <2> HIDE DEF W
  <2>1. W \in SUBSET (SUBSET S)
    BY DEF W
  <2> QED BY <2>1, SmallestSet
<1>2. IsFiniteSet(T)
  BY <1>1, FS_Subset
<1>3. T # {} /\ SumOver(f, T) = f[Pick(T)] + SumOver(f, T \ {Pick(T)})
  BY <1>1, <1>2, SumEquation
<1>4. Pick(T) \in T
  BY <1>3, PickIn
<1>5. SumOver(f, T \ {Pick(T)}) \in Int
  BY <1>1, <1>4
<1> QED BY <1>1, <1>3, <1>4, <1>5

\* Any element may be the first.
LEMMA SumWithout ==
  ASSUME NEW S, IsFiniteSet(S), NEW f, \A x \in S : f[x] \in Int
  PROVE  \A x \in S : SumOver(f, S) = f[x] + SumOver(f, S \ {x})
<1> DEFINE Good(T) == \A x \in T : SumOver(f, T) = f[x] + SumOver(f, T \ {x})
           W == {T \in SUBSET S : ~ Good(T)}
<1> SUFFICES ASSUME W # {} PROVE FALSE
  OBVIOUS
<1>1. PICK T \in W : \A U \in W : U \subseteq T => U = T
  <2> HIDE DEF W
  <2>1. W \in SUBSET (SUBSET S)
    BY DEF W
  <2> QED BY <2>1, SmallestSet
<1>2. \A U \in SUBSET T : IsFiniteSet(U) /\ U \in SUBSET S /\ SumOver(f, U) \in Int
  <2>1. T \in SUBSET S
    BY <1>1
  <2>2. ASSUME NEW U \in SUBSET T
        PROVE  IsFiniteSet(U) /\ SumOver(f, U) \in Int
    <3>1. IsFiniteSet(U)
      BY <2>1, FS_Subset
    <3> QED BY <2>1, <3>1, SumInt
  <2> QED BY <2>1, <2>2
<1>3. \A U \in SUBSET T : U # T => Good(U)
  BY <1>1
<1>4. PICK x \in T : SumOver(f, T) # f[x] + SumOver(f, T \ {x})
  BY <1>1
<1>5. T \in SUBSET S
  BY <1>1
<1> HIDE DEF W
<1> PICK y : y = Pick(T)
  OBVIOUS
<1>6. y \in T /\ SumOver(f, T) = f[y] + SumOver(f, T \ {y})
  <2>1. IsFiniteSet(T)
    BY <1>2
  <2> QED BY <1>4, <2>1, PickIn, SumEquation
<1>7. y # x
  BY <1>4, <1>6
<1> PICK R, U, V : R = T \ {y} /\ U = T \ {x} /\ V = T \ {x, y}
  OBVIOUS
<1>8. R \ {x} = V /\ U \ {y} = V /\ x \in R /\ y \in U
  BY <1>6, <1>7
<1>9. SumOver(f, R) = f[x] + SumOver(f, V)
  <2>1. Good(R)
    BY <1>3, <1>6
  <2> QED BY <1>8, <2>1
<1>10. SumOver(f, U) = f[y] + SumOver(f, V)
  <2>1. Good(U)
    BY <1>3, <1>4
  <2> QED BY <1>8, <2>1
<1>11. f[x] \in Int /\ f[y] \in Int /\ SumOver(f, V) \in Int
  BY <1>2, <1>5, <1>6
<1> QED BY <1>4, <1>6, <1>9, <1>10, <1>11

\* What x adds to the sum of f over S.
Part(f, S, x) == IF x \in S THEN f[x] ELSE 0

LEMMA SumPart ==
  ASSUME NEW S, IsFiniteSet(S), NEW f, NEW x, \A y \in S : f[y] \in Int
  PROVE  SumOver(f, S) = Part(f, S, x) + SumOver(f, S \ {x})
<1>1. CASE x \in S
  BY <1>1, SumWithout DEF Part
<1>2. CASE x \notin S
  <2> PICK n : n = SumOver(f, S)
    OBVIOUS
  <2>1. n = 0 + n
    BY SumInt
  <2>2. Part(f, S, x) = 0
    BY <1>2 DEF Part
  <2>3. S \ {x} = S
    BY <1>2
  <2>4. SumOver(f, S \ {x}) = n
    BY <2>3
  <2> QED BY <2>1, <2>2, <2>4
<1> QED BY <1>1, <1>2

LEMMA FiniteChange ==
  ASSUME NEW S, NEW R, NEW x, IsFiniteSet(S), R \ {x} = S \ {x}
  PROVE  IsFiniteSet(R)
<1>1. IsFiniteSet(S \cup {x})
  BY FS_AddElement
<1>2. R \subseteq S \cup {x}
  OBVIOUS
<1> QED BY <1>1, <1>2, FS_Subset

\* The sum after one element has come, gone or changed.
LEMMA SumChange ==
  ASSUME NEW S, NEW R, NEW f, NEW g, NEW x, IsFiniteSet(S), R \ {x} = S \ {x},
         \A y \in S : f[y] \in Int, \A y \in R : g[y] \in Int, \A y \in S \ {x} : f[y] = g[y]
  PROVE  SumOver(g, R) = SumOver(f, S) - Part(f, S, x) + Part(g, R, x)
<1> PICK U : U = S \ {x} /\ U = R \ {x}
  OBVIOUS
<1>1. IsFiniteSet(U) /\ IsFiniteSet(R)
  <2>1. IsFiniteSet(U)
    BY FS_Subset
  <2> QED BY <2>1, FiniteChange
<1> PICK n : n = SumOver(f, U)
  OBVIOUS
<1>2. n \in Int /\ SumOver(g, U) = n
  BY <1>1, SumInt, SumAgrees
<1> PICK p, q : p = Part(f, S, x) /\ q = Part(g, R, x)
  OBVIOUS
<1>3. SumOver(f, S) = p + n /\ SumOver(g, R) = q + n
  <2>1. SumOver(f, S) = p + SumOver(f, U)
    BY SumPart
  <2>2. SumOver(g, R) = q + SumOver(g, U)
    BY <1>1, SumPart
  <2> QED BY <1>2, <2>1, <2>2
<1>4. p \in Int /\ q \in Int
  BY DEF Part
<1>5. q + n = (p + n) - p + q
  BY <1>2, <1>4
<1> QED BY <1>1, <1>3, <1>5

\* Two sets that have nothing in common are summed one after the other.
LEMMA SumUnion ==
  ASSUME NEW S, NEW R, IsFiniteSet(S), IsFiniteSet(R), NEW f, S \cap R = {}, \A x \in S \cup R : f[x] \in Int
  PROVE  SumOver(f, S \cup R) = SumOver(f, S) + SumOver(f, R)
<1> DEFINE Good(T) == SumOver(f, S \cup T) = SumOver(f, S) + SumOver(f, T)
           W == {T \in SUBSET R : ~ Good(T)}
<1> SUFFICES ASSUME W # {} PROVE FALSE
  OBVIOUS
<1>1. PICK T \in W : \A U \in W : U \subseteq T => U = T
  <2> HIDE DEF W
  <2>1. W \in SUBSET (SUBSET R)
    BY DEF W
  <2> QED BY <2>1, SmallestSet
<1>2. T \in SUBSET R /\ ~ Good(T) /\ \A U \in SUBSET T : U # T => Good(U)
  BY <1>1
<1> HIDE DEF W
<1>3. IsFiniteSet(T) /\ IsFiniteSet(S \cup T)
  BY <1>2, FS_Subset, FS_Union
<1>4. SumOver(f, S) \in Int /\ SumOver(f, T) \in Int
  BY <1>2, <1>3, SumInt
<1>5. CASE T = {}
  <2> PICK A, m : A = S \cup T /\ m = SumOver(f, S)
    OBVIOUS
  <2>1. A = S /\ SumOver(f, T) = 0
    BY <1>3, <1>5, SumEquation
  <2>2. m = m + 0
    BY <1>4
  <2>3. SumOver(f, A) = m + SumOver(f, T)
    BY <2>1, <2>2
  <2>4. SumOver(f, S \cup T) = SumOver(f, S) + SumOver(f, T)
    BY <2>3
  <2> HIDE DEF Good
  <2>5. ~ Good(T)
    BY <1>2
  <2> QED BY <2>4, <2>5 DEF Good
<1>6. CASE T # {}
  <2>1. PICK x \in T : TRUE
    BY <1>6
  <2> PICK U, A, B : U = T \ {x} /\ A = S \cup T /\ B = S \cup U
    OBVIOUS
  <2>2. A \ {x} = B /\ x \in A
    BY <1>2
  <2>3. SumOver(f, A) = f[x] + SumOver(f, B)
    <3>1. IsFiniteSet(A) /\ \A y \in A : f[y] \in Int
      BY <1>2, <1>3
    <3> QED BY <2>2, <3>1, SumWithout
  <2>4. SumOver(f, T) = f[x] + SumOver(f, U)
    BY <1>2, <1>3, SumWithout
  <2>5. SumOver(f, B) = SumOver(f, S) + SumOver(f, U)
    BY <1>2
  <2>6. f[x] \in Int /\ SumOver(f, U) \in Int
    <3>1. IsFiniteSet(U) /\ \A y \in U : f[y] \in Int
      BY <1>2, <1>3, FS_Subset
    <3> QED BY <1>2, <3>1, SumInt
  <2> PICK m, n, k : m = SumOver(f, S) /\ n = SumOver(f, U) /\ k = f[x]
    OBVIOUS
  <2>7. k + (m + n) = m + (k + n)
    BY <1>4, <2>6
  <2>8. SumOver(f, A) = SumOver(f, S) + SumOver(f, T)
    BY <2>3, <2>4, <2>5, <2>7
  <2>9. SumOver(f, S \cup T) = SumOver(f, S) + SumOver(f, T)
    BY <2>8
  <2> HIDE DEF Good
  <2>10. ~ Good(T)
    BY <1>2
  <2> QED BY <2>9, <2>10 DEF Good
<1> QED BY <1>5, <1>6

\* Summing ones is counting.
LEMMA SumOfOnes ==
  ASSUME NEW S, IsFiniteSet(S), NEW f, NEW c \in {0, 1}, \A x \in S : f[x] = c
  PROVE  SumOver(f, S) = IF c = 1 THEN Cardinality(S) ELSE 0
<1> DEFINE Good(T) == SumOver(f, T) = IF c = 1 THEN Cardinality(T) ELSE 0
           W == {T \in SUBSET S : ~ Good(T)}
<1> SUFFICES ASSUME W # {} PROVE FALSE
  OBVIOUS
<1>1. PICK T \in W : \A U \in W : U \subseteq T => U = T
  <2> HIDE DEF W
  <2>1. W \in SUBSET (SUBSET S)
    BY DEF W
  <2> QED BY <2>1, SmallestSet
<1>2. T \in SUBSET S /\ ~ Good(T) /\ \A U \in SUBSET T : U # T => Good(U)
  BY <1>1
<1> HIDE DEF W
<1>3. IsFiniteSet(T)
  BY <1>2, FS_Subset
<1>4. CASE T = {}
  BY <1>2, <1>3, <1>4, SumEquation, FS_EmptySet
<1>5. CASE T # {}
  <2>1. PICK x \in T : TRUE
    BY <1>5
  <2> PICK U : U = T \ {x}
    OBVIOUS
  <2>2. SumOver(f, T) = f[x] + SumOver(f, U)
    <3>1. \A y \in T : f[y] \in Int
      BY <1>2
    <3> QED BY <1>3, <3>1, SumWithout
  <2>3. Good(U)
    BY <1>2
  <2>4. Cardinality(U) = Cardinality(T) - 1 /\ Cardinality(T) \in Nat
    BY <1>3, FS_RemoveElement, FS_CardinalityType
  <2> QED BY <1>2, <2>2, <2>3, <2>4
<1> QED BY <1>4, <1>5

\* The folds of the community modules are these sums.
LEMMA FoldIsSum ==
  ASSUME NEW f
  PROVE  FoldFunction(LAMBDA n, m : n + m, 0, f) = SumOver(f, DOMAIN f)
  BY Zenon DEF FoldFunction, FoldFunctionOnSet, MapThenFoldSet, SumOver, Iter, IsIter, Pick

LEMMA MapThenSumIsSum ==
  ASSUME NEW S
  PROVE  MapThenSumSet(LAMBDA r : r.delta, S) = SumOver([r \in S |-> r.delta], S)
  BY DEF MapThenSumSet, MapThenFoldSet, SumOver, Iter, IsIter, Pick
-----------------------------------------------------------------------------
\* A walk that has not left the live cells.
WalkIn(start, link, live, list) == list \in Seq(live) /\ IsWalk(start, link, live, list)

\* Each cell of it, but the first, is where the one before it points.
LEMMA WalkGoes ==
  ASSUME NEW start, NEW link, NEW live, NEW list, WalkIn(start, link, live, list),
         NEW i, i \in 1 .. Len(list), i # 1
  PROVE  list[i] = link[list[i - 1]]
<1>1. list \in Seq(live) /\ i \in DOMAIN list
  BY DEF WalkIn
<1>2. list[i] = IF i = 1 THEN start ELSE link[list[i - 1]]
  BY <1>1 DEF WalkIn, IsWalk
<1> QED BY <1>2

LEMMA WalkStarts ==
  ASSUME NEW start, NEW link, NEW live, NEW list, WalkIn(start, link, live, list), 1 \in 1 .. Len(list)
  PROVE  list[1] = start
<1>1. list \in Seq(live) /\ 1 \in DOMAIN list
  BY DEF WalkIn
<1> QED BY <1>1 DEF WalkIn, IsWalk

\* There is one walk: where two part, the shorter one could go on.
LEMMA OneWalk ==
  ASSUME NEW start, NEW link, NEW live, NEW list, WalkIn(start, link, live, list),
         NEW other, WalkIn(start, link, live, other)
  PROVE  list = other
<1>1. ASSUME NEW l, WalkIn(start, link, live, l), NEW m, WalkIn(start, link, live, m), NEW i \in Nat, i \in DOMAIN l, i \in DOMAIN m
      PROVE  l[i] = m[i]
  <2> DEFINE W == {j \in Nat : j \in DOMAIN l /\ j \in DOMAIN m /\ l[j] # m[j]}
  <2> SUFFICES ASSUME W # {} PROVE FALSE
    BY <1>1
  <2>1. PICK j \in W : \A k \in W : j <= k
    <3> HIDE DEF W
    <3>1. W \in SUBSET Nat
      BY DEF W
    <3> QED BY <3>1, SmallestNumber
  <2>2. j \in 1 .. Len(l) /\ j \in 1 .. Len(m)
    BY <1>1, <2>1 DEF WalkIn
  <2>3. CASE j = 1
    <3>1. l[1] = start
      BY <1>1, <2>2, <2>3, WalkStarts
    <3>2. m[1] = start
      BY <1>1, <2>2, <2>3, WalkStarts
    <3> QED BY <2>1, <2>3, <3>1, <3>2
  <2>4. CASE j # 1
    <3>1. l[j] = link[l[j - 1]]
      BY <1>1, <2>2, <2>4, WalkGoes
    <3>2. m[j] = link[m[j - 1]]
      BY <1>1, <2>2, <2>4, WalkGoes
    <3>3. /\ j - 1 \in Nat /\ ~ (j <= j - 1)
          /\ j - 1 \in 1 .. Len(l) /\ j - 1 \in 1 .. Len(m)
      BY <2>2, <2>4
    <3>4. j - 1 \in DOMAIN l /\ j - 1 \in DOMAIN m
      BY <1>1, <3>3 DEF WalkIn
    <3>5. l[j - 1] = m[j - 1]
      BY <2>1, <3>3, <3>4
    <3> QED BY <2>1, <3>1, <3>2, <3>5
  <2> QED BY <2>3, <2>4
<1>2. ASSUME NEW l, WalkIn(start, link, live, l), NEW m, WalkIn(start, link, live, m) PROVE Len(m) <= Len(l)
  <2> SUFFICES ASSUME Len(l) < Len(m) PROVE FALSE
    BY <1>2 DEF WalkIn
  <2> PICK n : n = Len(l)
    OBVIOUS
  <2>1. /\ n \in Nat /\ n + 1 \in 1 .. Len(m) /\ DOMAIN l = 1 .. n /\ DOMAIN m = 1 .. Len(m)
        /\ l \in Seq(live) /\ m \in Seq(live)
    BY <1>2 DEF WalkIn
  <2>2. \A i \in 1 .. n : l[i] = m[i]
    BY <1>1, <1>2, <2>1
  <2>3. m[n + 1] = Following(start, link, l)
    <3>1. CASE n = 0
      <4>1. m[n + 1] = start
        BY <1>2, <2>1, <3>1, WalkStarts
      <4>2. l = <<>>
        BY <2>1, <3>1
      <4> QED BY <4>1, <4>2 DEF Following
    <3>2. CASE n # 0
      <4>1. m[n + 1] = link[m[n]]
        BY <1>2, <2>1, <3>2, WalkGoes
      <4>2. Following(start, link, l) = link[l[n]]
        BY <2>1, <3>2 DEF Following
      <4> QED BY <2>1, <2>2, <3>2, <4>1, <4>2
    <3> QED BY <3>1, <3>2
  <2>4. m[n + 1] \in live
    BY <2>1
  <2>5. m[n + 1] \notin Met(l)
    <3>1. \A i, j \in DOMAIN m : m[i] = m[j] => i = j
      BY <1>2 DEF WalkIn, IsWalk
    <3>2. \A i \in 1 .. n : i \in DOMAIN m /\ n + 1 \in DOMAIN m /\ i # n + 1
      BY <2>1
    <3> QED BY <2>1, <2>2, <3>1, <3>2 DEF Met
  <2> QED BY <1>2, <2>3, <2>4, <2>5 DEF WalkIn, IsWalk
<1>3. Len(list) = Len(other)
  BY <1>2 DEF WalkIn
<1>4. \A i \in 1 .. Len(list) : list[i] = other[i]
  BY <1>1, <1>3 DEF WalkIn
<1> QED BY <1>3, <1>4 DEF WalkIn

\* Walk finds it.
LEMMA WalkIs ==
  ASSUME NEW start, NEW link, NEW live, IsFiniteSet(live), NEW list, WalkIn(start, link, live, list)
  PROVE  Walk(start, link, live) = list
<1> DEFINE walks == UNION {[1 .. n -> live] : n \in 0 .. Cardinality(live)}
<1>1. list \in walks
  <2>0. PICK n : n = Len(list)
    OBVIOUS
  <2>1. n \in Nat /\ list \in [1 .. n -> live]
    BY <2>0 DEF WalkIn
  <2>2. list \in Injection(1 .. n, live)
    BY <2>1 DEF WalkIn, IsWalk, Injection, IsInjective
  <2>3. Cardinality(1 .. n) <= Cardinality(live)
    BY <2>2, FS_Injection
  <2>4. Cardinality(1 .. n) = n
    <3>1. n \in Int /\ 1 \in Int /\ (IF 1 > n THEN 0 ELSE n - 1 + 1) = n
      BY <2>1
    <3> QED BY <3>1, FS_Interval
  <2>5. Cardinality(live) \in Nat
    BY FS_CardinalityType
  <2> QED BY <2>1, <2>3, <2>4, <2>5
<1>2. ASSUME NEW other \in walks, IsWalk(start, link, live, other) PROVE other = list
  <2>1. other \in Seq(live)
    BY <1>2
  <2> QED BY <1>2, <2>1, OneWalk DEF WalkIn
<1>3. Walk(start, link, live) = CHOOSE other \in walks : IsWalk(start, link, live, other)
  BY DEF Walk
<1> HIDE DEF walks
<1> QED BY <1>1, <1>2, <1>3 DEF WalkIn
=============================================================================
