--------------------------- MODULE GroupBy_proofs ---------------------------
(***************************************************************************)
(* Theorems about GROUP BY SUM itself, for tables of every length, keys    *)
(* and values: what each engine's loop over a batch adds to its map, that  *)
(* merging the maps of disjoint pieces gives the map of their union, and   *)
(* when sums are exact.  The engines' proofs cite them.  The loops are the *)
(* folds of the community modules, over finite sets; the first two parts   *)
(* are the arithmetic of wrapped sums and what such folds compute.         *)
(***************************************************************************)
EXTENDS GroupBy, FiniteSetsExt, TLAPS, FiniteSetTheorems

\* Multiplication distributes over addition.
LEMMA Distribute == \A m, a, b \in Int : m * (a + b) = m * a + m * b
  OBVIOUS

\* What \div and % mean for a positive modulus.
LEMMA DivMod ==
    ASSUME NEW m \in Nat \ {0}, NEW a \in Int
    PROVE  /\ a \div m \in Int /\ a % m \in 0 .. m - 1
           /\ a = m * (a \div m) + (a % m)
  OBVIOUS

\* A multiple of m strictly between -m and m is 0.
LEMMA Multiple ==
    ASSUME NEW m \in Nat \ {0}, NEW d \in Int, NEW e \in Int, m * d = e, -m < e, e < m
    PROVE  d = 0 /\ e = 0
<1>1. CASE d >= 1
  <2>1. m * d >= m
    BY <1>1
  <2> QED
    BY <2>1
<1>2. CASE d <= -1
  <2>1. m * d <= -m
    BY <1>2
  <2> QED
    BY <2>1
<1>3. CASE d = 0
  BY <1>3
<1> QED
  BY <1>1, <1>2, <1>3

\* Numbers that differ by a multiple of m have the same remainder.
LEMMA ModUnique ==
    ASSUME NEW m \in Nat \ {0}, NEW a \in Int, NEW b \in Int, NEW q \in Int,
           a = m * q + b
    PROVE  a % m = b % m
<1> DEFINE p == a \div m
           r == a % m
           u == b \div m
           s == b % m
<1>1. /\ p \in Int /\ r \in 0 .. m - 1 /\ a = m * p + r
      /\ u \in Int /\ s \in 0 .. m - 1 /\ b = m * u + s
  BY DivMod
<1> HIDE DEF p, r, u, s
<1>2. m * (p - (q + u)) = s - r
  <2>1. m * ((p - (q + u)) + (q + u)) = m * (p - (q + u)) + m * (q + u)
    BY <1>1, Distribute
  <2>2. m * (q + u) = m * q + m * u
    BY <1>1, Distribute
  <2>3. (p - (q + u)) + (q + u) = p
    BY <1>1
  <2>4. m * p \in Int /\ m * q \in Int /\ m * u \in Int /\ m * (p - (q + u)) \in Int
    BY <1>1
  <2>5. m * p = m * (p - (q + u)) + (m * q + m * u)
    BY <2>1, <2>2, <2>3
  <2> QED
    BY <1>1, <2>4, <2>5
<1>3. s - r = 0
  <2>1. p - (q + u) \in Int /\ s - r \in Int /\ -m < s - r /\ s - r < m
    BY <1>1
  <2> QED
    BY <1>2, <2>1, Multiple
<1> QED
  BY <1>1, <1>3 DEF r, s

\* A wrapped sum is an i64 (of the model's width).
LEMMA WrapInRange == \A x \in Int : Wrap(x) \in Int /\ InRange(Wrap(x))
  BY IntBoundAssumption DEF Wrap, InRange

\* Wrapping early changes nothing: an addition wraps its own operands.
LEMMA WrapPlus ==
    ASSUME NEW x \in Int, NEW y \in Int
    PROVE  Wrap(Wrap(x) + y) = Wrap(x + y)
<1> DEFINE m == 2 * IntBound
           a == x + y + IntBound
           b == Wrap(x) + y + IntBound
           q == (x + IntBound) \div m
<1>1. m \in Nat \ {0} /\ IntBound \in Int
  BY IntBoundAssumption
<1>2. /\ q \in Int /\ (x + IntBound) % m \in Int
      /\ x + IntBound = m * q + ((x + IntBound) % m)
  <2> HIDE DEF m
  <2>1. x + IntBound \in Int
    BY <1>1
  <2> QED
    BY <1>1, <2>1, DivMod DEF q
<1>3. b = ((x + IntBound) % m) + y
  BY <1>1, <1>2 DEF Wrap
<1>4. a \in Int /\ b \in Int /\ m * q \in Int
  BY <1>1, <1>2, <1>3
<1>5. a = m * q + b
  BY <1>1, <1>2, <1>3, <1>4
<1>6. a % m = b % m
  <2> HIDE DEF m, a, b, q
  <2> QED
    BY <1>1, <1>2, <1>4, <1>5, ModUnique
<1>7. x + y + IntBound = (x + y) + IntBound /\ b = (Wrap(x) + y) + IntBound
  BY <1>1
<1> QED
  BY <1>6, <1>7 DEF Wrap

\* A sum that fits is not changed by wrapping.
LEMMA WrapFits == \A x \in Int : InRange(x) => Wrap(x) = x
  BY IntBoundAssumption DEF Wrap, InRange

\* Two wrapped sums add up, wrapped, to the wrapped sum.
LEMMA WrapSum ==
    ASSUME NEW x \in Int, NEW y \in Int
    PROVE  Wrap(Wrap(x) + Wrap(y)) = Wrap(x + y)
<1>1. Wrap(x) \in Int /\ Wrap(y) \in Int
  BY WrapInRange
<1>2. Wrap(Wrap(x) + Wrap(y)) = Wrap(x + Wrap(y))
  BY <1>1, WrapPlus
<1>3. x + Wrap(y) = Wrap(y) + x /\ y + x = x + y
  BY <1>1
<1>4. Wrap(Wrap(y) + x) = Wrap(y + x)
  BY WrapPlus
<1> QED
  BY <1>2, <1>3, <1>4
\* Induction over the naturals, for a set instead of a predicate.
LEMMA NatInd ==
    ASSUME NEW N \in SUBSET Nat, 0 \in N, \A n \in N : n + 1 \in N
    PROVE  N = Nat
<1> SUFFICES ASSUME Nat \ N # {} PROVE FALSE
  OBVIOUS
<1>1. PICK x \in Nat \ N : \A y \in Nat \ N : ~(<<y, x>> \in OpToRel(<, Nat))
  BY WFMin, NatLessThanWellFounded, Zenon
<1>2. x # 0 /\ x - 1 \in Nat /\ x - 1 < x
  OBVIOUS
<1>3. <<x - 1, x>> \in OpToRel(<, Nat)
  BY <1>2 DEF OpToRel
<1>4. x - 1 \in N
  BY <1>1, <1>2, <1>3, Zenon
<1> QED
  BY <1>4, <1>2

(* Induction up to a bound. *)
LEMMA UpTo ==
    ASSUME NEW n \in Nat, NEW N, 0 \in N, \A i \in 0 .. n - 1 : i \in N => i + 1 \in N
    PROVE  0 .. n \subseteq N
<1> DEFINE M == {i \in Nat : i <= n => i \in N}
<1>1. 0 \in M
  OBVIOUS
<1>2. \A i \in M : i + 1 \in M
  OBVIOUS
<1>3. M = Nat
  <2> HIDE DEF M
  <2>1. M \subseteq Nat BY DEF M
  <2> QED BY <1>1, <1>2, <2>1, NatInd
<1> QED
  BY <1>3

\* A set of numbers has a least one.
LEMMA MinIn ==
    ASSUME NEW S \in SUBSET Nat, S # {}
    PROVE  Min(S) \in S /\ \A y \in S : Min(S) <= y
<1> DEFINE N == {n \in Nat : (\E x \in S : x <= n) => \E x \in S : \A y \in S : x <= y}
<1>1. 0 \in N
  OBVIOUS
<1>2. ASSUME NEW n \in Nat, n \in N PROVE n + 1 \in N
  <2> SUFFICES ASSUME NEW x \in S, x <= n + 1, ~ \E z \in S : z <= n
               PROVE  \E z \in S : \A y \in S : z <= y
    BY <1>2
  <2>1. \A y \in S : x <= y
    OBVIOUS
  <2> QED
    BY <2>1
<1>3. N = Nat
  <2> HIDE DEF N
  <2>1. N \in SUBSET Nat
    BY DEF N
  <2> QED
    BY <1>1, <1>2, <2>1, NatInd
<1>4. PICK x \in S : TRUE
  OBVIOUS
<1>5. x \in N
  BY <1>3
<1>6. \E z \in S : \A y \in S : z <= y
  BY <1>5
<1> QED
  <2> HIDE DEF N
  <2> QED
    BY <1>6, Zenon DEF Min

\* iter holds the fold over each subset of S.
FoldsOver(iter, S, base, pick, step) ==
    \A s \in SUBSET S :
        iter[s] = IF s = {} THEN base
                  ELSE step[<<pick[s], iter[s \ {pick[s]}]>>]

PicksFrom(pick, S) == \A s \in SUBSET S : s # {} => pick[s] \in s
StepsIn(step, S, X) == \A x \in S, r \in X : step[<<x, r>>] \in X

\* The fold of a finite set by any choice of next element is a function on
\* its subsets: what the library's MapThenFoldSet chooses exists.
LEMMA FoldExists ==
    ASSUME NEW S, IsFiniteSet(S), NEW X, NEW base \in X,
           NEW pick, PicksFrom(pick, S), NEW step, StepsIn(step, S, X)
    PROVE  \E iter \in [SUBSET S -> X] : FoldsOver(iter, S, base, pick, step)
<1> USE DEF PicksFrom, StepsIn
<1> DEFINE Upto(n) == {s \in SUBSET S : Cardinality(s) <= n}
           Good(it, n) == \A s \in Upto(n) :
                  it[s] = IF s = {} THEN base
                            ELSE step[<<pick[s], it[s \ {pick[s]}]>>]
           N == {n \in Nat : \E it \in [Upto(n) -> X] : Good(it, n)}
<1>1. \A s \in SUBSET S : IsFiniteSet(s) /\ Cardinality(s) \in Nat /\ Cardinality(s) <= Cardinality(S)
                          /\ (Cardinality(s) = 0 <=> s = {})
  BY FS_Subset, FS_CardinalityType, FS_EmptySet
<1>2. \A s \in SUBSET S : s # {} => /\ pick[s] \in S
                                    /\ s \ {pick[s]} \in SUBSET S
                                    /\ Cardinality(s \ {pick[s]}) = Cardinality(s) - 1
  BY <1>1, FS_RemoveElement
<1>3. 0 \in N
  <2> DEFINE it == [s \in Upto(0) |-> base]
  <2>1. it \in [Upto(0) -> X]
    OBVIOUS
  <2>2. \A s \in Upto(0) : s = {}
    BY <1>1
  <2>3. Good(it, 0)
    BY <2>2
  <2> QED
    BY <2>1, <2>3
<1>4. ASSUME NEW n \in N PROVE n + 1 \in N
  <2>1. PICK it \in [Upto(n) -> X] : Good(it, n)
    OBVIOUS
  <2> DEFINE iu == [s \in Upto(n + 1) |-> IF s = {} THEN base ELSE step[<<pick[s], it[s \ {pick[s]}]>>]]
  <2>2. ASSUME NEW s \in Upto(n + 1), s # {}
        PROVE  s \ {pick[s]} \in Upto(n) /\ pick[s] \in S
    BY <1>1, <1>2, <2>2
  <2>3. iu \in [Upto(n + 1) -> X]
    BY <2>2
  <2>4. ASSUME NEW s \in Upto(n) PROVE iu[s] = it[s]
    <3>1. s \in Upto(n + 1)
      BY <1>1
    <3> QED
      BY <2>1, <3>1
  <2>5. Good(iu, n + 1)
    BY <2>2, <2>4
  <2> HIDE DEF iu, Good, Upto
  <2>6. \E jt \in [Upto(n + 1) -> X] : Good(jt, n + 1)
    BY <2>3, <2>5
  <2>7. n + 1 \in Nat
    OBVIOUS
  <2> QED
    BY <2>6, <2>7
<1>5. N = Nat
  <2> HIDE DEF N
  <2>1. N \subseteq Nat BY DEF N
  <2> QED BY <1>3, <1>4, <2>1, NatInd
<1>6. Cardinality(S) \in N
  BY <1>5, FS_CardinalityType
<1>7. Upto(Cardinality(S)) = SUBSET S
  BY <1>1
<1> QED
  BY <1>6, <1>7 DEF FoldsOver

\* The element with which a fold over a set begins.
First(s) == CHOOSE x \in s : TRUE

\* sums holds the sum of f over each subset of S.
Sums(sums, S, f) ==
    \A s \in SUBSET S :
        sums[s] = IF s = {} THEN 0 ELSE f[First(s)] + sums[s \ {First(s)}]

\* Induction over the subsets of a finite set, one element at a time.
LEMMA SubsetInd ==
    ASSUME NEW S, IsFiniteSet(S), NEW P, {} \in P,
           \A s \in SUBSET S : (\A x \in s : s \ {x} \in P) => s \in P
    PROVE  SUBSET S \subseteq P
<1> DEFINE N == {n \in Nat : \A s \in SUBSET S : Cardinality(s) = n => s \in P}
<1>1. \A s \in SUBSET S : IsFiniteSet(s) /\ Cardinality(s) \in Nat
                          /\ (Cardinality(s) = 0 <=> s = {})
  BY FS_Subset, FS_CardinalityType, FS_EmptySet
<1>2. \A s \in SUBSET S : \A x \in s : Cardinality(s \ {x}) = Cardinality(s) - 1
  BY <1>1, FS_RemoveElement
<1>3. 0 \in N
  BY <1>1
<1>4. ASSUME NEW n \in N PROVE n + 1 \in N
  <2> SUFFICES ASSUME NEW s \in SUBSET S, Cardinality(s) = n + 1 PROVE s \in P
    OBVIOUS
  <2>1. \A x \in s : s \ {x} \in P
    BY <1>2
  <2> QED
    BY <2>1
<1>5. N = Nat
  <2> HIDE DEF N
  <2>1. N \subseteq Nat BY DEF N
  <2> QED BY <1>3, <1>4, <2>1, NatInd
<1> QED
  BY <1>1, <1>5

\* The element a fold takes first is one of the set.
LEMMA FirstIn == \A s : s # {} => First(s) \in s
BY DEF First

\* A sum by folding depends on the values of its elements only.
LEMMA SumsUnique ==
    ASSUME NEW S, IsFiniteSet(S), NEW f, NEW g, \A x \in S : f[x] = g[x],
           NEW a, Sums(a, S, f), NEW b, Sums(b, S, g)
    PROVE  \A s \in SUBSET S : a[s] = b[s]
<1> DEFINE P == {s \in SUBSET S : a[s] = b[s]}
<1>1. {} \in P
  BY DEF Sums
<1>2. ASSUME NEW s \in SUBSET S, \A x \in s : s \ {x} \in P
      PROVE  s \in P
  <2>1. CASE s = {}
    BY <1>1, <2>1
  <2>2. CASE s # {}
    <3>1. First(s) \in s /\ First(s) \in S
      BY <2>2, FirstIn
    <3>2. a[s \ {First(s)}] = b[s \ {First(s)}] /\ f[First(s)] = g[First(s)]
      BY <1>2, <3>1
    <3> QED
      BY <2>2, <3>1, <3>2 DEF Sums
  <2> QED
    BY <2>1, <2>2
<1>3. SUBSET S \subseteq P
  <2> HIDE DEF P
  <2> QED BY <1>1, <1>2, SubsetInd
<1> QED
  BY <1>3

Ints(f, S) == \A x \in S : f[x] \in Int

\* The partial sums of integers exist and are integers.
LEMMA SumsExist ==
    ASSUME NEW S, IsFiniteSet(S), NEW f, Ints(f, S)
    PROVE  \E sums \in [SUBSET S -> Int] : Sums(sums, S, f)
<1> USE DEF Ints
<1> DEFINE pick == [s \in SUBSET S |-> First(s)]
           step == [xr \in S \X Int |-> f[xr[1]] + xr[2]]
<1>1. \A s \in SUBSET S : s # {} => pick[s] \in s
  BY FirstIn
<1>2. \A x \in S, r \in Int : step[<<x, r>>] \in Int
  OBVIOUS
<1>3. 0 \in Int
  OBVIOUS
<1>4. PICK sums \in [SUBSET S -> Int] : FoldsOver(sums, S, 0, pick, step)
  <2>1. PicksFrom(pick, S) /\ StepsIn(step, S, Int)
    BY <1>1, <1>2 DEF PicksFrom, StepsIn
  <2> HIDE DEF pick, step
  <2> DEFINE X == Int
             base == 0
  <2>2. base \in X
    OBVIOUS
  <2> HIDE DEF X, base
  <2>3. \E sums \in [SUBSET S -> X] : FoldsOver(sums, S, base, pick, step)
    BY <2>1, <2>2, FoldExists DEF X
  <2> QED BY <2>3 DEF X, base
<1>5. ASSUME NEW s \in SUBSET S, s # {}
      PROVE  sums[s] = f[First(s)] + sums[s \ {First(s)}]
  <2>1. First(s) \in s /\ First(s) \in S /\ s \ {First(s)} \in SUBSET S
    BY <1>5, FirstIn
  <2> QED
    BY <1>4, <1>5, <2>1 DEF FoldsOver
<1> QED
  BY <1>4, <1>5 DEF Sums, FoldsOver

\* Two summands may change places.
LEMMA Swap == \A a, b, c \in Int : a + (b + c) = b + (a + c)
OBVIOUS

(* In a sum any element may be taken first.                                *)
AnyFirst(sums, S, f) == \A s \in SUBSET S : \A x \in s : sums[s] = f[x] + sums[s \ {x}]

\* The order in which a set is summed does not matter.
LEMMA SumsAny ==
    ASSUME NEW S, IsFiniteSet(S), NEW f, Ints(f, S),
           NEW sums \in [SUBSET S -> Int], Sums(sums, S, f)
    PROVE  AnyFirst(sums, S, f)
<1> USE DEF Ints
<1> DEFINE P == {s \in SUBSET S : \A x \in s : sums[s] = f[x] + sums[s \ {x}]}
<1>1. {} \in P
  OBVIOUS
<1>2. ASSUME NEW s \in SUBSET S, \A x \in s : s \ {x} \in P
      PROVE  s \in P
  <2> SUFFICES ASSUME NEW x \in s PROVE sums[s] = f[x] + sums[s \ {x}]
    OBVIOUS
  <2> DEFINE y == First(s)
  <2>1. y \in s
    BY FirstIn
  <2>2. sums[s] = f[y] + sums[s \ {y}]
    BY DEF Sums
  <2>3. CASE x = y
    BY <2>2, <2>3
  <2>4. CASE x # y
    <3> DEFINE z == (s \ {x}) \ {y}
    <3> HIDE DEF y
    <3>1. sums[s \ {y}] = f[x] + sums[(s \ {y}) \ {x}]
      BY <1>2, <2>1, <2>4
    <3>2. sums[s \ {x}] = f[y] + sums[z]
      BY <1>2, <2>1, <2>4
    <3>3. (s \ {y}) \ {x} = z
      OBVIOUS
    <3>4. f[x] \in Int /\ f[y] \in Int /\ sums[z] \in Int
      BY <2>1
    <3>5. f[y] + (f[x] + sums[z]) = f[x] + (f[y] + sums[z])
      BY <3>4, Swap
    <3> HIDE DEF z
    <3> QED
      BY <2>2, <3>1, <3>2, <3>3, <3>5, Zenon
  <2> QED
    BY <2>3, <2>4
<1>3. \A s \in SUBSET S : (\A x \in s : s \ {x} \in P) => s \in P
  BY <1>2
<1>4. SUBSET S \subseteq P
  <2> HIDE DEF P
  <2> QED BY <1>1, <1>3, SubsetInd, SMTT(30)
<1> QED
  BY <1>4 DEF AnyFirst

\* The library's SumFunctionOnSet is the sum by folding.
LEMMA SumIsSums ==
    ASSUME NEW S, IsFiniteSet(S), NEW f, NEW sums, Sums(sums, S, f), NEW T \in SUBSET S
    PROVE  SumFunctionOnSet(f, T) = sums[T]
<1> DEFINE Eq(it) == it = [s \in SUBSET T |-> IF s = {} THEN 0
                                            ELSE f[First(s)] + it[s \ {First(s)}]]
           it0 == CHOOSE it : Eq(it)
<1>1. SumFunctionOnSet(f, T) = it0[T]
  BY DEF SumFunctionOnSet, FoldFunctionOnSet, MapThenFoldSet, First
<1>2. \A s \in SUBSET T : s \in SUBSET S /\ s \ {First(s)} \in SUBSET T
  OBVIOUS
<1>3. Eq([s \in SUBSET T |-> sums[s]])
  BY <1>2 DEF Sums
<1>4. Eq(it0)
  <2> HIDE DEF Eq
  <2> QED BY <1>3
<1>5. Sums(it0, T, f) /\ Sums(sums, T, f)
  <2> HIDE DEF it0
  <2> QED
  BY <1>2, <1>4 DEF Sums
<1>6. it0[T] = sums[T]
  <2>1. IsFiniteSet(T)
    BY FS_Subset
  <2> HIDE DEF it0
  <2> QED
  BY <1>5, <2>1, SumsUnique
<1> QED
  BY <1>1, <1>6

\* Addition is associative.
LEMMA Assoc == \A a, b, c \in Int : (a + b) + c = a + (b + c)
OBVIOUS

(* Sums over the subsets of a finite set.                                  *)
SumsOf(f, s) ==
    /\ SumFunctionOnSet(f, s) \in Int
    /\ \A x \in s : SumFunctionOnSet(f, s) = f[x] + SumFunctionOnSet(f, s \ {x})

\* The empty sum is 0, and any element may be split off a sum.
LEMMA SumFacts ==
    ASSUME NEW S, IsFiniteSet(S), NEW f, Ints(f, S)
    PROVE  SumFunctionOnSet(f, {}) = 0 /\ \A s \in SUBSET S : SumsOf(f, s)
<1> USE DEF Ints, SumsOf
<1>1. PICK sums \in [SUBSET S -> Int] : Sums(sums, S, f)
  BY SumsExist
<1>2. \A s \in SUBSET S : SumFunctionOnSet(f, s) = sums[s]
  BY <1>1, SumIsSums
<1>3. \A s \in SUBSET S : \A x \in s : sums[s] = f[x] + sums[s \ {x}]
  <2>1. Sums(sums, S, f)
    BY <1>1
  <2>2. Ints(f, S)
    BY DEF Ints
  <2>3. AnyFirst(sums, S, f)
    BY <1>1, <2>1, <2>2, SumsAny
  <2> QED
    BY <2>3 DEF AnyFirst
<1>4. sums[{}] = 0 /\ {} \in SUBSET S
  BY <1>1 DEF Sums
<1>5. \A s \in SUBSET S : \A x \in s : s \ {x} \in SUBSET S
  OBVIOUS
<1> QED
  BY <1>1, <1>2, <1>3, <1>4, <1>5

\* Sums of functions that agree on the set are equal.
LEMMA SumAgrees ==
    ASSUME NEW S, IsFiniteSet(S), NEW f, Ints(f, S), NEW g, \A x \in S : f[x] = g[x]
    PROVE  SumFunctionOnSet(f, S) = SumFunctionOnSet(g, S)
<1>0. Ints(g, S)
  BY DEF Ints
<1>1. PICK a \in [SUBSET S -> Int] : Sums(a, S, f)
  BY SumsExist
<1>2. PICK b \in [SUBSET S -> Int] : Sums(b, S, g)
  BY <1>0, SumsExist
<1>3. a[S] = b[S]
  BY <1>1, <1>2, SumsUnique
<1> QED
  BY <1>1, <1>2, <1>3, SumIsSums

\* The sum over two disjoint sets is the sum of their sums.
LEMMA SumDisjoint ==
    ASSUME NEW S, IsFiniteSet(S), NEW f, Ints(f, S),
           NEW T \in SUBSET S, NEW U \in SUBSET S, T \cap U = {}
    PROVE  SumFunctionOnSet(f, T \cup U) = SumFunctionOnSet(f, T) + SumFunctionOnSet(f, U)
<1> DEFINE sum(s) == SumFunctionOnSet(f, s)
           P == {s \in SUBSET T : sum(s \cup U) = sum(s) + sum(U)}
<1>1. \A s \in SUBSET S : sum(s) \in Int /\ \A x \in s : sum(s) = f[x] + sum(s \ {x})
  BY SumFacts DEF SumsOf
<1>2. sum({}) = 0
  BY SumFacts
<1>3. IsFiniteSet(T)
  BY FS_Subset
<1> HIDE DEF sum
<1>4. {} \in P
  <2>1. {} \cup U = U /\ 0 + sum(U) = sum(U)
    BY <1>1
  <2> QED
    BY <1>2, <2>1
<1>5. ASSUME NEW s \in SUBSET T, \A x \in s : s \ {x} \in P
      PROVE  s \in P
  <2>1. CASE s = {}
    BY <1>4, <2>1
  <2>2. CASE s # {}
    <3>1. PICK x \in s : TRUE
      BY <2>2
    <3>2. sum((s \ {x}) \cup U) = sum(s \ {x}) + sum(U)
      BY <1>5
    <3>3. sum(s) = f[x] + sum(s \ {x})
      BY <1>1
    <3>4. sum(s \cup U) = f[x] + sum((s \cup U) \ {x})
      BY <1>1
    <3>5. (s \cup U) \ {x} = (s \ {x}) \cup U
      OBVIOUS
    <3>6. x \in S /\ f[x] \in Int /\ sum(s \ {x}) \in Int /\ sum(U) \in Int
      BY <1>1 DEF Ints
    <3>7. (f[x] + sum(s \ {x})) + sum(U) = f[x] + (sum(s \ {x}) + sum(U))
      BY <3>6, Assoc
    <3>8. sum(s \cup U) = sum(s) + sum(U)
      BY <3>2, <3>3, <3>4, <3>5, <3>7, Zenon
    <3> QED
      BY <3>8
  <2> QED
    BY <2>1, <2>2
<1>6. \A s \in SUBSET T : (\A x \in s : s \ {x} \in P) => s \in P
  BY <1>5
<1>7. SUBSET T \subseteq P
  <2> HIDE DEF P
  <2> QED BY <1>3, <1>4, <1>6, SubsetInd
<1> QED
  BY <1>7 DEF sum
-----------------------------------------------------------------------------
(***************************************************************************)
(* Answers over some of a table's rows.                                    *)
(***************************************************************************)
IsTable(t) == t \in Seq(Seq([key : Nat, val : Int]))

Vals(t) == [p \in Rows(t) |-> RowAt(t, p).val]

SumOver(t, R, k) == SumFunctionOnSet(Vals(t), {p \in R : RowAt(t, p).key = k})

KeysOver(t, R) == {RowAt(t, p).key : p \in R}

AnswerOver(t, R) == [k \in KeysOver(t, R) |-> Wrap(SumOver(t, R, k))]

\* HashMap<u32, i64>
HashMaps == UNION {[ks -> -IntBound .. IntBound - 1] : ks \in SUBSET Nat}

\* Sequences of narrower things.
LEMMA SeqWider ==
    ASSUME NEW A, NEW B, A \subseteq B, NEW s \in Seq(A)
    PROVE  s \in Seq(B)
  OBVIOUS

\* Columns of u32 keys and i64 values are a table.
LEMMA CodedTable ==
    ASSUME NEW K \in SUBSET Nat, NEW t \in Seq(Seq([key : K, val : -IntBound .. IntBound - 1]))
    PROVE  IsTable(t)
<1> DEFINE coded == [key : K, val : -IntBound .. IntBound - 1]
           wide == [key : Nat, val : Int]
<1>1. coded \subseteq wide
  <2>1. K \subseteq Nat /\ -IntBound .. IntBound - 1 \subseteq Int
    OBVIOUS
  <2> QED
    BY <2>1, Zenon
<1> HIDE DEF coded, wide
<1>2. Seq(coded) \subseteq Seq(wide)
  BY <1>1, SeqWider
<1> DEFINE cs == Seq(coded)
           ws == Seq(wide)
<1>3. t \in Seq(cs)
  BY DEF coded
<1> HIDE DEF cs, ws
<1>4. t \in Seq(ws)
  <2>1. cs \subseteq ws
    BY <1>2 DEF cs, ws
  <2> QED
    BY <1>3, <2>1, SeqWider
<1> QED
  BY <1>4 DEF ws, wide, IsTable

\* The query's answer is the one over all passing rows.
LEMMA AnswerIsOver == \A t : Answer(t) = AnswerOver(t, PassingRows(t))
  BY DEF Answer, AnswerOver, Groups, KeysOver, ExactSum, SumOver, Vals

\* A row of a table has a key and a value.
LEMMA RowFacts ==
    ASSUME NEW t, IsTable(t), NEW p \in Rows(t)
    PROVE  /\ p = <<p[1], p[2]>> /\ p[1] \in DOMAIN t /\ p[2] \in DOMAIN t[p[1]]
           /\ RowAt(t, p) \in [key : Nat, val : Int]
<1>1. PICK b \in DOMAIN t : p \in {b} \X DOMAIN t[b]
  BY DEF Rows
<1>2. t[b] \in Seq([key : Nat, val : Int])
  BY DEF IsTable
<1>3. PICK i \in DOMAIN t[b] : p = <<b, i>>
  BY <1>1
<1>4. p[1] = b /\ p[2] = i
  BY <1>3
<1>5. t[b][i] \in [key : Nat, val : Int]
  <2> DEFINE row == [key : Nat, val : Int]
  <2> HIDE DEF row
  <2>1. t[b] \in Seq(row) /\ i \in DOMAIN t[b]
    BY <1>2 DEF row
  <2>2. t[b][i] \in row
    BY <2>1
  <2> QED
    BY <2>2 DEF row
<1> QED
  BY <1>3, <1>4, <1>5, Zenon DEF RowAt

\* A place in a batch of a table is a row of the table.
LEMMA RowIn ==
    ASSUME NEW t, NEW b \in DOMAIN t, NEW i \in DOMAIN t[b]
    PROVE  <<b, i>> \in Rows(t) /\ RowAt(t, <<b, i>>) = t[b][i]
  BY DEF Rows, RowAt

\* A table has finitely many rows.
LEMMA RowsFinite ==
    ASSUME NEW t, IsTable(t)
    PROVE  IsFiniteSet(Rows(t))
<1> DEFINE row == [b \in DOMAIN t |-> {b} \X DOMAIN t[b]]
           T == {{b} \X DOMAIN t[b] : b \in DOMAIN t}
<1>1. /\ DOMAIN t = 1 .. Len(t) /\ Len(t) \in Nat
      /\ \A b \in DOMAIN t : DOMAIN t[b] = 1 .. Len(t[b]) /\ Len(t[b]) \in Nat
  BY DEF IsTable
<1>2. IsFiniteSet(DOMAIN t) /\ \A b \in DOMAIN t : IsFiniteSet({b} \X DOMAIN t[b])
  <2>1. ASSUME NEW b \in DOMAIN t
        PROVE  IsFiniteSet({b} \X DOMAIN t[b])
    <3>1. IsFiniteSet({b})
      BY FS_Singleton
    <3>2. IsFiniteSet(DOMAIN t[b])
      BY <1>1, FS_Interval
    <3> QED
      BY <3>1, <3>2, FS_Product
  <2> QED
    BY <1>1, <2>1, FS_Interval
<1>3. row \in Surjection(DOMAIN t, T)
  BY DEF Surjection
<1>4. IsFiniteSet(T) /\ \A s \in T : IsFiniteSet(s)
  <2> HIDE DEF row
  <2>1. IsFiniteSet(T)
    <3> HIDE DEF T
    <3> QED
      BY <1>2, <1>3, FS_Surjection
  <2> QED
    BY <1>2, <2>1
<1>5. IsFiniteSet(UNION T)
  <2> HIDE DEF T
  <2> QED
    BY <1>4, FS_UNION
<1> QED
  BY <1>5 DEF Rows

\* The sum of a group is an integer, 0 without rows, and grows by one row.
LEMMA SumOverFacts ==
    ASSUME NEW t, IsTable(t), NEW R \in SUBSET Rows(t), NEW k
    PROVE  /\ SumOver(t, R, k) \in Int
           /\ k \notin KeysOver(t, R) => SumOver(t, R, k) = 0
           /\ \A p \in Rows(t) \ R :
                SumOver(t, R \cup {p}, k) =
                    IF RowAt(t, p).key = k THEN SumOver(t, R, k) + RowAt(t, p).val
                    ELSE SumOver(t, R, k)
<1> DEFINE T == {p \in R : RowAt(t, p).key = k}
           f == Vals(t)
<1>1. IsFiniteSet(Rows(t)) /\ Ints(f, Rows(t))
  BY RowsFinite, RowFacts DEF Vals, Ints
<1>2. SumFunctionOnSet(f, {}) = 0
      /\ \A s \in SUBSET Rows(t) : SumsOf(f, s)
  <2> HIDE DEF f
  <2> QED
    BY <1>1, SumFacts
<1>3. SumOver(t, R, k) \in Int
  BY <1>2 DEF SumOver, SumsOf
<1>4. k \notin KeysOver(t, R) => SumOver(t, R, k) = 0
  <2>1. k \notin KeysOver(t, R) => T = {}
    BY DEF KeysOver
  <2> QED
    BY <1>2, <2>1 DEF SumOver
<1>5. ASSUME NEW p \in Rows(t) \ R
      PROVE  SumOver(t, R \cup {p}, k) =
                    IF RowAt(t, p).key = k THEN SumOver(t, R, k) + RowAt(t, p).val
                    ELSE SumOver(t, R, k)
  <2> DEFINE U == {q \in R \cup {p} : RowAt(t, q).key = k}
  <2>1. SumOver(t, R \cup {p}, k) = SumFunctionOnSet(f, U)
    BY DEF SumOver
  <2>2. CASE RowAt(t, p).key = k
    <3>1. p \in U /\ U \ {p} = T /\ U \in SUBSET Rows(t)
      BY <2>2
    <3>2. SumFunctionOnSet(f, U) = f[p] + SumFunctionOnSet(f, U \ {p})
      BY <1>2, <3>1 DEF SumsOf
    <3>3. f[p] = RowAt(t, p).val /\ RowAt(t, p).val \in Int
      BY <1>1 DEF Vals, Ints
    <3>4. SumFunctionOnSet(f, T) = SumOver(t, R, k)
      BY DEF SumOver
    <3> HIDE DEF T, U, f
    <3>5. SumOver(t, R \cup {p}, k) = RowAt(t, p).val + SumOver(t, R, k)
      BY <2>1, <3>1, <3>2, <3>3, <3>4
    <3>6. RowAt(t, p).val + SumOver(t, R, k) = SumOver(t, R, k) + RowAt(t, p).val
      BY <1>3, <3>3
    <3> QED
      BY <2>2, <3>5, <3>6, Zenon
  <2>3. CASE RowAt(t, p).key # k
    <3>1. U = T
      BY <2>3
    <3> QED
      BY <2>1, <2>3, <3>1 DEF SumOver
  <2> QED
    BY <2>2, <2>3
<1> QED
  BY <1>3, <1>4, <1>5

\* The sums of a group over disjoint sets of rows add up.
LEMMA SumOverUnion ==
    ASSUME NEW t, IsTable(t), NEW R \in SUBSET Rows(t), NEW Q \in SUBSET Rows(t),
           R \cap Q = {}, NEW k
    PROVE  SumOver(t, R \cup Q, k) = SumOver(t, R, k) + SumOver(t, Q, k)
<1> DEFINE S == Rows(t)
           T == {p \in R : RowAt(t, p).key = k}
           U == {p \in Q : RowAt(t, p).key = k}
           f == Vals(t)
<1>1. IsFiniteSet(S) /\ Ints(f, S)
  BY RowsFinite, RowFacts DEF Vals, Ints
<1>2. T \in SUBSET S /\ U \in SUBSET S /\ T \cap U = {}
  OBVIOUS
<1>3. SumFunctionOnSet(f, T \cup U) = SumFunctionOnSet(f, T) + SumFunctionOnSet(f, U)
  <2> HIDE DEF S, T, U, f
  <2> QED
    BY <1>1, <1>2, SumDisjoint
<1>4. {p \in R \cup Q : RowAt(t, p).key = k} = T \cup U
  OBVIOUS
<1> QED
  BY <1>3, <1>4 DEF SumOver

\* An entry that is not there counts as 0, which is the sum of no rows.
LEMMA ValueOver ==
    ASSUME NEW t, IsTable(t), NEW R \in SUBSET Rows(t), NEW k
    PROVE  ValueAt(AnswerOver(t, R), k) = Wrap(SumOver(t, R, k))
<1>1. k \notin KeysOver(t, R) => Wrap(SumOver(t, R, k)) = 0
  <2>1. InRange(0)
    BY IntBoundAssumption DEF InRange
  <2> QED
    BY <2>1, SumOverFacts, WrapFits
<1> QED
  BY <1>1 DEF ValueAt, AnswerOver

\* An answer is a map from keys to i64 sums.
LEMMA OverInHashMaps ==
    ASSUME NEW t, IsTable(t), NEW R \in SUBSET Rows(t)
    PROVE  AnswerOver(t, R) \in HashMaps
<1>1. KeysOver(t, R) \in SUBSET Nat
  BY RowFacts DEF KeysOver
<1>2. \A k : Wrap(SumOver(t, R, k)) \in -IntBound .. IntBound - 1
  BY SumOverFacts, WrapInRange DEF InRange
<1> QED
  BY <1>1, <1>2 DEF AnswerOver, HashMaps

\* A looked-up sum is an integer.
LEMMA ValueInInt ==
    ASSUME NEW m \in HashMaps, NEW k
    PROVE  ValueAt(m, k) \in Int
<1>1. PICK ks \in SUBSET Nat : m \in [ks -> -IntBound .. IntBound - 1]
  BY DEF HashMaps
<1>2. k \in ks => m[k] \in Int
  BY <1>1, IntBoundAssumption
<1>3. DOMAIN m = ks
  BY <1>1
<1> QED
  BY <1>2, <1>3 DEF ValueAt

\* Merging keeps a map a map.
LEMMA MergedInHashMaps ==
    ASSUME NEW a \in HashMaps, NEW b \in HashMaps
    PROVE  MergeInto(a, b) \in HashMaps
<1>1. PICK ka \in SUBSET Nat : a \in [ka -> -IntBound .. IntBound - 1]
  BY DEF HashMaps
<1>2. PICK kb \in SUBSET Nat : b \in [kb -> -IntBound .. IntBound - 1]
  BY DEF HashMaps
<1>3. \A k : ValueAt(a, k) \in Int /\ ValueAt(b, k) \in Int
  BY ValueInInt
<1>4. \A k : Wrap(ValueAt(a, k) + ValueAt(b, k)) \in -IntBound .. IntBound - 1
  BY <1>3, WrapInRange DEF InRange
<1>5. MergeInto(a, b) \in [ka \cup kb -> -IntBound .. IntBound - 1]
  BY <1>1, <1>2, <1>4 DEF MergeInto
<1> QED
  BY <1>5 DEF HashMaps

\* Adding a row keeps a map a map.
LEMMA AddedInHashMaps ==
    ASSUME NEW m \in HashMaps, NEW k \in Nat, NEW v \in Int
    PROVE  AddTo(m, k, v) \in HashMaps
<1>1. PICK ks \in SUBSET Nat : m \in [ks -> -IntBound .. IntBound - 1]
  BY DEF HashMaps
<1>2. ValueAt(m, k) \in Int
  BY ValueInInt
<1>3. Wrap(ValueAt(m, k) + v) \in -IntBound .. IntBound - 1
  BY <1>2, WrapInRange DEF InRange
<1>4. AddTo(m, k, v) \in [ks \cup {k} -> -IntBound .. IntBound - 1]
  BY <1>1, <1>3 DEF AddTo
<1> QED
  BY <1>4 DEF HashMaps

\* The empty map is a map.
LEMMA EmptyInHashMaps == EmptyMap \in HashMaps
<1>1. EmptyMap \in [{} -> -IntBound .. IntBound - 1]
  BY DEF EmptyMap
<1> QED
  BY <1>1 DEF HashMaps

\* No rows, no groups.
LEMMA OverNothing == \A t : AnswerOver(t, {}) = EmptyMap
<1> SUFFICES ASSUME NEW t PROVE AnswerOver(t, {}) = EmptyMap
  OBVIOUS
<1>1. KeysOver(t, {}) = 1 .. 0
  BY DEF KeysOver
<1> QED
  BY <1>1 DEF AnswerOver, EmptyMap

(***************************************************************************)
(* One row more is one entry(key).or_insert(0) += val.                     *)
(***************************************************************************)
LEMMA OneRowMore ==
    ASSUME NEW t, IsTable(t), NEW R \in SUBSET Rows(t), NEW p \in Rows(t) \ R
    PROVE  AnswerOver(t, R \cup {p}) =
               AddTo(AnswerOver(t, R), RowAt(t, p).key, RowAt(t, p).val)
<1> DEFINE k == RowAt(t, p).key
           v == RowAt(t, p).val
           m == AnswerOver(t, R)
<1>1. KeysOver(t, R \cup {p}) = KeysOver(t, R) \cup {k} /\ DOMAIN m = KeysOver(t, R)
  BY DEF KeysOver, AnswerOver
<1>2. v \in Int
  BY RowFacts
<1>3. ASSUME NEW x \in KeysOver(t, R) \cup {k}
      PROVE  Wrap(SumOver(t, R \cup {p}, x)) =
                 IF x = k THEN Wrap(ValueAt(m, k) + v) ELSE m[x]
  <2>1. CASE x = k
    <3>1. SumOver(t, R \cup {p}, k) = SumOver(t, R, k) + v /\ SumOver(t, R, k) \in Int
      BY SumOverFacts
    <3>2. Wrap(Wrap(SumOver(t, R, k)) + v) = Wrap(SumOver(t, R, k) + v)
      BY <1>2, <3>1, WrapPlus
    <3>3. ValueAt(m, k) = Wrap(SumOver(t, R, k))
      BY ValueOver
    <3> QED
      BY <2>1, <3>1, <3>2, <3>3, Zenon
  <2>2. CASE x # k
    <3>1. SumOver(t, R \cup {p}, x) = SumOver(t, R, x)
      BY <2>2, SumOverFacts
    <3> QED
      BY <2>2, <3>1 DEF AnswerOver
  <2> QED
    BY <2>1, <2>2
<1> QED
  BY <1>1, <1>3 DEF AnswerOver, AddTo

(***************************************************************************)
(* The maps of two disjoint sets of rows merge into the map of their       *)
(* union, also where their sums have wrapped.                              *)
(***************************************************************************)
THEOREM TwoMapsMerge ==
    ASSUME NEW t, IsTable(t), NEW R \in SUBSET Rows(t), NEW Q \in SUBSET Rows(t),
           R \cap Q = {}
    PROVE  MergeInto(AnswerOver(t, R), AnswerOver(t, Q)) = AnswerOver(t, R \cup Q)
<1>1. KeysOver(t, R \cup Q) = KeysOver(t, R) \cup KeysOver(t, Q)
  BY DEF KeysOver
<1>2. ASSUME NEW k
      PROVE  Wrap(SumOver(t, R \cup Q, k)) =
                 Wrap(ValueAt(AnswerOver(t, R), k) + ValueAt(AnswerOver(t, Q), k))
  <2>1. SumOver(t, R \cup Q, k) = SumOver(t, R, k) + SumOver(t, Q, k)
    BY SumOverUnion
  <2>2. /\ ValueAt(AnswerOver(t, R), k) = Wrap(SumOver(t, R, k))
        /\ ValueAt(AnswerOver(t, Q), k) = Wrap(SumOver(t, Q, k))
    BY ValueOver
  <2>3. SumOver(t, R, k) \in Int /\ SumOver(t, Q, k) \in Int
    BY SumOverFacts
  <2>4. Wrap(Wrap(SumOver(t, R, k)) + Wrap(SumOver(t, Q, k)))
            = Wrap(SumOver(t, R, k) + SumOver(t, Q, k))
    BY <2>3, WrapSum
  <2> QED
    BY <2>1, <2>2, <2>4, Zenon
<1> QED
  BY <1>1, <1>2 DEF AnswerOver, MergeInto

\* An answer depends on the rows it is over only.
LEMMA SameRows ==
    ASSUME NEW t, IsTable(t), NEW u, IsTable(u),
           NEW R \in SUBSET Rows(t), R \in SUBSET Rows(u),
           \A p \in R : RowAt(t, p) = RowAt(u, p)
    PROVE  AnswerOver(t, R) = AnswerOver(u, R)
<1>1. KeysOver(t, R) = KeysOver(u, R)
  BY DEF KeysOver
<1>2. ASSUME NEW k PROVE SumOver(t, R, k) = SumOver(u, R, k)
  <2> DEFINE S == {p \in R : RowAt(t, p).key = k}
             f == Vals(t)
             g == Vals(u)
  <2>1. {p \in R : RowAt(u, p).key = k} = S
    OBVIOUS
  <2>2. IsFiniteSet(S)
    BY RowsFinite, FS_Subset
  <2>3. Ints(f, S) /\ \A p \in S : f[p] = g[p]
    BY RowFacts DEF Vals, Ints
  <2>4. SumFunctionOnSet(f, S) = SumFunctionOnSet(g, S)
    <3> HIDE DEF S, f, g
    <3> QED
      BY <2>2, <2>3, SumAgrees
  <2> QED
    BY <2>1, <2>4 DEF SumOver
<1> QED
  BY <1>1, <1>2 DEF AnswerOver

\* The answer for a table that is part of another.
LEMMA PartOfTable ==
    ASSUME NEW t, IsTable(t), NEW u, IsTable(u),
           \A r \in Rows(u) : r \in Rows(t) /\ RowAt(u, r) = RowAt(t, r)
    PROVE  Answer(u) = AnswerOver(t, PassingRows(u))
<1>1. PassingRows(u) \in SUBSET Rows(u) /\ PassingRows(u) \in SUBSET Rows(t)
  BY DEF PassingRows
<1>2. AnswerOver(u, PassingRows(u)) = AnswerOver(t, PassingRows(u))
  BY <1>1, SameRows
<1> QED
  BY <1>2, AnswerIsOver
-----------------------------------------------------------------------------
(***************************************************************************)
(* The loops.  FoldLeft(op, base, seq) is the last of the values F[0] =    *)
(* base, F[1], ..., F[Len(seq)] that the loop's variable goes through.     *)
(***************************************************************************)
\* The last turn of a loop over 1 .. i + 1 is at i + 1.
LEMMA LastTurn ==
    ASSUME NEW n \in Nat, NEW i \in 0 .. n - 1
    PROVE  /\ 1 .. (i + 1) \in SUBSET (1 .. n) /\ 1 .. (i + 1) # {}
           /\ Max(1 .. (i + 1)) = i + 1
           /\ (1 .. (i + 1)) \ {i + 1} = 1 .. i
<1>1. i \in Nat /\ i + 1 <= n /\ i + 1 \in 1 .. (i + 1)
  OBVIOUS
<1>2. \A x \in 1 .. (i + 1) : x \in 1 .. n
  BY <1>1
<1>3. (1 .. (i + 1)) \ {i + 1} = 1 .. i
  BY <1>1
<1>4. Max(1 .. (i + 1)) = i + 1
  BY <1>1 DEF Max
<1> QED
  BY <1>1, <1>2, <1>3, <1>4

\* The last of a set of turns is one of them.
LEMMA MaxIn ==
    ASSUME NEW n \in Nat, NEW s \in SUBSET (1 .. n), s # {}
    PROVE  Max(s) \in s
<1> DEFINE N == {i \in Nat : \A r \in SUBSET (1 .. i) :
                     r # {} => \E x \in r : \A y \in r : x >= y}
<1>1. 0 \in N
  <2>1. 1 .. 0 = {}
    OBVIOUS
  <2> QED
    BY <2>1
<1>2. ASSUME NEW i \in N PROVE i + 1 \in N
  <2> SUFFICES ASSUME NEW r \in SUBSET (1 .. i + 1), r # {}
               PROVE  \E x \in r : \A y \in r : x >= y
    OBVIOUS
  <2>1. CASE i + 1 \in r
    BY <2>1
  <2>2. CASE i + 1 \notin r
    <3>1. r \in SUBSET (1 .. i)
      BY <2>2
    <3> QED
      BY <3>1
  <2> QED
    BY <2>1, <2>2
<1>3. N = Nat
  <2>1. N \in SUBSET Nat
    OBVIOUS
  <2> HIDE DEF N
  <2> QED
    BY <1>1, <1>2, <2>1, NatInd
<1>4. \E x \in s : \A y \in s : x >= y
  BY <1>3
<1> QED
  BY <1>4 DEF Max

(***************************************************************************)
(* What a loop over 1 .. n computes: each of the loops below unfolds with  *)
(* this lemma.                                                             *)
(***************************************************************************)
Turns(n) == [s \in SUBSET (1 .. n) |-> Max(s)]

\* A loop of n turns, as a function on the sets of turns done.
LEMMA LoopExists ==
    ASSUME NEW n \in Nat, NEW X, NEW base \in X, NEW step, StepsIn(step, 1 .. n, X)
    PROVE  \E iter \in [SUBSET (1 .. n) -> X] :
               FoldsOver(iter, 1 .. n, base, Turns(n), step)
<1> DEFINE S == 1 .. n
           pick == Turns(n)
<1>1. IsFiniteSet(S)
  BY FS_Interval
<1>2. PicksFrom(pick, S)
  BY MaxIn DEF PicksFrom, Turns
<1> HIDE DEF S, pick
<1>3. StepsIn(step, S, X)
  BY DEF S
<1>4. \E iter \in [SUBSET S -> X] : FoldsOver(iter, S, base, pick, step)
  BY <1>1, <1>2, <1>3, FoldExists
<1> QED
  BY <1>4 DEF S, pick

\* MergeMaps is the loop of merge_hashmaps: one map after the other.
LEMMA MergeLoop ==
    ASSUME NEW n \in Nat, NEW maps, maps \in [1 .. n -> HashMaps]
    PROVE  \E F :
              /\ F[0] = EmptyMap /\ MergeMaps(maps) = F[n]
              /\ \A i \in 0 .. n - 1 : F[i + 1] = MergeInto(F[i], maps[i + 1])
<1> DEFINE step == [xr \in (1 .. n) \X HashMaps |-> MergeInto(xr[2], maps[xr[1]])]
           Eq(it) == it = [s \in SUBSET (1 .. n) |->
                              IF s = {} THEN EmptyMap
                              ELSE MergeInto(it[s \ {Max(s)}], maps[Max(s)])]
           iter == CHOOSE it : Eq(it)
           F == [i \in 0 .. n |-> iter[1 .. i]]
<1>1. MergeMaps(maps) = iter[1 .. n]
  BY DEF MergeMaps, FoldLeft, MapThenFoldSet
<1>2. EmptyMap \in HashMaps /\ \A a, b \in HashMaps : MergeInto(a, b) \in HashMaps
  BY MergedInHashMaps, EmptyInHashMaps
<1>3. StepsIn(step, 1 .. n, HashMaps)
  BY <1>2 DEF StepsIn
<1>4. PICK it0 \in [SUBSET (1 .. n) -> HashMaps] :
          FoldsOver(it0, 1 .. n, EmptyMap, Turns(n), step)
  <2> HIDE DEF step
  <2> QED
    BY <1>2, <1>3, LoopExists
<1>5. Eq(it0)
  <2>1. ASSUME NEW s \in SUBSET (1 .. n)
        PROVE  it0[s] = IF s = {} THEN EmptyMap
                        ELSE MergeInto(it0[s \ {Max(s)}], maps[Max(s)])
    <3>1. CASE s = {}
      BY <1>4, <3>1 DEF FoldsOver
    <3>2. CASE s # {}
      <4>1. Max(s) \in 1 .. n /\ s \ {Max(s)} \in SUBSET (1 .. n) /\ Turns(n)[s] = Max(s)
        BY <3>2, MaxIn DEF Turns
      <4>2. it0[s \ {Max(s)}] \in HashMaps
        BY <1>4, <4>1
      <4>3. it0[s] = step[<<Max(s), it0[s \ {Max(s)}]>>]
        BY <1>4, <3>2, <4>1 DEF FoldsOver
      <4> QED
        BY <3>2, <4>1, <4>2, <4>3
    <3> QED
      BY <3>1, <3>2
  <2> QED
    BY <2>1
<1>6. Eq(iter)
  <2> HIDE DEF Eq
  <2> QED
    BY <1>5
<1>7. \A s \in SUBSET (1 .. n) :
          iter[s] = IF s = {} THEN EmptyMap
                    ELSE MergeInto(iter[s \ {Max(s)}], maps[Max(s)])
  <2> HIDE DEF iter
  <2> QED
    BY <1>6
<1> HIDE DEF iter
<1>8. iter[1 .. 0] = EmptyMap
  <2>1. 1 .. 0 = {} /\ {} \in SUBSET (1 .. n)
    OBVIOUS
  <2> QED
    BY <1>7, <2>1
<1>9. ASSUME NEW i \in 0 .. n - 1
      PROVE  iter[1 .. (i + 1)] = MergeInto(iter[1 .. i], maps[i + 1])
  BY <1>7, LastTurn
<1>10. /\ F[0] = EmptyMap /\ F[n] = MergeMaps(maps)
       /\ \A i \in 0 .. n - 1 : F[i + 1] = MergeInto(F[i], maps[i + 1])
  BY <1>1, <1>8, <1>9
<1> QED
  BY <1>10

(***************************************************************************)
(* The loops that add rows, the selected ones of rows[1] .. rows[n], to a  *)
(* map.                                                                    *)
(***************************************************************************)
AddTurn(it, s, sel, rows) ==
    IF Max(s) \in sel
    THEN AddTo(it[s \ {Max(s)}], rows[Max(s)].key, rows[Max(s)].val)
    ELSE it[s \ {Max(s)}]

IsAddLoop(it, n, map, sel, rows) ==
    it = [s \in SUBSET (1 .. n) |-> IF s = {} THEN map ELSE AddTurn(it, s, sel, rows)]

AddsUp(F, n, map, sel, rows) ==
    /\ F[0] = map
    /\ \A i \in 0 .. n - 1 :
          F[i + 1] = IF i + 1 \in sel
                     THEN AddTo(F[i], rows[i + 1].key, rows[i + 1].val) ELSE F[i]

\* A loop that adds the selected rows of a batch to a map exists.
LEMMA AddLoopExists ==
    ASSUME NEW n \in Nat, NEW map \in HashMaps, NEW sel,
           NEW rows, \A i \in 1 .. n : rows[i] \in [key : Nat, val : Int]
    PROVE  \E it : IsAddLoop(it, n, map, sel, rows)
<1> DEFINE step == [xr \in (1 .. n) \X HashMaps |->
                       IF xr[1] \in sel
                       THEN AddTo(xr[2], rows[xr[1]].key, rows[xr[1]].val) ELSE xr[2]]
<1>1. StepsIn(step, 1 .. n, HashMaps)
  <2>1. ASSUME NEW i \in 1 .. n, NEW m \in HashMaps
        PROVE  AddTo(m, rows[i].key, rows[i].val) \in HashMaps
    <3>1. rows[i].key \in Nat /\ rows[i].val \in Int
      OBVIOUS
    <3> QED
      BY <3>1, AddedInHashMaps
  <2> QED
    BY <2>1 DEF StepsIn
<1>2. PICK it \in [SUBSET (1 .. n) -> HashMaps] :
          FoldsOver(it, 1 .. n, map, Turns(n), step)
  <2> HIDE DEF step
  <2> QED
    BY <1>1, LoopExists
<1>3. ASSUME NEW s \in SUBSET (1 .. n), s # {}
      PROVE  it[s] = AddTurn(it, s, sel, rows)
  <2>1. Max(s) \in 1 .. n /\ s \ {Max(s)} \in SUBSET (1 .. n) /\ Turns(n)[s] = Max(s)
    BY <1>3, MaxIn DEF Turns
  <2>2. it[s \ {Max(s)}] \in HashMaps
    BY <1>2, <2>1
  <2>3. it[s] = step[<<Max(s), it[s \ {Max(s)}]>>]
    BY <1>2, <1>3, <2>1 DEF FoldsOver
  <2> QED
    BY <2>1, <2>2, <2>3 DEF AddTurn
<1>4. it[{}] = map
  BY <1>2 DEF FoldsOver
<1> QED
  BY <1>2, <1>3, <1>4 DEF IsAddLoop

\* Its turns, one row after the other.
LEMMA AddLoopUnrolls ==
    ASSUME NEW n \in Nat, NEW map, NEW sel, NEW rows,
           NEW it, IsAddLoop(it, n, map, sel, rows)
    PROVE  \E F : F[n] = it[1 .. n] /\ AddsUp(F, n, map, sel, rows)
<1> DEFINE F == [i \in 0 .. n |-> it[1 .. i]]
<1>1. \A s \in SUBSET (1 .. n) :
          it[s] = IF s = {} THEN map ELSE AddTurn(it, s, sel, rows)
  BY DEF IsAddLoop
<1>2. it[1 .. 0] = map
  <2>1. 1 .. 0 = {} /\ {} \in SUBSET (1 .. n)
    OBVIOUS
  <2> QED
    BY <1>1, <2>1
<1>3. ASSUME NEW i \in 0 .. n - 1
      PROVE  it[1 .. (i + 1)] =
                 IF i + 1 \in sel
                 THEN AddTo(it[1 .. i], rows[i + 1].key, rows[i + 1].val) ELSE it[1 .. i]
  <2> DEFINE s == 1 .. (i + 1)
  <2>1. /\ s \in SUBSET (1 .. n) /\ s # {}
        /\ Max(s) = i + 1 /\ s \ {i + 1} = 1 .. i
    BY LastTurn
  <2> HIDE DEF s
  <2>2. it[s] = AddTurn(it, s, sel, rows)
    BY <1>1, <2>1
  <2>3. it[s] = IF i + 1 \in sel
                THEN AddTo(it[1 .. i], rows[i + 1].key, rows[i + 1].val) ELSE it[1 .. i]
    BY <2>1, <2>2, Zenon DEF AddTurn
  <2> QED
    BY <2>3 DEF s
<1>4. F[n] = it[1 .. n] /\ AddsUp(F, n, map, sel, rows)
  BY <1>2, <1>3 DEF AddsUp
<1> QED
  BY <1>4

IsBatch(batch) == batch \in Seq([key : Nat, val : Int])

\* A batch is a sequence of rows.
LEMMA BatchFacts ==
    ASSUME NEW batch, IsBatch(batch)
    PROVE  /\ Len(batch) \in Nat /\ DOMAIN batch = 1 .. Len(batch)
           /\ \A i \in 1 .. Len(batch) : batch[i] \in [key : Nat, val : Int]
<1> DEFINE row == [key : Nat, val : Int]
<1> HIDE DEF row
<1>1. batch \in Seq(row)
  BY DEF IsBatch, row
<1>2. \A i \in 1 .. Len(batch) : batch[i] \in row
  BY <1>1
<1> QED
  BY <1>1, <1>2 DEF row

\* aggregate_selected
LEMMA SelectedLoop ==
    ASSUME NEW batch, IsBatch(batch), NEW n \in 0 .. Len(batch), NEW sel,
           NEW map \in HashMaps
    PROVE  \E F : /\ AggregateFirst(batch, sel, n, map) = F[n]
                  /\ AddsUp(F, n, map, sel, batch)
<1> DEFINE Eq(it) ==
               it = [s \in SUBSET DOMAIN [i \in 1 .. n |-> i] |->
                        IF s = {} THEN map
                        ELSE IF [i \in 1 .. n |-> i][Max(s)] \in sel
                             THEN AddTo(it[s \ {Max(s)}],
                                        batch[[i \in 1 .. n |-> i][Max(s)]].key,
                                        batch[[i \in 1 .. n |-> i][Max(s)]].val)
                             ELSE it[s \ {Max(s)}]]
           iter == CHOOSE it : Eq(it)
<1>1. AggregateFirst(batch, sel, n, map) = iter[1 .. n]
  BY DEF AggregateFirst, FoldLeft, MapThenFoldSet
<1>2. n \in Nat /\ \A i \in 1 .. n : batch[i] \in [key : Nat, val : Int]
  BY BatchFacts
<1>3. \A s \in SUBSET (1 .. n) : s # {} => [i \in 1 .. n |-> i][Max(s)] = Max(s)
  BY <1>2, MaxIn
<1>4. ASSUME NEW it PROVE Eq(it) <=> IsAddLoop(it, n, map, sel, batch)
  BY <1>3, ZenonT(60) DEF IsAddLoop, AddTurn
<1> HIDE DEF Eq
<1>5. \E it : Eq(it)
  BY <1>2, <1>4, AddLoopExists
<1>6. Eq(iter)
  BY <1>5
<1> HIDE DEF iter
<1> QED
  BY <1>1, <1>2, <1>4, <1>6, AddLoopUnrolls

\* naive::execute's loop over a batch
LEMMA NaiveLoop ==
    ASSUME NEW batch, IsBatch(batch), NEW map \in HashMaps
    PROVE  \E F : /\ NaiveBatch(map, batch) = F[Len(batch)]
                  /\ AddsUp(F, Len(batch), map, EvaluatePredicate(batch), batch)
<1> DEFINE n == Len(batch)
           sel == EvaluatePredicate(batch)
           Eq(it) ==
               it = [s \in SUBSET DOMAIN batch |->
                        IF s = {} THEN map
                        ELSE IF Passes(batch[Max(s)])
                             THEN AddTo(it[s \ {Max(s)}],
                                        batch[Max(s)].key, batch[Max(s)].val)
                             ELSE it[s \ {Max(s)}]]
           iter == CHOOSE it : Eq(it)
<1>1. NaiveBatch(map, batch) = iter[DOMAIN batch]
  BY DEF NaiveBatch, FoldLeft, MapThenFoldSet
<1>2. /\ n \in Nat /\ DOMAIN batch = 1 .. n
      /\ \A i \in 1 .. n : batch[i] \in [key : Nat, val : Int]
  BY BatchFacts
<1>3. \A s \in SUBSET (1 .. n) : s # {} => (Max(s) \in sel <=> Passes(batch[Max(s)]))
  BY <1>2, MaxIn DEF EvaluatePredicate
<1>4. ASSUME NEW it PROVE Eq(it) <=> IsAddLoop(it, n, map, sel, batch)
  <2> HIDE DEF sel, n
  <2> QED
    BY <1>2, <1>3 DEF IsAddLoop, AddTurn
<1> HIDE DEF Eq
<1>5. \E it : Eq(it)
  BY <1>2, <1>4, AddLoopExists
<1>6. Eq(iter)
  BY <1>5
<1> HIDE DEF iter
<1> QED
  BY <1>1, <1>2, <1>4, <1>6, AddLoopUnrolls

\* The second loop of execute_early.
LEMMA CopyLoop ==
    ASSUME NEW batch, IsBatch(Filtered(batch)), NEW map \in HashMaps
    PROVE  \E F : /\ EarlyBatch(map, batch) = F[Len(Filtered(batch))]
                  /\ AddsUp(F, Len(Filtered(batch)), map, 1 .. Len(Filtered(batch)),
                            Filtered(batch))
<1> DEFINE copy == Filtered(batch)
           n == Len(copy)
           sel == 1 .. n
           Eq(it) ==
               it = [s \in SUBSET DOMAIN copy |->
                        IF s = {} THEN map
                        ELSE AddTo(it[s \ {Max(s)}], copy[Max(s)].key, copy[Max(s)].val)]
           iter == CHOOSE it : Eq(it)
<1>1. EarlyBatch(map, batch) = iter[DOMAIN copy]
  BY DEF EarlyBatch, FoldLeft, MapThenFoldSet
<1> HIDE DEF copy
<1>2. /\ n \in Nat /\ DOMAIN copy = 1 .. n
      /\ \A i \in 1 .. n : copy[i] \in [key : Nat, val : Int]
  BY BatchFacts DEF copy
<1>3. \A s \in SUBSET (1 .. n) : s # {} => Max(s) \in sel
  BY <1>2, MaxIn
<1>4. ASSUME NEW it PROVE Eq(it) <=> IsAddLoop(it, n, map, sel, copy)
  <2> HIDE DEF sel, n
  <2> QED
    BY <1>2, <1>3 DEF IsAddLoop, AddTurn
<1> HIDE DEF Eq
<1>5. \E it : Eq(it)
  BY <1>2, <1>4, AddLoopExists
<1>6. Eq(iter)
  BY <1>5
<1> HIDE DEF iter
<1> QED
  BY <1>1, <1>2, <1>4, <1>6, AddLoopUnrolls DEF copy

\* A row is kept or not.
LEMMA RowKept ==
    ASSUME NEW row, NEW rows \in Seq(row), NEW x \in row
    PROVE  Append(rows, x) \in Seq(row)
  OBVIOUS

\* The first loop of execute_early: filtered is filled row by row.
LEMMA FilterLoop ==
    ASSUME NEW batch, IsBatch(batch)
    PROVE  \E G : /\ \A i \in 0 .. Len(batch) : IsBatch(G[i])
                  /\ G[0] = <<>> /\ Filtered(batch) = G[Len(batch)]
                  /\ \A i \in 0 .. Len(batch) - 1 :
                        G[i + 1] = IF Passes(batch[i + 1])
                                   THEN Append(G[i], batch[i + 1]) ELSE G[i]
<1> DEFINE n == Len(batch)
           row == [key : Nat, val : Int]
           X == Seq(row)
           empty == <<>>
           Turn(s, rows) == IF Passes(batch[Max(s)]) THEN Append(rows, batch[Max(s)]) ELSE rows
           step == [xr \in (1 .. n) \X X |->
                       IF Passes(batch[xr[1]]) THEN Append(xr[2], batch[xr[1]]) ELSE xr[2]]
           Eq(it) == it = [s \in SUBSET DOMAIN batch |->
                              IF s = {} THEN empty ELSE Turn(s, it[s \ {Max(s)}])]
           iter == CHOOSE it : Eq(it)
           G == [i \in 0 .. n |-> iter[1 .. i]]
<1>1. Filtered(batch) = iter[DOMAIN batch]
  BY DEF Filtered, FoldLeft, MapThenFoldSet
<1>2. /\ n \in Nat /\ DOMAIN batch = 1 .. n
      /\ \A i \in 1 .. n : batch[i] \in row
  BY BatchFacts
<1> HIDE DEF row
<1>3. empty \in X
  OBVIOUS
<1>4. StepsIn(step, 1 .. n, X)
  <2>1. \A i \in 1 .. n, rows \in X : Append(rows, batch[i]) \in X
    BY <1>2, RowKept
  <2> HIDE DEF X
  <2> QED
    BY <2>1 DEF StepsIn
<1> HIDE DEF empty
<1>5. PICK it0 \in [SUBSET (1 .. n) -> X] : FoldsOver(it0, 1 .. n, empty, Turns(n), step)
  <2> HIDE DEF X, step, n
  <2> QED
    BY <1>2, <1>3, <1>4, LoopExists
<1>6. Eq(it0)
  <2>1. ASSUME NEW s \in SUBSET (1 .. n), s # {}
        PROVE  it0[s] = Turn(s, it0[s \ {Max(s)}])
    <3>1. Max(s) \in 1 .. n /\ s \ {Max(s)} \in SUBSET (1 .. n) /\ Turns(n)[s] = Max(s)
      BY <1>2, <2>1, MaxIn DEF Turns
    <3>2. it0[s \ {Max(s)}] \in X
      BY <1>5, <3>1
    <3>3. it0[s] = step[<<Max(s), it0[s \ {Max(s)}]>>]
      BY <1>5, <2>1, <3>1 DEF FoldsOver
    <3> HIDE DEF X
    <3> QED
      BY <3>1, <3>2, <3>3
  <2>2. it0[{}] = empty
    BY <1>5 DEF FoldsOver
  <2> HIDE DEF Turn, X, n
  <2> QED
    BY <1>2, <1>5, <2>1, <2>2
<1>7. Eq(iter)
  <2> HIDE DEF Eq
  <2> QED
    BY <1>6
<1>8. \A s \in SUBSET (1 .. n) :
          iter[s] = IF s = {} THEN empty ELSE Turn(s, iter[s \ {Max(s)}])
  <2> HIDE DEF iter, Turn
  <2> QED
    BY <1>2, <1>7
<1> HIDE DEF iter
<1>9. iter[1 .. 0] = empty
  <2>1. 1 .. 0 = {} /\ {} \in SUBSET (1 .. n)
    OBVIOUS
  <2> QED
    BY <1>8, <2>1
<1>10. ASSUME NEW i \in 0 .. n - 1
       PROVE  iter[1 .. (i + 1)] = IF Passes(batch[i + 1])
                                   THEN Append(iter[1 .. i], batch[i + 1]) ELSE iter[1 .. i]
  <2> DEFINE s == 1 .. (i + 1)
  <2>1. /\ s \in SUBSET (1 .. n) /\ s # {}
        /\ Max(s) = i + 1 /\ s \ {i + 1} = 1 .. i
    BY <1>2, LastTurn
  <2> HIDE DEF s
  <2>2. iter[s] = Turn(s, iter[s \ {Max(s)}])
    BY <1>8, <2>1
  <2>3. iter[s] = IF Passes(batch[i + 1])
                  THEN Append(iter[1 .. i], batch[i + 1]) ELSE iter[1 .. i]
    BY <2>1, <2>2, Zenon
  <2> QED
    BY <2>3 DEF s
<1>11. /\ G[0] = <<>> /\ G[n] = Filtered(batch)
       /\ \A i \in 0 .. n - 1 :
             G[i + 1] = IF Passes(batch[i + 1]) THEN Append(G[i], batch[i + 1]) ELSE G[i]
  BY <1>1, <1>2, <1>9, <1>10 DEF empty
<1>12. \A i \in 0 .. n : IsBatch(G[i])
  <2> DEFINE N == {i \in 0 .. n : G[i] \in Seq(row)}
  <2> HIDE DEF G
  <2>1. 0 \in N
    <3>1. G[0] \in Seq(row) /\ 0 \in 0 .. n
      BY <1>2, <1>3, <1>11 DEF empty
    <3> QED
      BY <3>1
  <2>2. ASSUME NEW i \in 0 .. n - 1, i \in N PROVE i + 1 \in N
    <3>1. i + 1 \in 0 .. n /\ i + 1 \in 1 .. n
      BY <1>2
    <3>2. G[i] \in Seq(row) /\ batch[i + 1] \in row
      BY <1>2, <2>2, <3>1
    <3>3. G[i + 1] = Append(G[i], batch[i + 1]) \/ G[i + 1] = G[i]
      BY <1>11
    <3>4. Append(G[i], batch[i + 1]) \in Seq(row)
      BY <3>2, RowKept
    <3>5. G[i + 1] \in Seq(row)
      BY <3>2, <3>3, <3>4, Zenon
    <3> QED
      BY <3>1, <3>5
  <2>3. 0 .. n \subseteq N
    <3> HIDE DEF N
    <3> QED
      BY <1>2, <2>1, <2>2, UpTo
  <2> QED
    BY <2>3 DEF IsBatch, row
<1> QED
  BY <1>11, <1>12

-----------------------------------------------------------------------------
(***************************************************************************)
(* A batch folded into a map is the answer over its passing rows added to  *)
(* the map, whichever of the three loops does it.                          *)
(***************************************************************************)
PassingOf(t, b) == {p \in PassingRows(t) : p[1] = b}

\* Those among the first n rows of the batch.
PassingUpto(t, b, n) == {p \in PassingOf(t, b) : p[2] <= n}

\* A loop that adds the passing rows of a batch one by one to the answer over
\* the rows R has, after n turns, the answer over R and the batch's first n.
LEMMA AddsRows ==
    ASSUME NEW t, IsTable(t), NEW b \in DOMAIN t,
           NEW R \in SUBSET Rows(t), \A p \in R : p[1] # b, NEW n \in 0 .. Len(t[b]),
           NEW F, AddsUp(F, n, AnswerOver(t, R), EvaluatePredicate(t[b]), t[b])
    PROVE  F[n] = AnswerOver(t, R \cup PassingUpto(t, b, n))
<1> DEFINE Upto(i) == PassingUpto(t, b, i)
           D(i) == R \cup Upto(i)
           N == {i \in 0 .. n : F[i] = AnswerOver(t, D(i))}
<1> USE DEF PassingUpto
<1>1. /\ IsBatch(t[b]) /\ Len(t[b]) \in Nat /\ DOMAIN t[b] = 1 .. Len(t[b])
      /\ n \in Nat /\ \A i \in 1 .. n : i \in DOMAIN t[b]
  BY BatchFacts DEF IsTable, IsBatch
<1>2. \A p \in PassingOf(t, b) :
          p = <<b, p[2]>> /\ p[2] \in 1 .. Len(t[b]) /\ p \in Rows(t)
  BY <1>1, RowFacts DEF PassingOf, PassingRows
<1>3. 0 \in N
  <2>1. D(0) = R
    BY <1>2
  <2>2. F[0] = AnswerOver(t, R)
    BY DEF AddsUp
  <2> HIDE DEF D
  <2> QED
    BY <1>1, <2>1, <2>2
<1>4. ASSUME NEW i \in 0 .. n - 1, i \in N PROVE i + 1 \in N
  <2> DEFINE p == <<b, i + 1>>
  <2>1. i \in Nat /\ i + 1 \in 1 .. n
    BY <1>1
  <2>2. p \in Rows(t) /\ RowAt(t, p) = t[b][i + 1] /\ p[1] = b /\ p[2] = i + 1
    BY <1>1, <2>1, RowIn
  <2>3. F[i] = AnswerOver(t, D(i)) /\ D(i) \in SUBSET Rows(t)
    BY <1>2, <1>4
  <2>4. CASE Passes(t[b][i + 1])
    <3>1. p \in PassingOf(t, b)
      BY <2>2, <2>4 DEF PassingOf, PassingRows
    <3>2. Upto(i + 1) = Upto(i) \cup {p}
      <4>1. \A q \in PassingOf(t, b) : q[2] <= i + 1 <=> (q[2] <= i \/ q = p)
        BY <1>2, <2>1, <2>2
      <4> QED
        BY <2>1, <2>2, <3>1, <4>1
    <3>3. p \in Rows(t) \ D(i) /\ D(i + 1) = D(i) \cup {p}
      BY <2>1, <2>2, <3>2
    <3>4. F[i + 1] = AddTo(F[i], RowAt(t, p).key, RowAt(t, p).val)
      BY <1>1, <2>1, <2>2, <2>4 DEF AddsUp, EvaluatePredicate
    <3> HIDE DEF D, p
    <3>5. AnswerOver(t, D(i) \cup {p}) =
              AddTo(AnswerOver(t, D(i)), RowAt(t, p).key, RowAt(t, p).val)
      BY <2>3, <3>3, OneRowMore
    <3>6. F[i + 1] = AnswerOver(t, D(i + 1))
      BY <2>3, <3>3, <3>4, <3>5, Zenon
    <3>7. i + 1 \in 0 .. n
      BY <2>1
    <3> QED
      BY <3>6, <3>7
  <2>5. CASE ~Passes(t[b][i + 1])
    <3>1. p \notin PassingOf(t, b)
      BY <2>2, <2>5 DEF PassingOf, PassingRows
    <3>2. Upto(i + 1) = Upto(i)
      BY <1>2, <2>1, <3>1
    <3>3. F[i + 1] = F[i] /\ D(i + 1) = D(i)
      BY <1>1, <2>1, <2>5, <3>2 DEF AddsUp, EvaluatePredicate
    <3> HIDE DEF D
    <3> QED
      BY <2>1, <2>3, <3>3
  <2> QED
    BY <2>4, <2>5
<1>5. 0 .. n \subseteq N
  <2> HIDE DEF N
  <2> QED
    BY <1>1, <1>3, <1>4, UpTo
<1>6. F[n] = AnswerOver(t, D(n))
  <2> HIDE DEF D
  <2> QED
    BY <1>1, <1>5
<1> QED
  BY <1>6

\* At the end of the loop it is the answer over R and the batch's rows.
LEMMA AddsBatch ==
    ASSUME NEW t, IsTable(t), NEW b \in DOMAIN t,
           NEW R \in SUBSET Rows(t), \A p \in R : p[1] # b,
           NEW F, AddsUp(F, Len(t[b]), AnswerOver(t, R), EvaluatePredicate(t[b]), t[b])
    PROVE  F[Len(t[b])] = AnswerOver(t, R \cup PassingOf(t, b))
<1>1. Len(t[b]) \in Nat /\ DOMAIN t[b] = 1 .. Len(t[b])
  BY BatchFacts DEF IsTable, IsBatch
<1>2. PassingUpto(t, b, Len(t[b])) = PassingOf(t, b)
  BY <1>1, RowFacts DEF PassingUpto, PassingOf, PassingRows
<1>3. F[Len(t[b])] = AnswerOver(t, R \cup PassingUpto(t, b, Len(t[b])))
  BY <1>1, AddsRows
<1> QED
  BY <1>2, <1>3

\* execute_late on one batch (selection vector, then aggregate_selected): the
\* map holds the answer over the rows it held and the batch's passing rows.
THEOREM LateAdds ==
    ASSUME NEW t, IsTable(t), NEW b \in DOMAIN t,
           NEW R \in SUBSET Rows(t), \A p \in R : p[1] # b
    PROVE  LateBatch(AnswerOver(t, R), t[b]) = AnswerOver(t, R \cup PassingOf(t, b))
<1> DEFINE map == AnswerOver(t, R)
           sel == EvaluatePredicate(t[b])
           n == Len(t[b])
<1>1. IsBatch(t[b]) /\ n \in 0 .. n
  BY BatchFacts DEF IsTable, IsBatch
<1>2. map \in HashMaps
  BY OverInHashMaps
<1>3. PICK F : AggregateFirst(t[b], sel, n, map) = F[n] /\ AddsUp(F, n, map, sel, t[b])
  <2> HIDE DEF map, sel, n
  <2> QED
    BY <1>1, <1>2, SelectedLoop DEF n
<1>4. F[n] = AnswerOver(t, R \cup PassingOf(t, b))
  BY <1>3, AddsBatch
<1> QED
  BY <1>3, <1>4 DEF LateBatch, AggregateSelected

\* The same of the row-at-a-time loop of naive::execute.
THEOREM NaiveAdds ==
    ASSUME NEW t, IsTable(t), NEW b \in DOMAIN t,
           NEW R \in SUBSET Rows(t), \A p \in R : p[1] # b
    PROVE  NaiveBatch(AnswerOver(t, R), t[b]) = AnswerOver(t, R \cup PassingOf(t, b))
<1> DEFINE map == AnswerOver(t, R)
<1>1. IsBatch(t[b])
  BY DEF IsTable, IsBatch
<1>2. map \in HashMaps
  BY OverInHashMaps
<1>3. PICK F : /\ NaiveBatch(map, t[b]) = F[Len(t[b])]
               /\ AddsUp(F, Len(t[b]), map, EvaluatePredicate(t[b]), t[b])
  <2> HIDE DEF map
  <2> QED
    BY <1>1, <1>2, NaiveLoop
<1> QED
  BY <1>3, AddsBatch

(***************************************************************************)
(* execute_early: the copy grows at its end only, so the turn of the       *)
(* second loop that adds a row is the one the row was copied for.          *)
(***************************************************************************)
THEOREM EarlyAdds ==
    ASSUME NEW t, IsTable(t), NEW b \in DOMAIN t,
           NEW R \in SUBSET Rows(t), \A p \in R : p[1] # b
    PROVE  EarlyBatch(AnswerOver(t, R), t[b]) = AnswerOver(t, R \cup PassingOf(t, b))
<1> DEFINE map == AnswerOver(t, R)
           batch == t[b]
           n == Len(batch)
           copy == Filtered(batch)
<1>1. IsBatch(batch) /\ n \in Nat /\ DOMAIN batch = 1 .. n
  BY BatchFacts DEF IsTable, IsBatch
<1>2. map \in HashMaps
  BY OverInHashMaps
<1> HIDE DEF map
<1>3. PICK G : /\ \A i \in 0 .. n : IsBatch(G[i])
               /\ G[0] = <<>> /\ copy = G[n]
               /\ \A i \in 0 .. n - 1 :
                     G[i + 1] = IF Passes(batch[i + 1])
                                THEN Append(G[i], batch[i + 1]) ELSE G[i]
  BY <1>1, FilterLoop
<1>4. \A i \in 0 .. n : Len(G[i]) \in Nat
  BY <1>3, BatchFacts
<1>5. PICK F : EarlyBatch(map, batch) = F[Len(copy)] /\ AddsUp(F, Len(copy), map, 1 .. Len(copy), copy)
  BY <1>1, <1>2, <1>3, CopyLoop
<1> DEFINE Grown(i, j) == /\ Len(G[i]) <= Len(G[j])
                          /\ \A k \in 1 .. Len(G[i]) : G[j][k] = G[i][k]
           N == {j \in 0 .. n : \A i \in 0 .. j : Grown(i, j)}
<1>6. \A i \in 0 .. n : Grown(i, i)
  BY <1>4
<1>7. \A i \in 0 .. n - 1 : Grown(i, i + 1)
  <2> SUFFICES ASSUME NEW i \in 0 .. n - 1 PROVE Grown(i, i + 1)
    OBVIOUS
  <2>1. i \in 0 .. n /\ i + 1 \in 0 .. n
    BY <1>1
  <2>2. CASE Passes(batch[i + 1])
    <3>1. G[i + 1] = Append(G[i], batch[i + 1])
      BY <1>3, <2>2
    <3>2. G[i] \in Seq([key : Nat, val : Int])
      BY <1>3, <2>1 DEF IsBatch
    <3> QED
      BY <3>1, <3>2
  <2>3. CASE ~Passes(batch[i + 1])
    <3>1. G[i + 1] = G[i]
      BY <1>3, <2>3
    <3> QED
      BY <1>4, <2>1, <3>1
  <2> QED
    BY <2>2, <2>3
<1>8. 0 .. n \subseteq N
  <2>1. 0 \in N
    BY <1>1, <1>6
  <2>2. ASSUME NEW j \in 0 .. n - 1, j \in N PROVE j + 1 \in N
    <3>1. j \in 0 .. n /\ j + 1 \in 0 .. n /\ Grown(j, j + 1)
      BY <1>1, <1>7
    <3>2. ASSUME NEW i \in 0 .. j + 1 PROVE Grown(i, j + 1)
      <4>1. CASE i = j + 1
        BY <1>6, <3>1, <4>1
      <4>2. CASE i # j + 1
        <5>1. i \in 0 .. j /\ i \in 0 .. n /\ Grown(i, j)
          BY <1>1, <2>2, <4>2
        <5>2. Len(G[i]) \in Nat /\ Len(G[j]) \in Nat /\ Len(G[j + 1]) \in Nat
          BY <1>4, <3>1, <5>1
        <5> QED
          BY <3>1, <5>1, <5>2, SMTT(30)
      <4> QED
        BY <4>1, <4>2
    <3> HIDE DEF Grown
    <3> QED
      BY <3>1, <3>2
  <2> HIDE DEF N
  <2> QED
    BY <1>1, <2>1, <2>2, UpTo
<1>9. \A i \in 0 .. n : Grown(i, n)
  <2> HIDE DEF Grown
  <2> QED
    BY <1>1, <1>8
<1> DEFINE H == [i \in 0 .. n |-> F[Len(G[i])]]
<1>10. AddsUp(H, n, map, EvaluatePredicate(batch), batch)
  <2>1. H[0] = map
    <3>1. Len(G[0]) = 0
      BY <1>3
    <3> QED
      BY <1>1, <1>5, <3>1 DEF AddsUp
  <2>2. ASSUME NEW i \in 0 .. n - 1, Passes(batch[i + 1])
        PROVE  H[i + 1] = AddTo(H[i], batch[i + 1].key, batch[i + 1].val)
    <3> DEFINE l == Len(G[i])
    <3>1. i \in 0 .. n /\ i + 1 \in 0 .. n
      BY <1>1
    <3>2. G[i + 1] = Append(G[i], batch[i + 1]) /\ G[i] \in Seq([key : Nat, val : Int])
      BY <1>3, <2>2, <3>1 DEF IsBatch
    <3>3. l \in Nat /\ Len(G[i + 1]) = l + 1 /\ G[i + 1][l + 1] = batch[i + 1]
      BY <3>2
    <3>4. l + 1 <= Len(copy) /\ copy[l + 1] = batch[i + 1]
      <4>1. Grown(i + 1, n)
        BY <1>9, <3>1
      <4>2. /\ Len(G[i + 1]) <= Len(copy)
            /\ \A k \in 1 .. Len(G[i + 1]) : copy[k] = G[i + 1][k]
        BY <1>3, <4>1
      <4>3. l + 1 \in 1 .. Len(G[i + 1])
        BY <3>3
      <4> HIDE DEF l
      <4> QED
        BY <3>3, <4>2, <4>3
    <3>5. Len(copy) \in Nat
      BY <1>1, <1>3, <1>4
    <3>6. F[l + 1] = AddTo(F[l], copy[l + 1].key, copy[l + 1].val)
      <4> HIDE DEF l
      <4> QED
        BY <1>5, <3>3, <3>4, <3>5 DEF AddsUp
    <3> QED
      BY <3>1, <3>3, <3>4, <3>6
  <2>3. ASSUME NEW i \in 0 .. n - 1, ~Passes(batch[i + 1])
        PROVE  H[i + 1] = H[i]
    BY <1>1, <1>3, <2>3
  <2>4. \A i \in 0 .. n - 1 : i + 1 \in EvaluatePredicate(batch) <=> Passes(batch[i + 1])
    BY <1>1 DEF EvaluatePredicate
  <2> HIDE DEF H
  <2> QED
    BY <2>1, <2>2, <2>3, <2>4 DEF AddsUp
<1>11. H[n] = AnswerOver(t, R \cup PassingOf(t, b))
  BY <1>10, AddsBatch DEF map
<1>12. EarlyBatch(map, batch) = H[n]
  BY <1>1, <1>3, <1>5
<1> QED
  BY <1>11, <1>12 DEF map

(***************************************************************************)
(* merge_maps: the maps of disjoint sets of rows merge into the map of     *)
(* all of them.                                                            *)
(***************************************************************************)
THEOREM MapsMerge ==
    ASSUME NEW t, IsTable(t), NEW n \in Nat, NEW maps \in [1 .. n -> HashMaps],
           NEW rs \in [1 .. n -> SUBSET Rows(t)],
           \A i \in 1 .. n : maps[i] = AnswerOver(t, rs[i]),
           \A i, j \in 1 .. n : i # j => rs[i] \cap rs[j] = {}
    PROVE  MergeMaps(maps) = AnswerOver(t, UNION {rs[i] : i \in 1 .. n})
<1> DEFINE D(i) == UNION {rs[j] : j \in 1 .. i}
<1>1. PICK F : /\ F[0] = EmptyMap /\ MergeMaps(maps) = F[n]
               /\ \A i \in 0 .. n - 1 : F[i + 1] = MergeInto(F[i], maps[i + 1])
  BY MergeLoop
<1> DEFINE N == {i \in 0 .. n : F[i] = AnswerOver(t, D(i))}
<1>2. 0 \in N
  <2>1. D(0) = {}
    OBVIOUS
  <2> HIDE DEF D
  <2>2. F[0] = AnswerOver(t, D(0))
    BY <1>1, <2>1, OverNothing, Zenon
  <2> QED
    BY <2>2
<1>3. ASSUME NEW i \in 0 .. n - 1, i \in N PROVE i + 1 \in N
  <2>1. i \in Nat /\ i + 1 \in 1 .. n /\ i + 1 \in 0 .. n
    OBVIOUS
  <2>2. D(i) \in SUBSET Rows(t) /\ rs[i + 1] \in SUBSET Rows(t)
    BY <2>1
  <2>3. D(i) \cap rs[i + 1] = {}
    BY <2>1
  <2>4. D(i + 1) = D(i) \cup rs[i + 1]
    <3>1. 1 .. (i + 1) = (1 .. i) \cup {i + 1}
      BY <2>1
    <3> QED
      BY <3>1
  <2>5. F[i] = AnswerOver(t, D(i))
    BY <1>3
  <2> HIDE DEF D
  <2>6. F[i + 1] = MergeInto(AnswerOver(t, D(i)), AnswerOver(t, rs[i + 1]))
    BY <1>1, <2>1, <2>5
  <2>7. F[i + 1] = AnswerOver(t, D(i + 1))
    BY <2>2, <2>3, <2>4, <2>6, TwoMapsMerge
  <2> QED
    BY <2>1, <2>7
<1>4. 0 .. n \subseteq N
  <2> HIDE DEF N
  <2> QED
    BY <1>2, <1>3, UpTo
<1>5. F[n] = AnswerOver(t, D(n))
  <2> HIDE DEF D
  <2> QED
    BY <1>4
<1> QED
  BY <1>1, <1>5

-----------------------------------------------------------------------------
(***************************************************************************)
(* The loops over all batches.                                             *)
(***************************************************************************)
\* The answer over the passing rows of the batches in s.
OverBatches(t, s) == AnswerOver(t, {p \in PassingRows(t) : p[1] \in s})

\* The last batch of s adds its rows to those of the others.
LEMMA LastBatch ==
    ASSUME NEW t, IsTable(t), NEW s \in SUBSET DOMAIN t, s # {}
    PROVE  LET b == Max(s)
               R == {p \in PassingRows(t) : p[1] \in s \ {b}}
           IN  /\ b \in DOMAIN t /\ R \in SUBSET Rows(t) /\ \A p \in R : p[1] # b
               /\ OverBatches(t, s \ {b}) = AnswerOver(t, R)
               /\ OverBatches(t, s) = AnswerOver(t, R \cup PassingOf(t, b))
<1> DEFINE b == Max(s)
           R == {p \in PassingRows(t) : p[1] \in s \ {b}}
<1>1. DOMAIN t = 1 .. Len(t) /\ Len(t) \in Nat
  BY DEF IsTable
<1>2. b \in s
  BY <1>1, MaxIn
<1> HIDE DEF b
<1>3. {p \in PassingRows(t) : p[1] \in s} = R \cup PassingOf(t, b)
  BY <1>2 DEF PassingOf
<1>4. R \in SUBSET Rows(t)
  BY DEF PassingRows
<1> QED
  BY <1>2, <1>3, <1>4 DEF OverBatches, b

\* A fold over the batches each turn of which adds the batch's passing rows
\* is the answer.
LEMMA WholeTable ==
    ASSUME NEW t, IsTable(t), NEW it, it[{}] = EmptyMap,
           \A s \in SUBSET DOMAIN t :
               s # {} /\ it[s \ {Max(s)}] = OverBatches(t, s \ {Max(s)}) =>
                   it[s] = OverBatches(t, s)
    PROVE  it[DOMAIN t] = Answer(t)
<1> DEFINE n == Len(t)
           N == {i \in 0 .. n : it[1 .. i] = OverBatches(t, 1 .. i)}
<1>1. DOMAIN t = 1 .. n /\ n \in Nat
  BY DEF IsTable
<1>2. 0 \in N
  <2>1. 1 .. 0 = {} /\ {p \in PassingRows(t) : p[1] \in {}} = {}
    OBVIOUS
  <2>2. OverBatches(t, 1 .. 0) = EmptyMap
    BY <2>1, OverNothing DEF OverBatches
  <2> QED
    BY <1>1, <2>1, <2>2
<1>3. ASSUME NEW i \in 0 .. n - 1, i \in N PROVE i + 1 \in N
  <2> DEFINE s == 1 .. (i + 1)
  <2>1. s \in SUBSET DOMAIN t /\ s # {} /\ Max(s) = i + 1 /\ s \ {i + 1} = 1 .. i
    BY <1>1, LastTurn
  <2>2. it[1 .. i] = OverBatches(t, 1 .. i)
    BY <1>3
  <2> HIDE DEF s
  <2>3. it[s] = OverBatches(t, s)
    BY <2>1, <2>2
  <2>4. i + 1 \in 0 .. n
    BY <1>1
  <2> QED
    BY <2>3, <2>4 DEF s
<1>4. 0 .. n \subseteq N
  <2> HIDE DEF N
  <2> QED
    BY <1>1, <1>2, <1>3, UpTo
<1>5. it[DOMAIN t] = OverBatches(t, DOMAIN t)
  BY <1>1, <1>4
<1>6. {p \in PassingRows(t) : p[1] \in DOMAIN t} = PassingRows(t)
  BY RowFacts DEF PassingRows
<1> QED
  BY <1>5, <1>6, AnswerIsOver DEF OverBatches

(***************************************************************************)
(* naive::execute, to which all tests compare the other engines, computes  *)
(* the query's answer.                                                     *)
(***************************************************************************)
THEOREM NaiveAnswers == ASSUME NEW t, IsTable(t) PROVE Naive(t) = Answer(t)
<1> DEFINE Eq(it) == it = [s \in SUBSET DOMAIN t |->
                              IF s = {} THEN EmptyMap
                              ELSE NaiveBatch(it[s \ {Max(s)}], t[Max(s)])]
           iter == CHOOSE it : Eq(it)
           over == [s \in SUBSET DOMAIN t |-> OverBatches(t, s)]
<1>1. Naive(t) = iter[DOMAIN t]
  BY DEF Naive, FoldLeft, MapThenFoldSet
<1>2. OverBatches(t, {}) = EmptyMap
  <2>1. {p \in PassingRows(t) : p[1] \in {}} = {}
    OBVIOUS
  <2> QED
    BY <2>1, OverNothing DEF OverBatches
<1>3. ASSUME NEW s \in SUBSET DOMAIN t, s # {}
      PROVE  NaiveBatch(OverBatches(t, s \ {Max(s)}), t[Max(s)]) = OverBatches(t, s)
  <2> DEFINE b == Max(s)
             R == {p \in PassingRows(t) : p[1] \in s \ {b}}
  <2>1. /\ b \in DOMAIN t /\ R \in SUBSET Rows(t) /\ \A p \in R : p[1] # b
        /\ OverBatches(t, s \ {b}) = AnswerOver(t, R)
        /\ OverBatches(t, s) = AnswerOver(t, R \cup PassingOf(t, b))
    BY <1>3, LastBatch
  <2> HIDE DEF b, R
  <2>2. NaiveBatch(OverBatches(t, s \ {b}), t[b]) = OverBatches(t, s)
    BY <2>1, NaiveAdds
  <2> QED
    BY <2>2 DEF b
<1>4. Eq(over)
  BY <1>2, <1>3
<1>5. Eq(iter)
  <2> HIDE DEF Eq
  <2> QED
    BY <1>4
<1> HIDE DEF iter
<1>6. iter[{}] = EmptyMap
  BY <1>5
<1>7. \A s \in SUBSET DOMAIN t : s # {} =>
          iter[s] = NaiveBatch(iter[s \ {Max(s)}], t[Max(s)])
  BY <1>5
<1> QED
  BY <1>1, <1>3, <1>6, <1>7, WholeTable

\* So does vectorized::execute_early.
THEOREM EarlyAnswers == ASSUME NEW t, IsTable(t) PROVE ExecuteEarly(t) = Answer(t)
<1> DEFINE Eq(it) == it = [s \in SUBSET DOMAIN t |->
                              IF s = {} THEN EmptyMap
                              ELSE EarlyBatch(it[s \ {Max(s)}], t[Max(s)])]
           iter == CHOOSE it : Eq(it)
           over == [s \in SUBSET DOMAIN t |-> OverBatches(t, s)]
<1>1. ExecuteEarly(t) = iter[DOMAIN t]
  BY DEF ExecuteEarly, FoldLeft, MapThenFoldSet
<1>2. OverBatches(t, {}) = EmptyMap
  <2>1. {p \in PassingRows(t) : p[1] \in {}} = {}
    OBVIOUS
  <2> QED
    BY <2>1, OverNothing DEF OverBatches
<1>3. ASSUME NEW s \in SUBSET DOMAIN t, s # {}
      PROVE  EarlyBatch(OverBatches(t, s \ {Max(s)}), t[Max(s)]) = OverBatches(t, s)
  <2> DEFINE b == Max(s)
             R == {p \in PassingRows(t) : p[1] \in s \ {b}}
  <2>1. /\ b \in DOMAIN t /\ R \in SUBSET Rows(t) /\ \A p \in R : p[1] # b
        /\ OverBatches(t, s \ {b}) = AnswerOver(t, R)
        /\ OverBatches(t, s) = AnswerOver(t, R \cup PassingOf(t, b))
    BY <1>3, LastBatch
  <2> HIDE DEF b, R
  <2>2. EarlyBatch(OverBatches(t, s \ {b}), t[b]) = OverBatches(t, s)
    BY <2>1, EarlyAdds
  <2> QED
    BY <2>2 DEF b
<1>4. Eq(over)
  BY <1>2, <1>3
<1>5. Eq(iter)
  <2> HIDE DEF Eq
  <2> QED
    BY <1>4
<1> HIDE DEF iter
<1>6. iter[{}] = EmptyMap
  BY <1>5
<1>7. \A s \in SUBSET DOMAIN t : s # {} =>
          iter[s] = EarlyBatch(iter[s \ {Max(s)}], t[Max(s)])
  BY <1>5
<1> QED
  BY <1>1, <1>3, <1>6, <1>7, WholeTable

(***************************************************************************)
(* So does vectorized::execute_late on every table it returns on: one      *)
(* whose batches set no bit beyond the selection bitmap.                   *)
(***************************************************************************)
THEOREM LateAnswers ==
    ASSUME NEW t, IsTable(t), ~Oversized(t)
    PROVE  ExecuteLate(t) = Answer(t)
<1> DEFINE Eq(it) == it = [s \in SUBSET DOMAIN t |->
                              IF s = {} THEN EmptyMap
                              ELSE LateBatch(it[s \ {Max(s)}], t[Max(s)])]
           iter == CHOOSE it : Eq(it)
           over == [s \in SUBSET DOMAIN t |-> OverBatches(t, s)]
<1>1. ExecuteLate(t) = iter[DOMAIN t]
  BY DEF ExecuteLate, FoldLeft, MapThenFoldSet
<1>2. OverBatches(t, {}) = EmptyMap
  <2>1. {p \in PassingRows(t) : p[1] \in {}} = {}
    OBVIOUS
  <2> QED
    BY <2>1, OverNothing DEF OverBatches
<1>3. ASSUME NEW s \in SUBSET DOMAIN t, s # {}
      PROVE  LateBatch(OverBatches(t, s \ {Max(s)}), t[Max(s)]) = OverBatches(t, s)
  <2> DEFINE b == Max(s)
             R == {p \in PassingRows(t) : p[1] \in s \ {b}}
  <2>1. /\ b \in DOMAIN t /\ R \in SUBSET Rows(t) /\ \A p \in R : p[1] # b
        /\ OverBatches(t, s \ {b}) = AnswerOver(t, R)
        /\ OverBatches(t, s) = AnswerOver(t, R \cup PassingOf(t, b))
    BY <1>3, LastBatch
  <2> HIDE DEF b, R
  <2>2. LateBatch(OverBatches(t, s \ {b}), t[b]) = OverBatches(t, s)
    BY <2>1, LateAdds
  <2> QED
    BY <2>2 DEF b
<1>4. Eq(over)
  BY <1>2, <1>3
<1>5. Eq(iter)
  <2> HIDE DEF Eq
  <2> QED
    BY <1>4
<1> HIDE DEF iter
<1>6. iter[{}] = EmptyMap
  BY <1>5
<1>7. \A s \in SUBSET DOMAIN t : s # {} =>
          iter[s] = LateBatch(iter[s \ {Max(s)}], t[Max(s)])
  BY <1>5
<1> QED
  BY <1>1, <1>3, <1>6, <1>7, WholeTable

-----------------------------------------------------------------------------
(***************************************************************************)
(* Sums that have not wrapped.  With overflow checks an addition that      *)
(* would wrap panics, so as long as none has the sums are exact.           *)
(***************************************************************************)
Exact(t, R) == \A k : InRange(SumOver(t, R, k))

\* Where no group overflows, a looked-up sum is the sum itself, not wrapped.
LEMMA ExactValue ==
    ASSUME NEW t, IsTable(t), NEW R \in SUBSET Rows(t), Exact(t, R), NEW k
    PROVE  ValueAt(AnswerOver(t, R), k) = SumOver(t, R, k)
  BY ValueOver, SumOverFacts, WrapFits DEF Exact

\* The sum of no rows is.
LEMMA NothingExact == ASSUME NEW t, IsTable(t) PROVE Exact(t, {})
<1>1. {} \in SUBSET Rows(t) /\ KeysOver(t, {}) = {}
  BY DEF KeysOver
<1>2. \A k : SumOver(t, {}, k) = 0
  BY <1>1, SumOverFacts
<1> QED
  BY <1>2, IntBoundAssumption DEF Exact, InRange

\* A debug build that folds a batch without panicking at an overflow (no
\* intermediate sum left the range of an i64) leaves every group exact.
THEOREM StaysExact ==
    ASSUME NEW t, IsTable(t), NEW b \in DOMAIN t,
           NEW R \in SUBSET Rows(t), \A p \in R : p[1] # b, Exact(t, R),
           ~AggregatePanics(t[b], EvaluatePredicate(t[b]), AnswerOver(t, R))
    PROVE  Exact(t, R \cup PassingOf(t, b))
<1> DEFINE n == Len(t[b])
           sel == EvaluatePredicate(t[b])
           map == AnswerOver(t, R)
           D(i) == R \cup PassingUpto(t, b, i)
           N == {i \in 0 .. n : Exact(t, D(i))}
<1>1. IsBatch(t[b]) /\ n \in Nat /\ DOMAIN t[b] = 1 .. n
  BY BatchFacts DEF IsTable, IsBatch
<1>2. \A p \in PassingOf(t, b) : p = <<b, p[2]>> /\ p[2] \in 1 .. n /\ p \in Rows(t)
  BY <1>1, RowFacts DEF PassingOf, PassingRows
<1>3. \A i \in 0 .. n : AggregateFirst(t[b], sel, i, map) = AnswerOver(t, D(i))
  <2> SUFFICES ASSUME NEW i \in 0 .. n
               PROVE  AggregateFirst(t[b], sel, i, map) = AnswerOver(t, D(i))
    OBVIOUS
  <2>1. map \in HashMaps
    BY OverInHashMaps
  <2>2. PICK F : AggregateFirst(t[b], sel, i, map) = F[i] /\ AddsUp(F, i, map, sel, t[b])
    <3> HIDE DEF map, sel
    <3> QED
      BY <1>1, <2>1, SelectedLoop
  <2> QED
    BY <2>2, AddsRows
<1>4. 0 \in N
  <2>1. D(0) = R
    BY <1>2 DEF PassingUpto
  <2> HIDE DEF D
  <2> QED
    BY <1>1, <2>1
<1>5. ASSUME NEW i \in 0 .. n - 1, i \in N PROVE i + 1 \in N
  <2> DEFINE p == <<b, i + 1>>
  <2>1. i \in Nat /\ i \in 0 .. n /\ i + 1 \in 1 .. n /\ i + 1 \in 0 .. n
    BY <1>1
  <2>2. p \in Rows(t) /\ RowAt(t, p) = t[b][i + 1] /\ p[1] = b /\ p[2] = i + 1
    BY <1>1, <2>1, RowIn
  <2>3. Exact(t, D(i)) /\ D(i) \in SUBSET Rows(t)
    BY <1>2, <1>5 DEF PassingUpto
  <2>4. CASE Passes(t[b][i + 1])
    <3>1. p \in PassingOf(t, b)
      BY <2>2, <2>4 DEF PassingOf, PassingRows
    <3>2. PassingUpto(t, b, i + 1) = PassingUpto(t, b, i) \cup {p}
      <4>1. \A q \in PassingOf(t, b) : q[2] <= i + 1 <=> (q[2] <= i \/ q = p)
        BY <1>2, <2>1, <2>2
      <4> QED
        BY <2>1, <2>2, <3>1, <4>1 DEF PassingUpto
    <3>3. p \in Rows(t) \ D(i) /\ D(i + 1) = D(i) \cup {p}
      BY <2>1, <2>2, <3>2 DEF PassingUpto
    <3>4. i + 1 \in sel /\ (i + 1) - 1 = i
      BY <1>1, <2>1, <2>4 DEF EvaluatePredicate
    <3>5. InRange(ValueAt(AnswerOver(t, D(i)), RowAt(t, p).key) + RowAt(t, p).val)
      <4> HIDE DEF sel, map, D
      <4>1. InRange(ValueAt(AggregateFirst(t[b], sel, (i + 1) - 1, map), t[b][i + 1].key)
                       + t[b][i + 1].val)
        BY <3>4 DEF AggregatePanics, sel, map
      <4>2. AggregateFirst(t[b], sel, (i + 1) - 1, map) = AnswerOver(t, D(i))
        BY <1>3, <2>1, <3>4
      <4> QED
        BY <2>2, <4>1, <4>2
    <3> HIDE DEF D, p
    <3>6. ValueAt(AnswerOver(t, D(i)), RowAt(t, p).key) = SumOver(t, D(i), RowAt(t, p).key)
      BY <2>3, ExactValue
    <3>7. ASSUME NEW k PROVE InRange(SumOver(t, D(i) \cup {p}, k))
      <4>1. CASE RowAt(t, p).key = k
        BY <2>3, <3>3, <3>5, <3>6, <4>1, SumOverFacts, SMTT(30)
      <4>2. CASE RowAt(t, p).key # k
        BY <2>3, <3>3, <4>2, SumOverFacts DEF Exact
      <4> QED
        BY <4>1, <4>2
    <3>8. Exact(t, D(i + 1))
      BY <3>3, <3>7 DEF Exact
    <3> QED
      BY <2>1, <3>8
  <2>5. CASE ~Passes(t[b][i + 1])
    <3>1. p \notin PassingOf(t, b)
      BY <2>2, <2>5 DEF PassingOf, PassingRows
    <3>2. PassingUpto(t, b, i + 1) = PassingUpto(t, b, i)
      BY <1>2, <2>1, <3>1 DEF PassingUpto
    <3>3. D(i + 1) = D(i)
      BY <3>2
    <3> HIDE DEF D
    <3> QED
      BY <2>1, <2>3, <3>3
  <2> QED
    BY <2>4, <2>5
<1>6. 0 .. n \subseteq N
  <2> HIDE DEF N
  <2> QED
    BY <1>1, <1>4, <1>5, UpTo
<1>7. D(n) = R \cup PassingOf(t, b)
  BY <1>1, <1>2 DEF PassingUpto
<1>8. Exact(t, D(n))
  <2> HIDE DEF D
  <2> QED
    BY <1>1, <1>6
<1> QED
  BY <1>7, <1>8

(***************************************************************************)
(* Nor does a sum wrap in a merge_maps that has not panicked, if none has  *)
(* in the maps that it merges.                                             *)
(***************************************************************************)
THEOREM MergeStaysExact ==
    ASSUME NEW t, IsTable(t), NEW n \in Nat, NEW maps \in [1 .. n -> HashMaps],
           NEW rs \in [1 .. n -> SUBSET Rows(t)],
           \A i \in 1 .. n : maps[i] = AnswerOver(t, rs[i]) /\ Exact(t, rs[i]),
           \A i, j \in 1 .. n : i # j => rs[i] \cap rs[j] = {},
           ~MergePanics(maps)
    PROVE  Exact(t, UNION {rs[i] : i \in 1 .. n})
<1> DEFINE D(i) == UNION {rs[j] : j \in 1 .. i}
           N == {i \in 0 .. n : Exact(t, D(i))}
<1>1. ASSUME NEW i \in 0 .. n
      PROVE  MergeMaps(SubSeq(maps, 1, i)) = AnswerOver(t, D(i))
  <2> DEFINE first == SubSeq(maps, 1, i)
             rows == [j \in 1 .. i |-> rs[j]]
  <2>1. first \in [1 .. i -> HashMaps] /\ \A j \in 1 .. i : first[j] = maps[j]
    <3>1. maps \in Seq(HashMaps) /\ Len(maps) = n
      OBVIOUS
    <3>2. first \in Seq(HashMaps) /\ Len(first) = i /\ \A j \in 1 .. i : first[j] = maps[j]
      BY <3>1
    <3> HIDE DEF first
    <3> QED
      BY <3>2
  <2>2. rows \in [1 .. i -> SUBSET Rows(t)] /\ \A j \in 1 .. i : rows[j] = rs[j]
    OBVIOUS
  <2>3. \A j \in 1 .. i : j \in 1 .. n
    OBVIOUS
  <2>4. UNION {rows[j] : j \in 1 .. i} = D(i)
    OBVIOUS
  <2> HIDE DEF first, rows, D
  <2>5. \A j \in 1 .. i : first[j] = AnswerOver(t, rows[j])
    BY <2>1, <2>2, <2>3
  <2>6. \A j, k \in 1 .. i : j # k => rows[j] \cap rows[k] = {}
    BY <2>2, <2>3
  <2>7. i \in Nat /\ first \in [1 .. i -> HashMaps] /\ rows \in [1 .. i -> SUBSET Rows(t)]
    BY <2>1, <2>2
  <2>8. MergeMaps(first) = AnswerOver(t, UNION {rows[j] : j \in 1 .. i})
    BY <2>5, <2>6, <2>7, MapsMerge, SMTT(40)
  <2> QED
    BY <2>4, <2>8 DEF first
<1>2. 0 \in N
  <2>1. D(0) = {}
    OBVIOUS
  <2>2. Exact(t, {})
    BY NothingExact
  <2> HIDE DEF D
  <2>3. Exact(t, D(0))
    BY <2>1, <2>2, Zenon
  <2> QED
    BY <2>3
<1>3. ASSUME NEW i \in 0 .. n - 1, i \in N PROVE i + 1 \in N
  <2>1. i \in 0 .. n /\ i + 1 \in 1 .. n /\ i + 1 \in 0 .. n /\ (i + 1) - 1 = i
    OBVIOUS
  <2>2. D(i) \in SUBSET Rows(t) /\ rs[i + 1] \in SUBSET Rows(t) /\ D(i) \cap rs[i + 1] = {}
    <3>1. \A j \in 1 .. i : j \in 1 .. n /\ j # i + 1
      BY <2>1
    <3>2. \A j \in 1 .. i : rs[j] \in SUBSET Rows(t) /\ rs[j] \cap rs[i + 1] = {}
      BY <2>1, <3>1
    <3> QED
      BY <2>1, <3>2
  <2>4. D(i + 1) = D(i) \cup rs[i + 1]
    <3>1. 1 .. (i + 1) = (1 .. i) \cup {i + 1}
      BY <2>1
    <3> QED
      BY <3>1
  <2>5. Exact(t, D(i))
    BY <1>3
  <2> HIDE DEF D
  <2>6. ASSUME NEW k PROVE InRange(SumOver(t, D(i + 1), k))
    <3>1. SumOver(t, D(i + 1), k) = SumOver(t, D(i), k) + SumOver(t, rs[i + 1], k)
      BY <2>2, <2>4, SumOverUnion
    <3>2. ValueAt(AnswerOver(t, D(i)), k) = SumOver(t, D(i), k)
      BY <2>2, <2>5, ExactValue
    <3>3. ValueAt(maps[i + 1], k) = SumOver(t, rs[i + 1], k)
      BY <2>1, <2>2, ExactValue
    <3>4. CASE k \in DOMAIN maps[i + 1]
      <4>1. InRange(ValueAt(MergeMaps(SubSeq(maps, 1, i)), k) + maps[i + 1][k])
        BY <2>1, <3>4 DEF MergePanics
      <4>2. MergeMaps(SubSeq(maps, 1, i)) = AnswerOver(t, D(i))
        BY <1>1, <2>1
      <4>3. ValueAt(maps[i + 1], k) = maps[i + 1][k]
        BY <3>4 DEF ValueAt
      <4> QED
        BY <3>1, <3>2, <3>3, <4>1, <4>2, <4>3
    <3>5. CASE k \notin DOMAIN maps[i + 1]
      <4>1. SumOver(t, rs[i + 1], k) = 0
        BY <3>3, <3>5 DEF ValueAt
      <4>2. SumOver(t, D(i), k) \in Int
        BY <2>2, SumOverFacts
      <4> QED
        BY <2>5, <3>1, <4>1, <4>2 DEF Exact
    <3> QED
      BY <3>4, <3>5
  <2> QED
    BY <2>1, <2>6 DEF Exact
<1>4. 0 .. n \subseteq N
  <2> HIDE DEF N
  <2> QED
    BY <1>2, <1>3, UpTo
<1>5. Exact(t, D(n))
  <2> HIDE DEF D
  <2> QED
    BY <1>4
<1> QED
  BY <1>5
=============================================================================
