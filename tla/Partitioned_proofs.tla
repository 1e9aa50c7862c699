------------------------ MODULE Partitioned_proofs ------------------------
(***************************************************************************)
(* Theorems about the partitioned engines, for every key width, number of  *)
(* threads and table, wrapping key arithmetic included.                    *)
(***************************************************************************)
EXTENDS Partitioned, GroupBy_proofs

-----------------------------------------------------------------------------
(***************************************************************************)
(* The key range and its stubs.                                            *)
(***************************************************************************)
KeyRangeOK == keyMin \in 0 .. MaxKey /\ keyMax \in 0 .. MaxKey /\ keyMin <= keyMax

\* The largest of a bounded set of numbers.
LEMMA MaxOf ==
    ASSUME NEW b \in Nat, NEW S \in SUBSET (0 .. b), S # {}
    PROVE  Max(S) \in S /\ \A y \in S : Max(S) >= y
<1> DEFINE N == {i \in Nat : \A r \in SUBSET (0 .. i) :
                     r # {} => \E x \in r : \A y \in r : x >= y}
<1>1. 0 \in N
  <2> SUFFICES ASSUME NEW r \in SUBSET (0 .. 0), r # {}
               PROVE  \E x \in r : \A y \in r : x >= y
    OBVIOUS
  <2>1. \A y \in r : y \in Int /\ y = 0
    OBVIOUS
  <2>2. PICK x \in r : TRUE
    OBVIOUS
  <2>3. \A y \in r : x >= y
    BY <2>1
  <2> QED
    BY <2>2, <2>3
<1>2. ASSUME NEW i \in N PROVE i + 1 \in N
  <2> SUFFICES ASSUME NEW r \in SUBSET (0 .. i + 1), r # {}
               PROVE  \E x \in r : \A y \in r : x >= y
    OBVIOUS
  <2>1. CASE i + 1 \in r
    BY <2>1
  <2>2. CASE i + 1 \notin r
    <3>1. r \in SUBSET (0 .. i)
      BY <2>2
    <3> QED
      BY <3>1
  <2> QED
    BY <2>1, <2>2
<1>3. N = Nat
  <2>1. N \in SUBSET Nat
    OBVIOUS
  <2> HIDE DEF N
  <2> QED
    BY <1>1, <1>2, <2>1, NatInd
<1>4. \E x \in S : \A y \in S : x >= y
  BY <1>3
<1> QED
  BY <1>4, Zenon DEF Max

\* The smaller of two numbers.
LEMMA MinOfTwo == \A a, b \in Nat : Min({a, b}) = IF a <= b THEN a ELSE b
  BY MinIn

\* The larger of two numbers.
LEMMA MaxOfTwo == \A a, b \in Nat : Max({a, b}) = IF a >= b THEN a ELSE b
  BY DEF Max

\* The number of keys of the range, 0 where it is the whole of u32.
LEMMA Width ==
    ASSUME KeyRangeOK
    PROVE  /\ NDistinct \in Nat
           /\ IF keyMin = 0 /\ keyMax = MaxKey THEN NDistinct = 0
              ELSE NDistinct = keyMax - keyMin + 1 /\ NDistinct >= 1
  BY PartitionedAssumption DEF KeyRangeOK, NDistinct, u32, MaxKey

\* There is a stub, and a key in each of them unless the range is all of u32.
LEMMA StubCount ==
    ASSUME KeyRangeOK, NEW n \in Nat \ {0}
    PROVE  /\ AtMost(n) \in Nat \ {0}
           /\ NDistinct = 0 => AtMost(n) = 1
           /\ NDistinct >= 1 => AtMost(n) <= NDistinct
<1>1. NDistinct \in Nat
  BY Width
<1>2. Min({n, NDistinct}) = IF n <= NDistinct THEN n ELSE NDistinct
  BY <1>1, MinOfTwo
<1> DEFINE a == IF n <= NDistinct THEN n ELSE NDistinct
<1>3. AtMost(n) = IF a >= 1 THEN a ELSE 1
  BY <1>1, <1>2, MaxOfTwo DEF AtMost
<1> QED
  BY <1>1, <1>3

\* A product grows with its first factor.
LEMMA ProductGrows == \A a, b, c \in Nat : a <= b => a * c <= b * c
  OBVIOUS

\* Whole stubs fit into the range.
LEMMA StubWidth ==
    ASSUME KeyRangeOK, NEW n \in Nat \ {0}, NDistinct >= 1 => n <= NDistinct
    PROVE  /\ KeysPerStub(n) \in Nat /\ n * KeysPerStub(n) <= NDistinct
           /\ NDistinct >= 1 => KeysPerStub(n) >= 1
<1>1. NDistinct \in Nat
  BY Width
<1>2. /\ NDistinct \div n \in Int /\ NDistinct % n \in 0 .. n - 1
      /\ NDistinct = n * (NDistinct \div n) + (NDistinct % n)
  BY <1>1, DivMod
<1> DEFINE K == NDistinct \div n
<1>3. K >= 0
  BY <1>1, <1>2
<1>4. ASSUME NDistinct >= 1 PROVE K >= 1
  <2>1. n <= NDistinct
    BY <1>4
  <2> SUFFICES ASSUME K = 0 PROVE FALSE
    BY <1>2, <1>3
  <2>2. n * K = 0
    OBVIOUS
  <2> QED
    BY <1>2, <2>1, <2>2
<1> QED
  BY <1>1, <1>2, <1>3, <1>4 DEF KeysPerStub

(***************************************************************************)
(* The stubs tile the key range: n of them, the last one up to the end.    *)
(***************************************************************************)
Stubs(n) ==
    /\ \A i \in 1 .. n : Stub(i, n).lo \in keyMin .. keyMax /\ Stub(i, n).hi \in 0 .. MaxKey
    /\ \A i \in 1 .. n :
         Stub(i, n).lo = keyMin + (i - 1) * KeysPerStub(n)
    /\ Stub(1, n).lo = keyMin /\ Stub(n, n).hi = u32(keyMax + 1)
    /\ \A i \in 1 .. n - 1 :
         Stub(i, n).hi = Stub(i + 1, n).lo /\ Stub(i, n).lo < Stub(i + 1, n).lo

\* Equal stubs and a last one with the remainder tile every key range.
LEMMA StubsTile ==
    ASSUME KeyRangeOK, NEW n \in Nat \ {0},
           NDistinct >= 1 => n <= NDistinct, NDistinct = 0 => n = 1
    PROVE  Stubs(n)
<1> DEFINE K == KeysPerStub(n)
<1>1. /\ K \in Nat /\ n * K <= NDistinct /\ NDistinct \in Nat
      /\ NDistinct >= 1 => K >= 1
  BY StubWidth, Width
<1>2. KeyBound \in Nat \ {0} /\ MaxKey = KeyBound - 1 /\ MaxKey \in Nat
  BY PartitionedAssumption DEF MaxKey
<1>3. /\ keyMin \in 0 .. MaxKey /\ keyMax \in 0 .. MaxKey /\ keyMin <= keyMax
      /\ NDistinct >= 1 => NDistinct = keyMax - keyMin + 1
  BY Width DEF KeyRangeOK
<1> HIDE DEF K
<1>4. ASSUME NEW j \in 0 .. n - 1 PROVE keyMin + j * K \in keyMin .. keyMax
  <2>1. CASE NDistinct = 0
    <3>1. j = 0 /\ n = 1
      BY <2>1
    <3> QED
      BY <1>1, <1>3, <3>1
  <2>2. CASE NDistinct >= 1
    <3>1. (j + 1) * K <= n * K /\ (j + 1) * K = j * K + K /\ j * K \in Nat
      <4>1. j + 1 \in Nat /\ n \in Nat /\ j + 1 <= n /\ j \in Nat
        OBVIOUS
      <4>2. (j + 1) * K <= n * K
        BY <1>1, <4>1, ProductGrows
      <4>3. (j + 1) * K = j * K + K
        BY <1>1, <4>1
      <4>4. j * K \in Nat
        BY <1>1, <4>1
      <4> QED
        BY <4>2, <4>3, <4>4
    <3>2. n * K \in Nat
      BY <1>1
    <3> DEFINE a == j * K
               c == n * K
    <3> HIDE DEF a, c
    <3>3. a + K <= c /\ c <= keyMax - keyMin + 1 /\ K >= 1 /\ a \in Nat
      BY <1>1, <1>3, <2>2, <3>1, <3>2 DEF a, c
    <3>4. keyMin \in Nat /\ keyMax \in Nat /\ K \in Nat /\ c \in Nat
      BY <1>1, <1>2, <1>3, <3>2 DEF c
    <3>5. keyMin + a \in keyMin .. keyMax
      BY <3>3, <3>4
    <3> QED
      BY <3>5 DEF a
  <2> QED
    BY <1>1, <2>1, <2>2
<1>5. \A x \in 0 .. MaxKey : u32(x) = x
  BY <1>2 DEF u32
<1>6. ASSUME NEW i \in 1 .. n
      PROVE  /\ Stub(i, n).lo = keyMin + (i - 1) * K
             /\ Stub(i, n).lo \in keyMin .. keyMax
  <2>1. i - 1 \in 0 .. n - 1
    OBVIOUS
  <2>2. keyMin + (i - 1) * K \in keyMin .. keyMax
    BY <1>4, <2>1
  <2>3. keyMin + (i - 1) * K \in 0 .. MaxKey
    BY <1>2, <1>3, <2>2
  <2>4. Stub(i, n).lo = u32(keyMin + (i - 1) * K)
    BY DEF Stub, K
  <2> QED
    BY <1>5, <2>2, <2>3, <2>4
<1>7. Stub(n, n).hi = u32(keyMax + 1) /\ u32(keyMax + 1) \in 0 .. MaxKey
  BY <1>2, <1>3 DEF Stub, u32
<1>8. ASSUME NEW i \in 1 .. n - 1
      PROVE  Stub(i, n).hi = Stub(i + 1, n).lo /\ Stub(i, n).lo < Stub(i + 1, n).lo
  <2>1. i \in 1 .. n /\ i + 1 \in 1 .. n /\ i # n /\ (i + 1) - 1 = i
    OBVIOUS
  <2>2. Stub(i, n).hi = u32(keyMin + i * K) /\ Stub(i + 1, n).lo = u32(keyMin + i * K)
    BY <2>1 DEF Stub, K
  <2>3. K >= 1
    BY <1>1
  <2>4. i * K = (i - 1) * K + K /\ (i - 1) * K \in Int
    BY <1>1
  <2> DEFINE a == (i - 1) * K
             c == i * K
  <2>5. Stub(i, n).lo = keyMin + a /\ Stub(i + 1, n).lo = keyMin + c
    BY <1>6, <2>1
  <2> HIDE DEF a, c
  <2>6. keyMin + a < keyMin + c
    BY <1>1, <1>3, <2>3, <2>4 DEF a, c
  <2> QED
    BY <2>2, <2>5, <2>6
<1>9. Stub(1, n).lo = keyMin
  <2>1. Stub(1, n).lo = keyMin + (1 - 1) * K
    BY <1>6
  <2> QED
    BY <1>1, <1>3, <2>1
<1>10. ASSUME NEW i \in 1 .. n PROVE Stub(i, n).hi \in 0 .. MaxKey
  <2>1. CASE i = n
    BY <1>7, <2>1
  <2>2. CASE i # n
    <3>1. i \in 1 .. n - 1 /\ i + 1 \in 1 .. n
      BY <2>2
    <3> QED
      BY <1>2, <1>3, <1>6, <1>8, <3>1
  <2> QED
    BY <2>1, <2>2
<1> QED
  BY <1>6, <1>7, <1>8, <1>9, <1>10 DEF Stubs, K

(***************************************************************************)
(* A key is assigned to a stub, and to the one it lies in.                 *)
(***************************************************************************)
LEMMA StubOfKey ==
    ASSUME KeyRangeOK, NEW n \in Nat \ {0},
           NDistinct >= 1 => n <= NDistinct, NDistinct = 0 => n = 1,
           NEW k \in keyMin .. keyMax
    PROVE  /\ StubOf(k, n) \in 1 .. n
           /\ keyMax < MaxKey =>
                k \in Stub(StubOf(k, n), n).lo .. Stub(StubOf(k, n), n).hi - 1
<1> DEFINE K == KeysPerStub(n)
           q == (k - keyMin) \div K
<1>1. /\ K \in Nat /\ NDistinct \in Nat
      /\ NDistinct >= 1 => K >= 1
  BY StubWidth, Width
<1>2. /\ keyMin \in 0 .. MaxKey /\ keyMax \in 0 .. MaxKey
      /\ MaxKey = KeyBound - 1 /\ KeyBound \in Nat \ {0}
      /\ NDistinct = 0 => keyMax = MaxKey
      /\ k \in Nat /\ k - keyMin \in Nat
  BY Width, PartitionedAssumption DEF KeyRangeOK, MaxKey
<1>3. CASE K = 0
  BY <1>1, <1>2, <1>3 DEF StubOf
<1>4. CASE K >= 1
  <2>1. q \in Int /\ (k - keyMin) % K \in 0 .. K - 1
        /\ k - keyMin = K * q + ((k - keyMin) % K)
    <3>1. K \in Nat \ {0} /\ k - keyMin \in Int
      BY <1>1, <1>2, <1>4
    <3> HIDE DEF K
    <3> QED
      BY <3>1, DivMod
  <2> DEFINE r == (k - keyMin) % K
             s == IF q <= n - 1 THEN q + 1 ELSE n
  <2> HIDE DEF q, r
  <2>2. q \in Nat
    <3> SUFFICES ASSUME q <= -1 PROVE FALSE
      BY <2>1
    <3>1. K * q <= -K
      <4>1. K * (q + 1) = K * q + K
        BY <1>1, <2>1, Distribute
      <4>2. K * (-(q + 1)) >= 0
        BY <1>1, <2>1
      <4>3. K * (q + 1) <= 0
        BY <1>1, <2>1, <4>2
      <4>4. K * q \in Int
        BY <1>1, <2>1
      <4> QED
        BY <1>1, <4>1, <4>3, <4>4
    <3>2. K * q \in Int
      BY <1>1, <2>1
    <3> QED
      BY <1>1, <1>2, <2>1, <3>1, <3>2
  <2>3. StubOf(k, n) = s
    <3>1. n - 1 \in Nat
      OBVIOUS
    <3>2. Min({q, n - 1}) = IF q <= n - 1 THEN q ELSE n - 1
      BY <2>2, <3>1, MinOfTwo
    <3>3. StubOf(k, n) = Min({q, n - 1}) + 1
      BY <1>1, <1>4 DEF StubOf, q
    <3> QED
      BY <2>2, <3>2, <3>3
  <2>4. s \in 1 .. n
    BY <2>2
  <2>5. ASSUME keyMax < MaxKey PROVE k \in Stub(s, n).lo .. Stub(s, n).hi - 1
    <3>1. Stubs(n)
      BY StubsTile
    <3>2. Stub(s, n).lo = keyMin + (s - 1) * K /\ Stub(s, n).hi \in 0 .. MaxKey
          /\ Stub(s, n).lo \in keyMin .. keyMax
      BY <2>4, <3>1 DEF Stubs
    <3>3. (s - 1) * K <= q * K /\ q * K = K * q /\ q * K \in Int /\ (s - 1) * K \in Int
      <4>1. s - 1 \in Nat /\ s - 1 <= q
        BY <2>2, <2>4
      <4>2. (s - 1) * K <= q * K
        BY <1>1, <2>2, <4>1, ProductGrows
      <4>3. q * K = K * q /\ q * K \in Int /\ (s - 1) * K \in Int
        BY <1>1, <2>2, <4>1
      <4> QED
        BY <4>2, <4>3
    <3> DEFINE a == (s - 1) * K
               c == q * K
               d == K * q
    <3>4. a <= c /\ c = d /\ d \in Int /\ a \in Int /\ k - keyMin = d + r /\ r \in 0 .. K - 1
          /\ Stub(s, n).lo = keyMin + a
      BY <2>1, <3>2, <3>3 DEF r
    <3> HIDE DEF a, c, d, s
    <3>5. Stub(s, n).lo <= k
      BY <1>1, <1>2, <3>4
    <3>6. k < Stub(s, n).hi
      <4>1. CASE s = n
        <5>1. Stub(s, n).hi = u32(keyMax + 1)
          BY <3>1, <4>1 DEF Stubs
        <5>2. u32(keyMax + 1) = keyMax + 1
          BY <1>2, <2>5 DEF u32
        <5> QED
          BY <1>2, <5>1, <5>2
      <4>2. CASE s # n
        <5>1. s = q + 1 /\ s \in 1 .. n - 1 /\ s + 1 \in 1 .. n /\ (s + 1) - 1 = s
          BY <2>2, <2>4, <4>2 DEF s
        <5>2. Stub(s, n).hi = Stub(s + 1, n).lo
          BY <3>1, <5>1 DEF Stubs
        <5>3. Stub(s + 1, n).lo = keyMin + s * K
          BY <3>1, <5>1 DEF Stubs
        <5>4. s * K = c + K
          BY <1>1, <2>2, <5>1 DEF c
        <5> QED
          BY <1>1, <1>2, <3>4, <5>2, <5>3, <5>4
      <4> QED
        BY <4>1, <4>2
    <3> QED
      BY <1>2, <3>2, <3>5, <3>6
  <2> QED
    BY <2>3, <2>4, <2>5
<1> QED
  BY <1>1, <1>3, <1>4

-----------------------------------------------------------------------------
(***************************************************************************)
(* The inductive invariant: the scan has found the passing rows and their  *)
(* key range; the partitions cut so far tile it up to current_lo, with     *)
(* ascending borders; the rows were dealt by key, and what a worker's map  *)
(* holds is the answer over the rows of its partition that are done.       *)
(***************************************************************************)
KeyPartition == [lo : 0 .. MaxKey, hi : 0 .. MaxKey, rows : SUBSET Rows(input)]

Types ==
    /\ input \in Inputs
    /\ plan \in {"uniform", "profiled", "adaptive"}
    /\ threads \in ThreadCounts
    /\ debug \in BOOLEAN
    /\ phase \in {"discover", "plan", "cut", "assign", "aggregate", "returned",
                  "panicked"}
    /\ keyMin \in 0 .. MaxKey /\ keyMax \in 0 .. MaxKey
    /\ parts \in Seq(KeyPartition)
    /\ DOMAIN locals \in {{}, DOMAIN parts}

Scanned ==
    /\ phase = "discover" => qualifying = {}
    /\ phase \notin {"discover", "panicked"} =>
          /\ qualifying = PassingRows(input)
          /\ \A r \in qualifying : KeyOf(r) \in keyMin .. keyMax
    /\ phase \in {"cut", "assign", "aggregate"} => qualifying # {}
    /\ phase \in {"discover", "plan"} => parts = <<>>
    /\ phase \in {"discover", "plan", "cut", "assign"} => locals = <<>>
    /\ phase # "returned" => answers = {}

Tiles(ps, from, to) ==
    /\ ps # <<>> => ps[1].lo = from /\ ps[Len(ps)].hi = to
    /\ \A i \in 1 .. Len(ps) - 1 : ps[i].lo <= ps[i].hi /\ ps[i].hi = ps[i + 1].lo

Ascending(ps) == \A i \in 1 .. Len(ps) - 1 : ps[i].hi < ps[i + 1].hi

Cutting ==
    phase = "cut" =>
        /\ plan = "adaptive"
        /\ bucket \in 1 .. NBuckets + 1
        /\ currentLo \in keyMin .. keyMax
        /\ IF bucket = 1 THEN parts = <<>> ELSE currentLo <= Stub(bucket - 1, NBuckets).lo
        /\ parts = <<>> => currentLo = keyMin
        /\ Tiles(parts, keyMin, currentLo)
        /\ Ascending(parts)
        /\ parts # <<>> => parts[Len(parts)].lo <= parts[Len(parts)].hi

Tiled ==
    phase \in {"assign", "aggregate"} =>
        /\ parts # <<>>
        /\ Tiles(parts, keyMin, u32(keyMax + 1))
        /\ IF plan = "adaptive"
           THEN keyMax < MaxKey => Ascending(parts)
           ELSE /\ Len(parts) = NPartitions
                /\ \A i \in DOMAIN parts : /\ parts[i].lo = Stub(i, NPartitions).lo
                                           /\ parts[i].hi = Stub(i, NPartitions).hi

RowsFor(part, p) == {r \in qualifying : part[KeyOf(r)] = p}

Dealt ==
    phase = "aggregate" =>
        \E part \in [KeysIn(qualifying) -> DOMAIN parts] :
            /\ locals = [p \in DOMAIN parts |->
                           AnswerOver(input, RowsFor(part, p) \ parts[p].rows)]
            /\ \A p \in DOMAIN parts :
                 /\ parts[p].rows \subseteq RowsFor(part, p)
                 /\ keyMax < MaxKey => \A r \in RowsFor(part, p) :
                                         KeyOf(r) \in parts[p].lo .. parts[p].hi - 1

IInv == Types /\ Scanned /\ Cutting /\ Tiled /\ Dealt

(***************************************************************************)
(* The timers: a stage's time is set when it ends, and those that ended    *)
(* lie before the running timer's start.                                   *)
(***************************************************************************)
Timing ==
    plan = "profiled" =>
        /\ now \in Nat /\ lap \in Nat /\ lap <= now
        /\ profile \in [predicate : Nat, partition : Nat, aggregate : Nat, total : Nat]
        /\ phase # "cut"
        /\ phase = "discover" => lap = 0 /\ profile = NewProfile
        /\ phase \in {"plan", "assign"} =>
             /\ profile.predicate > 0 /\ profile.partition = 0 /\ profile.aggregate = 0
             /\ profile.predicate <= lap
        /\ phase = "aggregate" =>
             /\ profile.predicate > 0 /\ profile.partition > 0 /\ profile.aggregate = 0
             /\ profile.predicate + profile.partition <= lap
        /\ StagesWithinTotal

-----------------------------------------------------------------------------
(***************************************************************************)
(* The input.                                                              *)
(***************************************************************************)
\* Keys are u32.
LEMMA InputFacts ==
    ASSUME input \in Inputs
    PROVE  /\ IsTable(input)
           /\ \A r \in Rows(input) : KeyOf(r) \in 0 .. MaxKey /\ ValOf(r) \in Int
<1> DEFINE K == 0 .. KeyBound - 1
           coded == [key : K, val : -IntBound .. IntBound - 1]
<1>1. input \in Seq(Seq(coded))
  BY PartitionedAssumption
<1>2. IsTable(input)
  <2>1. K \in SUBSET Nat
    OBVIOUS
  <2> HIDE DEF K
  <2> QED
    BY <1>1, <2>1, CodedTable
<1>3. ASSUME NEW r \in Rows(input) PROVE KeyOf(r) \in K /\ ValOf(r) \in Int
  <2>1. r[1] \in DOMAIN input /\ r[2] \in DOMAIN input[r[1]]
    BY <1>2, RowFacts
  <2> DEFINE batch == Seq(coded)
  <2> HIDE DEF coded
  <2>2. input \in Seq(batch)
    BY <1>1
  <2> HIDE DEF batch
  <2>3. input[r[1]] \in batch
    BY <2>1, <2>2
  <2>4. input[r[1]][r[2]] \in coded
    BY <2>1, <2>3 DEF batch
  <2>5. RowAt(input, r).key \in K
    BY <2>4 DEF coded, RowAt
  <2>6. RowAt(input, r).val \in Int
    BY <1>2, RowFacts
  <2> QED
    BY <2>5, <2>6 DEF KeyOf, ValOf
<1> QED
  BY <1>2, <1>3 DEF MaxKey

\* A batch that is pruned has no passing row.
LEMMA ScanFindsPassing ==
    ASSUME input \in Inputs
    PROVE  QualifyingRows = PassingRows(input)
<1>1. IsTable(input)
  BY InputFacts
<1>2. ASSUME NEW r \in Rows(input)
      PROVE  r[2] \in Selection(input[r[1]]) <=> Passes(RowAt(input, r))
  <2>1. r[2] \in DOMAIN input[r[1]] /\ RowAt(input, r) = input[r[1]][r[2]]
    BY <1>1, RowFacts DEF RowAt
  <2>2. RowAt(input, r).val \in Int /\ Threshold \in Int
    BY <1>1, RowFacts, ThresholdAssumption DEF InRange
  <2>3. CASE CanPrune(input[r[1]])
    <3>1. Selection(input[r[1]]) = {}
      BY <2>3 DEF Selection
    <3>2. RowAt(input, r).val <= Threshold
      BY <2>1, <2>3 DEF CanPrune
    <3> QED
      BY <2>2, <3>1, <3>2 DEF Passes
  <2>4. CASE ~CanPrune(input[r[1]])
    BY <2>1, <2>4 DEF Selection, EvaluatePredicate
  <2> QED
    BY <2>3, <2>4
<1> QED
  BY <1>2 DEF QualifyingRows, PassingRows

\* Where there are rows, the key range is one, and the stubs tile it.
LEMMA StubFacts ==
    ASSUME Types, Scanned, qualifying # {}, phase \notin {"discover", "panicked"}
    PROVE  /\ KeyRangeOK
           /\ NPartitions \in Nat \ {0} /\ NBuckets \in Nat \ {0}
           /\ Stubs(NPartitions) /\ Stubs(NBuckets)
           /\ \A k \in keyMin .. keyMax :
                /\ StubOf(k, NPartitions) \in 1 .. NPartitions
                /\ keyMax < MaxKey =>
                     k \in Stub(StubOf(k, NPartitions), NPartitions).lo ..
                             Stub(StubOf(k, NPartitions), NPartitions).hi - 1
<1>1. KeyRangeOK
  <2>1. PICK r \in qualifying : KeyOf(r) \in keyMin .. keyMax
    BY DEF Scanned
  <2>2. keyMin \in 0 .. MaxKey /\ keyMax \in 0 .. MaxKey
    BY DEF Types
  <2>3. keyMin <= keyMax
    BY <2>1, <2>2, PartitionedAssumption DEF MaxKey
  <2> QED
    BY <2>2, <2>3 DEF KeyRangeOK
<1>2. threads * 4 \in Nat \ {0} /\ threads * 16 \in Nat \ {0} /\ NDistinct \in Nat
  <2>1. threads \in Nat \ {0}
    BY PartitionedAssumption DEF Types
  <2> QED
    BY <1>1, <2>1, Width
<1>3. ASSUME NEW n \in {NPartitions, NBuckets}
      PROVE  /\ n \in Nat \ {0}
             /\ NDistinct >= 1 => n <= NDistinct
             /\ NDistinct = 0 => n = 1
  <2>1. n = AtMost(threads * 4) \/ n = AtMost(threads * 16)
    BY DEF NPartitions, NBuckets
  <2> QED
    BY <1>1, <1>2, <2>1, StubCount
<1>4. NPartitions \in Nat \ {0} /\ NBuckets \in Nat \ {0}
  BY <1>3
<1>5. Stubs(NPartitions) /\ Stubs(NBuckets)
  BY <1>1, <1>3, StubsTile
<1>6. ASSUME NEW k \in keyMin .. keyMax
      PROVE  /\ StubOf(k, NPartitions) \in 1 .. NPartitions
             /\ keyMax < MaxKey =>
                  k \in Stub(StubOf(k, NPartitions), NPartitions).lo ..
                          Stub(StubOf(k, NPartitions), NPartitions).hi - 1
  BY <1>1, <1>3, StubOfKey
<1> QED
  BY <1>1, <1>4, <1>5, <1>6

-----------------------------------------------------------------------------
(***************************************************************************)
(* The steps.                                                              *)
(***************************************************************************)
\* The invariant holds initially.
LEMMA InitIInv == Init => IInv
<1> SUFFICES ASSUME Init PROVE IInv
  OBVIOUS
<1>1. MaxKey \in Nat
  BY PartitionedAssumption DEF MaxKey
<1>2. Types
  BY <1>1 DEF Init, Types
<1>3. Scanned
  BY DEF Init, Scanned
<1>4. Cutting /\ Tiled /\ Dealt
  BY DEF Init, Cutting, Tiled, Dealt
<1> QED
  BY <1>2, <1>3, <1>4 DEF IInv

\* A scan that panics leaves everything else as it was.
LEMMA PanicInScanIInv == IInv /\ PanicInScan => IInv'
<1> SUFFICES ASSUME IInv, PanicInScan PROVE IInv'
  OBVIOUS
<1>1. /\ phase = "discover" /\ phase' = "panicked"
      /\ UNCHANGED <<input, plan, threads, debug, qualifying, keyMin, keyMax, answers,
                     parts, locals>>
  BY DEF PanicInScan, callVars, scanVars
<1>2. Types'
  BY <1>1 DEF IInv, Types, KeyPartition
<1>3. Scanned'
  BY <1>1 DEF IInv, Scanned
<1>4. Cutting' /\ Tiled' /\ Dealt'
  BY <1>1 DEF Cutting, Tiled, Dealt
<1> QED
  BY <1>2, <1>3, <1>4 DEF IInv

\* The scan finds the passing rows and the range of their keys.
LEMMA DiscoverIInv == IInv /\ Discover => IInv'
<1> SUFFICES ASSUME IInv, Discover PROVE IInv'
  OBVIOUS
<1> DEFINE keys == KeysIn(QualifyingRows)
<1>1. /\ phase' = "plan" /\ qualifying' = QualifyingRows
      /\ keyMin' = Min(keys \cup {MaxKey}) /\ keyMax' = Max(keys \cup {0})
      /\ UNCHANGED <<input, plan, threads, debug, answers, parts, locals>>
  BY DEF Discover, callVars
<1>2. input \in Inputs /\ parts = <<>> /\ locals = <<>> /\ answers = {}
  BY DEF Discover, IInv, Types, Scanned
<1>3. QualifyingRows = PassingRows(input) /\ MaxKey \in Nat
  BY <1>2, ScanFindsPassing, PartitionedAssumption DEF MaxKey
<1>4. keys \in SUBSET (0 .. MaxKey) /\ \A r \in QualifyingRows : KeyOf(r) \in keys
  BY <1>2, InputFacts DEF QualifyingRows, KeysIn
<1>5. /\ keyMin' \in 0 .. MaxKey /\ \A k \in keys : keyMin' <= k
      /\ keyMax' \in 0 .. MaxKey /\ \A k \in keys : k <= keyMax'
  <2> HIDE DEF keys
  <2> DEFINE low == keys \cup {MaxKey}
             high == keys \cup {0}
  <2>1. low \in SUBSET (0 .. MaxKey) /\ low \in SUBSET Nat /\ low # {}
    BY <1>3, <1>4
  <2>2. high \in SUBSET (0 .. MaxKey) /\ high # {}
    BY <1>3, <1>4
  <2>3. keys \in SUBSET low /\ keys \in SUBSET high
    OBVIOUS
  <2>4. keyMin' = Min(low) /\ keyMax' = Max(high)
    BY <1>1
  <2> HIDE DEF low, high
  <2>5. Min(low) \in low /\ \A k \in low : Min(low) <= k
    BY <2>1, MinIn
  <2>6. Max(high) \in high /\ \A k \in high : Max(high) >= k
    BY <1>3, <2>2, MaxOf
  <2> QED
    BY <1>3, <1>4, <2>1, <2>2, <2>3, <2>4, <2>5, <2>6
<1>6. Types'
  BY <1>1, <1>5 DEF IInv, Types, KeyPartition
<1>7. Scanned'
  <2>1. \A r \in qualifying' : KeyOf(r)' = KeyOf(r)
    BY <1>1 DEF KeyOf
  <2>2. \A r \in qualifying' : KeyOf(r)' \in (keyMin .. keyMax)'
    <3> HIDE DEF keys
    <3>1. ASSUME NEW k \in keys PROVE k \in keyMin' .. keyMax'
      <4>1. k \in 0 .. MaxKey /\ keyMin' <= k /\ k <= keyMax'
        BY <1>4, <1>5
      <4> QED
        BY <1>3, <1>5, <4>1
    <3> QED
      BY <1>1, <1>4, <2>1, <3>1
  <2>3. qualifying' = PassingRows(input)'
    BY <1>1, <1>3
  <2> QED
    BY <1>1, <1>2, <2>2, <2>3 DEF Scanned
<1>8. Cutting' /\ Tiled' /\ Dealt'
  BY <1>1 DEF Cutting, Tiled, Dealt
<1> QED
  BY <1>6, <1>7, <1>8 DEF IInv

\* A step after the scan leaves what it found alone.
LEMMA ScannedKept ==
    ASSUME Scanned, phase \notin {"discover", "panicked"}, phase' # "discover",
           UNCHANGED <<input, qualifying, keyMin, keyMax>>
    PROVE  /\ qualifying' = PassingRows(input)'
           /\ \A r \in qualifying' : KeyOf(r)' \in (keyMin .. keyMax)'
<1>1. \A r \in qualifying : KeyOf(r)' = KeyOf(r)
  BY DEF KeyOf
<1> QED
  BY <1>1 DEF Scanned

\* Nothing qualifies: there is nothing to partition.
LEMMA NothingQualifiesIInv == IInv /\ NothingQualifies => IInv'
<1> SUFFICES ASSUME IInv, NothingQualifies PROVE IInv'
  OBVIOUS
<1>1. /\ phase = "plan" /\ phase' = "returned"
      /\ UNCHANGED <<input, plan, threads, debug, qualifying, keyMin, keyMax, parts, locals>>
  BY DEF NothingQualifies, callVars, scanVars
<1>2. Types'
  BY <1>1 DEF IInv, Types, KeyPartition
<1>3. Scanned'
  BY <1>1, ScannedKept DEF IInv, Scanned
<1>4. Cutting' /\ Tiled' /\ Dealt'
  BY <1>1 DEF Cutting, Tiled, Dealt
<1> QED
  BY <1>2, <1>3, <1>4 DEF IInv

\* A partition without rows yet.
LEMMA NewPartition ==
    ASSUME NEW lo \in 0 .. MaxKey, NEW hi \in 0 .. MaxKey
    PROVE  /\ KeyRange(lo, hi) \in KeyPartition
           /\ KeyRange(lo, hi).lo = lo /\ KeyRange(lo, hi).hi = hi
  BY DEF KeyRange, KeyPartition

\* Where the key range does not end at u32::MAX its last border has not wrapped.
LEMMA LastBorder ==
    ASSUME KeyRangeOK
    PROVE  /\ u32(keyMax + 1) \in 0 .. MaxKey
           /\ keyMax < MaxKey => u32(keyMax + 1) = keyMax + 1
  BY PartitionedAssumption DEF KeyRangeOK, MaxKey, u32

\* The uniform plan's partitions are the stubs; the adaptive one's loop begins.
LEMMA PlanIInv == IInv /\ Plan => IInv'
<1> SUFFICES ASSUME IInv, Plan PROVE IInv'
  OBVIOUS
<1>1. /\ phase = "plan" /\ qualifying # {} /\ bucket' = 1 /\ currentLo' = keyMin
      /\ parts = <<>> /\ locals = <<>>
      /\ UNCHANGED <<input, plan, threads, debug, qualifying, keyMin, keyMax, answers, locals>>
  BY DEF Plan, callVars, scanVars, IInv, Scanned
<1>2. /\ KeyRangeOK
      /\ NPartitions \in Nat \ {0} /\ NBuckets \in Nat \ {0} /\ Stubs(NPartitions)
  BY <1>1, StubFacts DEF IInv
<1>3. NPartitions' = NPartitions /\ NBuckets' = NBuckets
  BY <1>1 DEF NPartitions, NBuckets, AtMost, NDistinct
<1>4. phase' # "discover" => Scanned'
  <2> SUFFICES ASSUME phase' # "discover" PROVE Scanned'
    OBVIOUS
  <2>1. /\ qualifying' = PassingRows(input)'
        /\ \A r \in qualifying' : KeyOf(r)' \in (keyMin .. keyMax)'
    BY <1>1, ScannedKept DEF IInv
  <2>2. phase' \in {"cut", "assign", "panicked"} /\ answers' = {}
    BY <1>1 DEF Plan, IInv, Scanned
  <2> QED
    BY <1>1, <2>1, <2>2 DEF Scanned
<1>5. CASE phase' = "panicked" /\ UNCHANGED parts
  <2>1. Types'
    BY <1>1, <1>5 DEF IInv, Types, KeyPartition
  <2>2. Cutting' /\ Tiled' /\ Dealt'
    BY <1>5 DEF Cutting, Tiled, Dealt
  <2> QED
    BY <1>4, <1>5, <2>1, <2>2 DEF IInv
<1>6. CASE /\ plan # "adaptive" /\ phase' = "assign"
           /\ parts' = [i \in 1 .. NPartitions |->
                            KeyRange(Stub(i, NPartitions).lo, Stub(i, NPartitions).hi)]
  <2> DEFINE n == NPartitions
             P(i) == KeyRange(Stub(i, n).lo, Stub(i, n).hi)
  <2>1. \A i \in 1 .. n : /\ P(i) \in KeyPartition
                          /\ P(i).lo = Stub(i, n).lo /\ P(i).hi = Stub(i, n).hi
    <3> SUFFICES ASSUME NEW i \in 1 .. n
                 PROVE  /\ P(i) \in KeyPartition
                        /\ P(i).lo = Stub(i, n).lo /\ P(i).hi = Stub(i, n).hi
      OBVIOUS
    <3>1. Stub(i, n).lo \in keyMin .. keyMax /\ Stub(i, n).hi \in 0 .. MaxKey
      BY <1>2 DEF Stubs
    <3>2. Stub(i, n).lo \in 0 .. MaxKey
      BY <1>2, <3>1, PartitionedAssumption DEF KeyRangeOK, MaxKey
    <3> QED
      BY <3>1, <3>2, NewPartition
  <2>2. n \in Nat \ {0}
    BY <1>2
  <2>3. Stubs(n)
    BY <1>2
  <2>4. parts' = [i \in 1 .. n |-> P(i)]
    BY <1>6
  <2> HIDE DEF n, P
  <2>5. /\ parts' \in Seq(KeyPartition) /\ Len(parts') = n /\ DOMAIN parts' = 1 .. n
        /\ parts' # <<>>
        /\ \A i \in 1 .. n : parts'[i].lo = Stub(i, n).lo /\ parts'[i].hi = Stub(i, n).hi
    BY <2>1, <2>2, <2>4
  <2>6. Types'
    <3>1. KeyPartition' = KeyPartition
      BY <1>1 DEF KeyPartition
    <3>2. phase' \in {"assign"} /\ DOMAIN locals' = {}
      BY <1>1, <1>6
    <3> QED
      BY <1>1, <2>5, <3>1, <3>2 DEF IInv, Types
  <2>7. \A i : Stub(i, NPartitions)' = Stub(i, n)
    BY <1>1, <1>3 DEF Stub, KeysPerStub, NDistinct, n
  <2>8. Tiles(parts', keyMin', u32(keyMax + 1)')
    <3>1. parts'[1].lo = keyMin /\ parts'[n].hi = u32(keyMax + 1)
      BY <2>2, <2>3, <2>5 DEF Stubs
    <3>2. ASSUME NEW i \in 1 .. n - 1
          PROVE  parts'[i].lo <= parts'[i].hi /\ parts'[i].hi = parts'[i + 1].lo
      <4>1. i \in 1 .. n /\ i + 1 \in 1 .. n
        BY <2>2
      <4>2. Stub(i, n).hi = Stub(i + 1, n).lo /\ Stub(i, n).lo < Stub(i + 1, n).lo
        BY <2>3 DEF Stubs
      <4>3. Stub(i, n).lo \in keyMin .. keyMax /\ Stub(i + 1, n).lo \in keyMin .. keyMax
        BY <2>3, <4>1 DEF Stubs
      <4>4. keyMin \in Int /\ keyMax \in Int
        BY <1>2 DEF KeyRangeOK
      <4> QED
        BY <2>5, <4>1, <4>2, <4>3, <4>4
    <3>3. keyMin' = keyMin /\ u32(keyMax + 1)' = u32(keyMax + 1)
      BY <1>1 DEF u32
    <3> QED
      BY <2>5, <3>1, <3>2, <3>3 DEF Tiles
  <2>9. Tiled'
    BY <1>1, <1>3, <1>6, <2>5, <2>7, <2>8 DEF Tiled, n
  <2>10. Cutting' /\ Dealt' /\ phase' # "discover"
    BY <1>6 DEF Cutting, Dealt
  <2> QED
    BY <1>4, <2>6, <2>9, <2>10 DEF IInv
<1>7. CASE plan = "adaptive" /\ phase' = "cut" /\ UNCHANGED parts
  <2>1. Types'
    BY <1>1, <1>7 DEF IInv, Types, KeyPartition
  <2>2. Cutting'
    <3>1. bucket' \in (1 .. NBuckets + 1)'
      BY <1>1, <1>2, <1>3
    <3>2. currentLo' \in (keyMin .. keyMax)'
      BY <1>1, <1>2, PartitionedAssumption DEF KeyRangeOK, MaxKey
    <3>3. parts' = <<>> /\ Len(<<>>) = 0 /\ 1 .. Len(<<>>) - 1 = {}
      BY <1>1, <1>7
    <3>4. Tiles(parts', keyMin', currentLo') /\ Ascending(parts')
      BY <3>3 DEF Tiles, Ascending
    <3> QED
      BY <1>1, <1>7, <3>1, <3>2, <3>3, <3>4 DEF Cutting
  <2>3. Tiled' /\ Dealt' /\ phase' # "discover"
    BY <1>7 DEF Tiled, Dealt
  <2> QED
    BY <1>4, <2>1, <2>2, <2>3 DEF IInv
<1> QED
  BY <1>5, <1>6, <1>7 DEF Plan

\* One more partition behind the others.
LEMMA OneMorePartition ==
    ASSUME NEW S, NEW ps \in Seq(S), NEW x \in S
    PROVE  /\ Append(ps, x) \in Seq(S) /\ Append(ps, x) # <<>> /\ Len(ps) \in Nat
           /\ Len(Append(ps, x)) = Len(ps) + 1 /\ Append(ps, x)[Len(ps) + 1] = x
           /\ \A i \in 1 .. Len(ps) : Append(ps, x)[i] = ps[i]
           /\ ps = <<>> <=> Len(ps) = 0
  OBVIOUS

\* A partition from the end of the tiles on.
LEMMA TilesGrow ==
    ASSUME NEW ps \in Seq(KeyPartition), NEW from \in 0 .. MaxKey, NEW mid \in 0 .. MaxKey,
           NEW to \in 0 .. MaxKey,
           Tiles(ps, from, mid), ps = <<>> => mid = from,
           ps # <<>> => ps[Len(ps)].lo <= ps[Len(ps)].hi
    PROVE  /\ Append(ps, KeyRange(mid, to)) \in Seq(KeyPartition)
           /\ Append(ps, KeyRange(mid, to)) # <<>>
           /\ Tiles(Append(ps, KeyRange(mid, to)), from, to)
           /\ Ascending(ps) /\ mid < to => Ascending(Append(ps, KeyRange(mid, to)))
           /\ Append(ps, KeyRange(mid, to))[Len(Append(ps, KeyRange(mid, to)))]
                = KeyRange(mid, to)
<1> DEFINE x == KeyRange(mid, to)
           qs == Append(ps, x)
           L == Len(ps)
<1>1. x \in KeyPartition /\ x.lo = mid /\ x.hi = to
  BY NewPartition
<1> HIDE DEF x
<1>2. /\ qs \in Seq(KeyPartition) /\ qs # <<>> /\ L \in Nat
      /\ Len(qs) = L + 1 /\ qs[L + 1] = x /\ \A i \in 1 .. L : qs[i] = ps[i]
      /\ ps = <<>> <=> L = 0
  BY <1>1, OneMorePartition
<1> HIDE DEF qs
<1>3. qs[1].lo = from
  <2>1. CASE L = 0
    BY <1>1, <1>2, <2>1
  <2>2. CASE L # 0
    <3>1. 1 \in 1 .. L
      BY <1>2, <2>2
    <3> QED
      BY <1>2, <2>2, <3>1 DEF Tiles
  <2> QED
    BY <2>1, <2>2
<1>4. ASSUME NEW i \in 1 .. L
      PROVE  /\ qs[i].lo <= qs[i].hi /\ qs[i].hi = qs[i + 1].lo
             /\ Ascending(ps) /\ mid < to => qs[i].hi < qs[i + 1].hi
  <2>1. CASE i = L
    <3>1. qs[i] = ps[L] /\ qs[i + 1] = x /\ ps # <<>>
      BY <1>2, <2>1
    <3> QED
      BY <1>1, <3>1 DEF Tiles, L
  <2>2. CASE i # L
    <3>1. i \in 1 .. L - 1 /\ i + 1 \in 1 .. L
      BY <1>2, <2>2
    <3>2. qs[i] = ps[i] /\ qs[i + 1] = ps[i + 1]
      BY <1>2, <3>1
    <3> QED
      BY <3>1, <3>2 DEF Tiles, Ascending, L
  <2> QED
    BY <2>1, <2>2
<1>5. 1 .. Len(qs) - 1 = 1 .. L
  BY <1>2
<1>6. Tiles(qs, from, to)
  BY <1>1, <1>2, <1>3, <1>4, <1>5 DEF Tiles
<1>7. Ascending(ps) /\ mid < to => Ascending(qs)
  BY <1>4, <1>5 DEF Ascending
<1> QED
  BY <1>2, <1>6, <1>7 DEF qs, x

\* What a turn of the loop over the buckets starts from.
LEMMA AtBucket ==
    ASSUME IInv, phase = "cut", bucket <= NBuckets
    PROVE  /\ bucket \in 1 .. NBuckets
           /\ Stub(bucket, NBuckets).lo \in keyMin .. keyMax
           /\ currentLo <= Stub(bucket, NBuckets).lo
           /\ parts # <<>> => currentLo < Stub(bucket, NBuckets).lo
<1>1. /\ KeyRangeOK /\ NBuckets \in Nat \ {0} /\ Stubs(NBuckets)
  BY StubFacts DEF IInv, Scanned
<1>2. bucket \in 1 .. NBuckets + 1 /\ currentLo \in keyMin .. keyMax
  BY DEF IInv, Cutting
<1>3. bucket \in 1 .. NBuckets
  BY <1>1, <1>2
<1>4. Stub(bucket, NBuckets).lo \in keyMin .. keyMax
  BY <1>1, <1>3 DEF Stubs
<1>5. keyMin \in Int /\ keyMax \in Int
  BY <1>1 DEF KeyRangeOK
<1>6. CASE bucket = 1
  <2>1. parts = <<>> /\ currentLo = keyMin
    BY <1>6 DEF IInv, Cutting
  <2> QED
    BY <1>3, <1>4, <1>5, <2>1
<1>7. CASE bucket # 1
  <2>1. currentLo <= Stub(bucket - 1, NBuckets).lo
    BY <1>7 DEF IInv, Cutting
  <2>2. bucket - 1 \in 1 .. NBuckets - 1 /\ (bucket - 1) + 1 = bucket
        /\ bucket - 1 \in 1 .. NBuckets
    BY <1>1, <1>3, <1>7
  <2>3. Stub(bucket - 1, NBuckets).lo < Stub(bucket, NBuckets).lo
    BY <1>1, <2>2 DEF Stubs
  <2>4. Stub(bucket - 1, NBuckets).lo \in keyMin .. keyMax
    BY <1>1, <2>2 DEF Stubs
  <2> QED
    BY <1>2, <1>3, <1>4, <1>5, <2>1, <2>3, <2>4
<1> QED
  BY <1>6, <1>7

\* A turn of the loop: a partition is cut at the bucket's border, or not.
LEMMA CutBucketIInv == IInv /\ CutBucket => IInv'
<1> SUFFICES ASSUME IInv, CutBucket PROVE IInv'
  OBVIOUS
<1> DEFINE border == Stub(bucket, NBuckets).lo
<1>1. /\ phase = "cut" /\ phase' = "cut" /\ bucket <= NBuckets /\ bucket' = bucket + 1
      /\ UNCHANGED <<input, plan, threads, debug, qualifying, keyMin, keyMax, answers, locals>>
  BY DEF CutBucket, callVars, scanVars
<1>2. /\ KeyRangeOK /\ NBuckets \in Nat \ {0}
  BY <1>1, StubFacts DEF IInv, Scanned
<1>3. /\ bucket \in 1 .. NBuckets /\ border \in keyMin .. keyMax
      /\ currentLo <= border /\ (parts # <<>> => currentLo < border)
  BY <1>1, AtBucket
<1>4. /\ keyMin \in 0 .. MaxKey /\ keyMax \in 0 .. MaxKey /\ MaxKey \in Nat
      /\ currentLo \in keyMin .. keyMax /\ parts \in Seq(KeyPartition)
  BY <1>1, <1>2, PartitionedAssumption DEF KeyRangeOK, MaxKey, IInv, Cutting, Types
<1>5. NBuckets' = NBuckets /\ KeyPartition' = KeyPartition
      /\ Stub(bucket - 1, NBuckets)' = Stub(bucket, NBuckets)
  <2>1. NBuckets' = NBuckets
    BY <1>1 DEF NBuckets, AtMost, NDistinct
  <2>2. bucket' - 1 = bucket /\ bucket \in Int
    BY <1>1, <1>3
  <2>3. Stub(bucket - 1, NBuckets)' = Stub(bucket, NBuckets)
    BY <1>1, <2>1, <2>2 DEF Stub, KeysPerStub, NDistinct
  <2>4. KeyPartition' = KeyPartition
    BY <1>1 DEF KeyPartition
  <2> QED
    BY <2>1, <2>3, <2>4
<1>6. Scanned'
  <2>1. /\ qualifying' = PassingRows(input)'
        /\ \A r \in qualifying' : KeyOf(r)' \in (keyMin .. keyMax)'
    BY <1>1, ScannedKept DEF IInv
  <2> QED
    BY <1>1, <2>1 DEF IInv, Scanned
<1>7. locals = <<>> /\ DOMAIN locals = {} /\ plan = "adaptive"
  BY <1>1 DEF IInv, Scanned, Cutting
<1>8. Tiled' /\ Dealt'
  BY <1>1 DEF Tiled, Dealt
<1>9. bucket' \in (1 .. NBuckets + 1)' /\ bucket' # 1
  BY <1>1, <1>2, <1>3, <1>5
<1>10. /\ Tiles(parts, keyMin, currentLo) /\ Ascending(parts)
       /\ parts = <<>> => currentLo = keyMin
       /\ parts # <<>> => parts[Len(parts)].lo <= parts[Len(parts)].hi
  BY <1>1 DEF IInv, Cutting
<1>11. CASE /\ parts' = Append(parts, KeyRange(currentLo, border)) /\ currentLo' = border
  <2>1. currentLo \in 0 .. MaxKey /\ border \in 0 .. MaxKey
    BY <1>3, <1>4
  <2> HIDE DEF border
  <2>2. /\ parts' \in Seq(KeyPartition) /\ parts' # <<>>
        /\ Tiles(parts', keyMin, border)
        /\ Ascending(parts) /\ currentLo < border => Ascending(parts')
        /\ parts'[Len(parts')] = KeyRange(currentLo, border)
    BY <1>4, <1>10, <1>11, <2>1, TilesGrow
  <2>3. Ascending(parts')
    <3>1. CASE parts = <<>>
      <4>1. Len(parts') = 1
        BY <1>4, <1>11, <3>1, <2>1, NewPartition, OneMorePartition
      <4> QED
        BY <4>1 DEF Ascending
    <3>2. CASE parts # <<>>
      BY <1>3, <1>10, <2>2, <3>2
    <3> QED
      BY <3>1, <3>2
  <2>4. parts'[Len(parts')].lo = currentLo /\ parts'[Len(parts')].hi = border
    BY <2>1, <2>2, NewPartition
  <2>5. Types'
    BY <1>1, <1>5, <1>7, <2>2 DEF IInv, Types
  <2>6. Cutting'
    <3>1. currentLo' \in (keyMin .. keyMax)'
      BY <1>1, <1>3, <1>11
    <3>2. currentLo' <= (Stub(bucket - 1, NBuckets).lo)'
      BY <1>3, <1>4, <1>5, <1>11 DEF border
    <3>3. parts'[Len(parts')].lo <= parts'[Len(parts')].hi
      BY <1>3, <2>4
    <3>4. Tiles(parts', keyMin', currentLo')
      BY <1>1, <1>11, <2>2
    <3> QED
      BY <1>1, <1>7, <1>9, <2>2, <2>3, <3>1, <3>2, <3>3, <3>4 DEF Cutting
  <2> QED
    BY <1>6, <1>8, <2>5, <2>6 DEF IInv
<1>12. CASE UNCHANGED <<parts, currentLo>>
  <2>1. Types'
    BY <1>1, <1>5, <1>12 DEF IInv, Types
  <2>2. Cutting'
    <3>1. currentLo' <= (Stub(bucket - 1, NBuckets).lo)'
      BY <1>3, <1>5, <1>12
    <3>2. Tiles(parts', keyMin', currentLo') /\ Ascending(parts')
      BY <1>1, <1>10, <1>12
    <3> QED
      BY <1>1, <1>4, <1>7, <1>9, <1>10, <1>12, <3>1, <3>2 DEF Cutting
  <2> QED
    BY <1>6, <1>8, <2>1, <2>2 DEF IInv
<1> QED
  BY <1>11, <1>12 DEF CutBucket

\* The last range is captured: it is never empty.
LEMMA CutLastIInv == IInv /\ CutLast => IInv'
<1> SUFFICES ASSUME IInv, CutLast PROVE IInv'
  OBVIOUS
<1> DEFINE border == u32(keyMax + 1)
<1>1. /\ phase = "cut" /\ phase' = "assign"
      /\ parts' = IF currentLo <= keyMax
                  THEN Append(parts, KeyRange(currentLo, border)) ELSE parts
      /\ UNCHANGED <<input, plan, threads, debug, qualifying, keyMin, keyMax, answers, locals>>
  BY DEF CutLast, callVars, scanVars
<1>2. KeyRangeOK
  BY <1>1, StubFacts DEF IInv, Scanned
<1>3. /\ keyMin \in 0 .. MaxKey /\ keyMax \in 0 .. MaxKey /\ MaxKey \in Nat
      /\ currentLo \in keyMin .. keyMax /\ parts \in Seq(KeyPartition)
      /\ border \in 0 .. MaxKey /\ (keyMax < MaxKey => border = keyMax + 1)
  BY <1>1, <1>2, LastBorder, PartitionedAssumption DEF KeyRangeOK, MaxKey, IInv, Cutting, Types
<1>4. currentLo \in 0 .. MaxKey /\ currentLo <= keyMax
      /\ parts' = Append(parts, KeyRange(currentLo, border))
      /\ (keyMax < MaxKey => currentLo < border)
  BY <1>1, <1>3
<1>5. /\ Tiles(parts, keyMin, currentLo) /\ Ascending(parts)
      /\ parts = <<>> => currentLo = keyMin
      /\ parts # <<>> => parts[Len(parts)].lo <= parts[Len(parts)].hi
      /\ locals = <<>> /\ plan = "adaptive" /\ DOMAIN locals = {}
  BY <1>1 DEF IInv, Cutting, Scanned
<1>6. Scanned'
  <2>1. /\ qualifying' = PassingRows(input)'
        /\ \A r \in qualifying' : KeyOf(r)' \in (keyMin .. keyMax)'
    BY <1>1, ScannedKept DEF IInv
  <2> QED
    BY <1>1, <2>1 DEF IInv, Scanned
<1>7. border' = border /\ KeyPartition' = KeyPartition
  BY <1>1 DEF u32, KeyPartition
<1> HIDE DEF border
<1>8. /\ parts' \in Seq(KeyPartition) /\ parts' # <<>>
      /\ Tiles(parts', keyMin, border)
      /\ Ascending(parts) /\ currentLo < border => Ascending(parts')
  BY <1>3, <1>4, <1>5, TilesGrow
<1>9. Types'
  BY <1>1, <1>5, <1>7, <1>8 DEF IInv, Types
<1>10. Tiled'
  <2>1. Tiles(parts', keyMin', u32(keyMax + 1)')
    BY <1>1, <1>7, <1>8 DEF border
  <2> QED
    BY <1>1, <1>4, <1>5, <1>8, <2>1 DEF Tiled
<1>11. Cutting' /\ Dealt'
  BY <1>1 DEF Cutting, Dealt
<1> QED
  BY <1>6, <1>9, <1>10, <1>11 DEF IInv

(***************************************************************************)
(* binary_search: the number of borders up to a key is the index of the    *)
(* last of them where they ascend.                                         *)
(***************************************************************************)
\* A set of indices that has all smaller ones is a beginning.
LEMMA Prefix ==
    ASSUME NEW n \in Nat, NEW S \in SUBSET (1 .. n), \A i \in S : i > 1 => i - 1 \in S
    PROVE  Cardinality(S) \in 0 .. n /\ S = 1 .. Cardinality(S)
<1> DEFINE T == {i \in 1 .. n + 1 : i \notin S}
           j == Min(T)
<1>1. T \in SUBSET Nat /\ T # {}
  BY n + 1 \in T
<1>2. j \in T /\ \A i \in T : j <= i
  <2> HIDE DEF T
  <2> QED
    BY <1>1, MinIn
<1> HIDE DEF j
<1>3. j \in 1 .. n + 1 /\ j \notin S /\ j - 1 \in Nat
  BY <1>2
<1>4. \A i \in 1 .. j - 1 : i \in S
  BY <1>2, <1>3
<1>5. ASSUME NEW d \in Nat PROVE j + d \notin S
  <2> DEFINE N == {e \in Nat : j + e \notin S}
  <2>1. 0 \in N
    BY <1>3
  <2>2. ASSUME NEW e \in N PROVE e + 1 \in N
    <3>1. j + (e + 1) > 1 /\ (j + (e + 1)) - 1 = j + e /\ e + 1 \in Nat
      BY <1>3
    <3> QED
      BY <3>1
  <2>3. N = Nat
    <3>1. N \in SUBSET Nat
      OBVIOUS
    <3> HIDE DEF N
    <3> QED
      BY <2>1, <2>2, <3>1, NatInd
  <2> QED
    BY <2>3
<1>6. \A i \in S : i \in 1 .. j - 1
  <2> SUFFICES ASSUME NEW i \in S, i >= j PROVE FALSE
    BY <1>3
  <2>1. i - j \in Nat /\ j + (i - j) = i
    BY <1>3
  <2> QED
    BY <1>5, <2>1
<1>7. S = 1 .. j - 1
  BY <1>4, <1>6
<1>8. Cardinality(1 .. j - 1) = j - 1
  <2>1. 1 \in Int /\ j - 1 \in Int
    BY <1>3
  <2>2. Cardinality(1 .. j - 1) = IF 1 > j - 1 THEN 0 ELSE (j - 1) - 1 + 1
    BY <2>1, FS_Interval
  <2> QED
    BY <1>3, <2>2
<1> QED
  BY <1>3, <1>7, <1>8

\* The search ends at a partition, and among ascending ones at the key's.
LEMMA SearchFinds ==
    ASSUME parts \in Seq(KeyPartition), parts # <<>>, NEW k \in Nat
    PROVE  /\ BorderSearch(k) \in DOMAIN parts
           /\ \A from, to \in Nat :
                Tiles(parts, from, to) /\ Ascending(parts) /\ from <= k /\ k < to
                  => k \in parts[BorderSearch(k)].lo .. parts[BorderSearch(k)].hi - 1
<1> DEFINE L == Len(parts)
           S == {i \in DOMAIN parts : parts[i].hi <= k}
           m == Cardinality(S)
<1>1. /\ L \in Nat \ {0} /\ DOMAIN parts = 1 .. L
      /\ \A i \in 1 .. L : parts[i] \in KeyPartition
  BY OneMorePartition
<1>2. \A i \in 1 .. L : parts[i].lo \in Nat /\ parts[i].hi \in Nat
  BY <1>1, PartitionedAssumption DEF KeyPartition, MaxKey
<1>3. S \in SUBSET (1 .. L) /\ m \in Nat
  <2>1. S \in SUBSET (1 .. L)
    BY <1>1
  <2> HIDE DEF S
  <2>2. IsFiniteSet(1 .. L)
    BY FS_Interval
  <2> QED
    BY <2>1, <2>2, FS_Subset, FS_CardinalityType
<1>4. BorderSearch(k) = IF m + 1 <= L THEN m + 1 ELSE L
  <2>1. BorderSearch(k) = Min({m + 1, L})
    BY DEF BorderSearch
  <2> HIDE DEF m, L
  <2> QED
    BY <1>1, <1>3, <2>1, MinOfTwo
<1>5. BorderSearch(k) \in DOMAIN parts
  BY <1>1, <1>3, <1>4
<1>6. ASSUME NEW from \in Nat, NEW to \in Nat,
             Tiles(parts, from, to), Ascending(parts), from <= k, k < to
      PROVE  k \in parts[BorderSearch(k)].lo .. parts[BorderSearch(k)].hi - 1
  <2>1. parts[1].lo = from /\ parts[L].hi = to
    BY <1>6 DEF Tiles
  <2>2. \A i \in S : i > 1 => i - 1 \in S
    <3> SUFFICES ASSUME NEW i \in S, i > 1 PROVE i - 1 \in S
      OBVIOUS
    <3>1. i - 1 \in 1 .. L - 1 /\ i - 1 \in 1 .. L /\ (i - 1) + 1 = i /\ i \in 1 .. L
      BY <1>1
    <3>2. parts[i - 1].hi < parts[i].hi /\ parts[i].hi <= k
      BY <1>6, <3>1 DEF Ascending
    <3> QED
      BY <1>1, <1>2, <3>1, <3>2
  <2>3. m \in 0 .. L /\ S = 1 .. m
    <3> HIDE DEF S
    <3> QED
      BY <1>1, <1>3, <2>2, Prefix
  <2>4. L \notin S
    BY <1>1, <1>2, <1>6, <2>1
  <2>5. m + 1 \in 1 .. L
    BY <1>1, <2>3, <2>4
  <2>6. BorderSearch(k) = m + 1
    BY <1>1, <1>3, <1>4, <2>5
  <2>7. m + 1 \notin S
    <3> HIDE DEF S, m
    <3> QED
      BY <1>3, <2>3
  <2>8. k < parts[m + 1].hi
    <3>1. m + 1 \in DOMAIN parts
      BY <1>1, <2>5
    <3> HIDE DEF m
    <3>2. ~(parts[m + 1].hi <= k)
      BY <2>7, <3>1
    <3> QED
      BY <1>2, <2>5, <3>2
  <2>9. parts[m + 1].lo <= k
    <3>1. CASE m = 0
      BY <1>6, <2>1, <3>1
    <3>2. CASE m # 0
      <4>1. m \in S /\ m \in 1 .. L - 1
        BY <1>1, <1>3, <2>3, <2>5, <3>2
      <4>2. parts[m].hi = parts[m + 1].lo /\ parts[m].hi <= k
        BY <1>6, <4>1 DEF Tiles
      <4> QED
        BY <4>2
    <3> QED
      BY <3>1, <3>2
  <2> QED
    BY <1>2, <2>5, <2>6, <2>8, <2>9
<1> QED
  BY <1>5, <1>6

\* The partitions still tile the key range while only their rows change.
LEMMA TiledKept ==
    ASSUME Tiled, parts \in Seq(KeyPartition), parts' \in Seq(KeyPartition),
           phase' \in {"assign", "aggregate"} => phase \in {"assign", "aggregate"},
           UNCHANGED <<plan, threads, keyMin, keyMax>>,
           DOMAIN parts' = DOMAIN parts,
           \A i \in DOMAIN parts : parts'[i].lo = parts[i].lo /\ parts'[i].hi = parts[i].hi
    PROVE  Tiled'
<1> SUFFICES ASSUME phase' \in {"assign", "aggregate"} PROVE Tiled'
  BY DEF Tiled
<1>1. /\ parts # <<>> /\ Tiles(parts, keyMin, u32(keyMax + 1))
      /\ IF plan = "adaptive"
         THEN keyMax < MaxKey => Ascending(parts)
         ELSE /\ Len(parts) = NPartitions
              /\ \A i \in DOMAIN parts : /\ parts[i].lo = Stub(i, NPartitions).lo
                                         /\ parts[i].hi = Stub(i, NPartitions).hi
  BY DEF Tiled
<1>2. /\ Len(parts) \in Nat /\ Len(parts') = Len(parts) /\ DOMAIN parts = 1 .. Len(parts)
      /\ Len(parts) # 0
  <2> HIDE DEF KeyPartition
  <2> QED
    BY <1>1
<1>3. parts' # <<>>
  BY <1>2
<1>4. \A i \in 1 .. Len(parts) - 1 : i \in DOMAIN parts /\ i + 1 \in DOMAIN parts
  BY <1>2
<1>5. 1 \in DOMAIN parts /\ Len(parts) \in DOMAIN parts
  BY <1>2
<1>6. Tiles(parts', keyMin, u32(keyMax + 1))
  BY <1>1, <1>2, <1>4, <1>5 DEF Tiles
<1>7. Ascending(parts) => Ascending(parts')
  BY <1>2, <1>4 DEF Ascending
<1>8. NPartitions' = NPartitions /\ u32(keyMax + 1)' = u32(keyMax + 1)
  BY DEF NPartitions, AtMost, NDistinct, u32
<1>9. \A i : Stub(i, NPartitions)' = Stub(i, NPartitions)
  BY <1>8 DEF Stub, KeysPerStub, NDistinct
<1> QED
  BY <1>1, <1>2, <1>3, <1>6, <1>7, <1>8, <1>9 DEF Tiled

(***************************************************************************)
(* Every way in which the keys may be mapped to partitions maps each to    *)
(* one of them, and to the one it lies in where the borders are in order.  *)
(***************************************************************************)
LEMMA KeysMapped ==
    ASSUME IInv, phase = "assign", NEW part \in Assignments
    PROVE  /\ part \in [KeysIn(qualifying) -> DOMAIN parts]
           /\ keyMax < MaxKey =>
                \A k \in KeysIn(qualifying) : k \in parts[part[k]].lo .. parts[part[k]].hi - 1
<1> DEFINE keys == KeysIn(qualifying)
<1>1. /\ KeyRangeOK /\ NPartitions \in Nat \ {0}
      /\ \A k \in keyMin .. keyMax :
           /\ StubOf(k, NPartitions) \in 1 .. NPartitions
           /\ keyMax < MaxKey =>
                k \in Stub(StubOf(k, NPartitions), NPartitions).lo ..
                        Stub(StubOf(k, NPartitions), NPartitions).hi - 1
  BY StubFacts DEF IInv, Scanned
<1>2. \A k \in keys : k \in keyMin .. keyMax
  BY DEF IInv, Scanned, KeysIn
<1>3. /\ parts \in Seq(KeyPartition) /\ parts # <<>>
      /\ Tiles(parts, keyMin, u32(keyMax + 1))
  BY DEF IInv, Types, Tiled
<1>4. /\ keyMin \in Nat /\ keyMax \in Nat
      /\ keyMax < MaxKey => u32(keyMax + 1) = keyMax + 1
  BY <1>1, LastBorder DEF KeyRangeOK
<1>5. DOMAIN parts = 1 .. Len(parts)
  BY <1>3
<1> HIDE DEF keys
<1>6. CASE plan # "adaptive"
  <2>1. /\ Len(parts) = NPartitions
        /\ \A i \in DOMAIN parts : /\ parts[i].lo = Stub(i, NPartitions).lo
                                   /\ parts[i].hi = Stub(i, NPartitions).hi
    BY <1>6 DEF IInv, Tiled
  <2>2. part = [k \in keys |-> StubOf(k, NPartitions)]
    BY <1>6 DEF Assignments, keys
  <2>3. \A k \in keys : part[k] = StubOf(k, NPartitions) /\ part[k] \in DOMAIN parts
    BY <1>1, <1>2, <1>5, <2>1, <2>2
  <2>4. ASSUME keyMax < MaxKey, NEW k \in keys
        PROVE  k \in parts[part[k]].lo .. parts[part[k]].hi - 1
    BY <1>1, <1>2, <2>1, <2>3, <2>4
  <2> QED
    BY <2>2, <2>3, <2>4 DEF keys
<1>7. CASE plan = "adaptive" /\ BordersSorted
  <2>1. part = [k \in keys |-> BorderSearch(k)]
    BY <1>7 DEF Assignments, keys
  <2>2. Ascending(parts)
    BY <1>7 DEF BordersSorted, Ascending
  <2>3. \A k \in keys : k \in Nat /\ keyMin <= k /\ k <= keyMax
    BY <1>2, <1>4
  <2>4. \A k \in keys : part[k] = BorderSearch(k) /\ part[k] \in DOMAIN parts
    BY <1>3, <2>1, <2>3, SearchFinds
  <2>5. ASSUME keyMax < MaxKey, NEW k \in keys
        PROVE  k \in parts[part[k]].lo .. parts[part[k]].hi - 1
    <3>1. keyMax + 1 \in Nat /\ k < keyMax + 1 /\ Tiles(parts, keyMin, keyMax + 1)
      BY <1>3, <1>4, <2>3, <2>5
    <3>2. k \in parts[BorderSearch(k)].lo .. parts[BorderSearch(k)].hi - 1
      BY <1>3, <1>4, <2>2, <2>3, <3>1, SearchFinds
    <3> QED
      BY <2>4, <3>2
  <2> QED
    BY <2>1, <2>4, <2>5 DEF keys
<1>8. CASE plan = "adaptive" /\ ~BordersSorted
  <2>1. part \in [keys -> DOMAIN parts]
    BY <1>8 DEF Assignments, keys
  <2>2. ~(keyMax < MaxKey)
    <3> SUFFICES ASSUME keyMax < MaxKey PROVE BordersSorted
      BY <1>8
    <3>1. Ascending(parts)
      BY <1>8 DEF IInv, Tiled
    <3> QED
      BY <3>1 DEF BordersSorted, Ascending
  <2> QED
    BY <2>1, <2>2 DEF keys
<1> QED
  BY <1>6, <1>7, <1>8

\* The rows of a partition are dealt, and its map is empty.
LEMMA AssignIInv == IInv /\ Assign => IInv'
<1> SUFFICES ASSUME IInv, Assign PROVE IInv'
  OBVIOUS
<1>1. PICK part \in Assignments :
          parts' = [p \in DOMAIN parts |->
                      [parts[p] EXCEPT !.rows = {r \in qualifying : part[KeyOf(r)] = p}]]
  BY DEF Assign
<1>2. /\ phase = "assign" /\ phase' = "aggregate"
      /\ locals' = [p \in DOMAIN parts |-> EmptyMap]
      /\ UNCHANGED <<input, plan, threads, debug, qualifying, keyMin, keyMax, answers>>
  BY DEF Assign, callVars, scanVars
<1>3. /\ part \in [KeysIn(qualifying) -> DOMAIN parts]
      /\ keyMax < MaxKey =>
           \A k \in KeysIn(qualifying) : k \in parts[part[k]].lo .. parts[part[k]].hi - 1
  BY <1>2, KeysMapped
<1>4. /\ parts \in Seq(KeyPartition) /\ Len(parts) \in Nat /\ DOMAIN parts = 1 .. Len(parts)
      /\ \A p \in DOMAIN parts : parts[p] \in KeyPartition
  BY OneMorePartition DEF IInv, Types
<1>5. qualifying \in SUBSET Rows(input)
  BY <1>2 DEF IInv, Scanned, PassingRows
<1>6. \A p \in DOMAIN parts :
        /\ parts'[p] \in KeyPartition
        /\ parts'[p].lo = parts[p].lo /\ parts'[p].hi = parts[p].hi
        /\ parts'[p].rows = RowsFor(part, p)
  BY <1>1, <1>4, <1>5 DEF KeyPartition, RowsFor
<1>7. /\ parts' \in Seq(KeyPartition) /\ Len(parts') = Len(parts)
      /\ DOMAIN parts' = DOMAIN parts
  <2> DEFINE P(p) == [parts[p] EXCEPT !.rows = {r \in qualifying : part[KeyOf(r)] = p}]
             L == Len(parts)
  <2>1. parts' = [p \in 1 .. L |-> P(p)] /\ L \in Nat
    BY <1>1, <1>4
  <2>2. \A p \in 1 .. L : P(p) \in KeyPartition
    BY <1>1, <1>4, <1>6
  <2> HIDE DEF P, L
  <2>3. parts' \in Seq(KeyPartition) /\ Len(parts') = L /\ DOMAIN parts' = 1 .. L
    BY <2>1, <2>2
  <2> QED
    BY <1>4, <2>3 DEF L
<1>8. KeyPartition' = KeyPartition
  BY <1>2 DEF KeyPartition
<1>9. Types'
  <2>1. DOMAIN locals' = DOMAIN parts'
    BY <1>2, <1>7
  <2> QED
    BY <1>2, <1>7, <1>8, <2>1 DEF IInv, Types
<1>10. Scanned'
  <2>1. /\ qualifying' = PassingRows(input)'
        /\ \A r \in qualifying' : KeyOf(r)' \in (keyMin .. keyMax)'
    BY <1>2, ScannedKept DEF IInv
  <2> QED
    BY <1>2, <2>1 DEF IInv, Scanned
<1>11. Tiled'
  BY <1>2, <1>4, <1>6, <1>7, <1>8, TiledKept DEF IInv
<1>12. Dealt'
  <2>1. KeysIn(qualifying)' = KeysIn(qualifying) /\ \A p : RowsFor(part, p)' = RowsFor(part, p)
    BY <1>2 DEF KeysIn, KeyOf, RowsFor
  <2>2. part \in [KeysIn(qualifying)' -> DOMAIN parts']
    BY <1>3, <1>7, <2>1
  <2>3. ASSUME NEW p \in DOMAIN parts'
        PROVE  /\ parts'[p].rows \subseteq RowsFor(part, p)'
               /\ locals'[p] = AnswerOver(input', RowsFor(part, p)' \ parts'[p].rows)
               /\ (keyMax < MaxKey)' => \A r \in RowsFor(part, p)' :
                                       KeyOf(r)' \in parts'[p].lo .. parts'[p].hi - 1
    <3>1. parts'[p].rows = RowsFor(part, p)' /\ p \in DOMAIN parts
      BY <1>6, <1>7, <2>1
    <3>2. RowsFor(part, p)' \ parts'[p].rows = {}
      BY <3>1
    <3>3. locals'[p] = AnswerOver(input', {})
      BY <1>2, <3>1, OverNothing
    <3>4. ASSUME keyMax < MaxKey, NEW r \in RowsFor(part, p)
          PROVE  KeyOf(r)' \in parts'[p].lo .. parts'[p].hi - 1
      <4>1. KeyOf(r)' = KeyOf(r) /\ KeyOf(r) \in KeysIn(qualifying) /\ part[KeyOf(r)] = p
        BY <1>2 DEF KeyOf, KeysIn, RowsFor
      <4> QED
        BY <1>3, <1>6, <3>1, <3>4, <4>1
    <3> QED
      BY <1>2, <2>1, <3>1, <3>2, <3>3, <3>4
  <2>4. locals' = [p \in DOMAIN parts' |->
                     AnswerOver(input', RowsFor(part, p)' \ parts'[p].rows)]
    BY <1>2, <1>7, <2>3
  <2> QED
    BY <2>2, <2>3, <2>4 DEF Dealt
<1>13. Cutting'
  BY <1>2 DEF Cutting
<1> QED
  BY <1>9, <1>10, <1>11, <1>12, <1>13 DEF IInv

\* A worker's row is added to its map and taken off what remains.
LEMMA AggregateRowIInv ==
    ASSUME IInv, NEW p \in DOMAIN parts, AggregateRow(p)
    PROVE  IInv'
<1>1. PICK row \in parts[p].rows :
          IF debug /\ ~InRange(ValueAt(locals[p], KeyOf(row)) + ValOf(row))
          THEN phase' = "panicked" /\ UNCHANGED <<parts, locals>>
          ELSE /\ locals' = [locals EXCEPT ![p] = AddTo(@, KeyOf(row), ValOf(row))]
               /\ parts' = [parts EXCEPT ![p].rows = @ \ {row}]
               /\ UNCHANGED phase
  BY DEF AggregateRow
<1>2. /\ phase = "aggregate"
      /\ UNCHANGED <<input, plan, threads, debug, qualifying, keyMin, keyMax, answers>>
  BY DEF AggregateRow, callVars, scanVars
<1>3. CASE phase' = "panicked" /\ UNCHANGED <<parts, locals>>
  <2>1. Types'
    BY <1>2, <1>3 DEF IInv, Types, KeyPartition
  <2>2. Scanned'
    BY <1>2, <1>3, ScannedKept DEF IInv, Scanned
  <2>3. Cutting' /\ Tiled' /\ Dealt'
    BY <1>3 DEF Cutting, Tiled, Dealt
  <2> QED
    BY <2>1, <2>2, <2>3 DEF IInv
<1>4. CASE /\ locals' = [locals EXCEPT ![p] = AddTo(@, KeyOf(row), ValOf(row))]
           /\ parts' = [parts EXCEPT ![p].rows = @ \ {row}]
           /\ UNCHANGED phase
  <2>1. /\ parts \in Seq(KeyPartition) /\ Len(parts) \in Nat /\ DOMAIN parts = 1 .. Len(parts)
        /\ \A q \in DOMAIN parts : parts[q] \in KeyPartition
    BY OneMorePartition DEF IInv, Types
  <2>2. /\ DOMAIN parts' = DOMAIN parts
        /\ \A q \in DOMAIN parts :
             /\ parts'[q] \in KeyPartition
             /\ parts'[q].lo = parts[q].lo /\ parts'[q].hi = parts[q].hi
             /\ parts'[q].rows = IF q = p THEN parts[q].rows \ {row} ELSE parts[q].rows
    BY <1>4, <2>1 DEF KeyPartition
  <2>3. parts' \in Seq(KeyPartition) /\ Len(parts') = Len(parts)
    <3> DEFINE L == Len(parts)
               P(q) == parts'[q]
    <3>1. parts' = [q \in 1 .. L |-> P(q)] /\ L \in Nat
      BY <1>4, <2>1
    <3>2. \A q \in 1 .. L : P(q) \in KeyPartition
      BY <2>1, <2>2
    <3> HIDE DEF P, L
    <3>3. parts' \in Seq(KeyPartition) /\ Len(parts') = L
      BY <3>1, <3>2
    <3> QED
      BY <3>3 DEF L
  <2>4. PICK part \in [KeysIn(qualifying) -> DOMAIN parts] :
          /\ locals = [q \in DOMAIN parts |->
                         AnswerOver(input, RowsFor(part, q) \ parts[q].rows)]
          /\ \A q \in DOMAIN parts :
               /\ parts[q].rows \subseteq RowsFor(part, q)
               /\ keyMax < MaxKey => \A r \in RowsFor(part, q) :
                                       KeyOf(r) \in parts[q].lo .. parts[q].hi - 1
    BY <1>2 DEF IInv, Dealt
  <2>5. DOMAIN locals' = DOMAIN parts'
    BY <1>4, <2>2, <2>4
  <2>6. Types'
    <3>1. KeyPartition' = KeyPartition
      BY <1>2 DEF KeyPartition
    <3> QED
      BY <1>2, <1>4, <2>3, <2>5, <3>1 DEF IInv, Types
  <2>7. Scanned'
    <3>1. /\ qualifying' = PassingRows(input)'
          /\ \A r \in qualifying' : KeyOf(r)' \in (keyMin .. keyMax)'
      BY <1>2, <1>4, ScannedKept DEF IInv
    <3> QED
      BY <1>2, <1>4, <3>1 DEF IInv, Scanned
  <2>8. Tiled'
    BY <1>2, <1>4, <2>1, <2>2, <2>3, TiledKept DEF IInv
  <2>9. Dealt'
    <3>1. KeysIn(qualifying)' = KeysIn(qualifying) /\ \A q : RowsFor(part, q)' = RowsFor(part, q)
      BY <1>2 DEF KeysIn, KeyOf, RowsFor
    <3>2. \A r : KeyOf(r)' = KeyOf(r)
      BY <1>2 DEF KeyOf
    <3>3. part \in [KeysIn(qualifying)' -> DOMAIN parts']
      BY <2>2, <3>1
    <3>4. ASSUME NEW q \in DOMAIN parts
          PROVE  /\ parts'[q].rows \subseteq RowsFor(part, q)
                 /\ locals'[q] = AnswerOver(input, RowsFor(part, q) \ parts'[q].rows)
      <4>1. CASE q # p
        BY <1>4, <2>2, <2>4, <4>1
      <4>2. CASE q = p
        <5> DEFINE done == RowsFor(part, p) \ parts[p].rows
        <5>1. row \in RowsFor(part, p) /\ row \notin done
          BY <2>4
        <5>2. RowsFor(part, p) \ (parts[p].rows \ {row}) = done \cup {row}
          BY <5>1
        <5>3. RowsFor(part, p) \in SUBSET Rows(input)
          BY <1>2 DEF IInv, Scanned, PassingRows, RowsFor
        <5>4. IsTable(input) /\ done \in SUBSET Rows(input) /\ row \in Rows(input) \ done
          BY <5>1, <5>3, InputFacts DEF IInv, Types
        <5>5. locals[p] = AnswerOver(input, done)
          BY <2>4
        <5>6. locals'[p] = AddTo(locals[p], KeyOf(row), ValOf(row))
          BY <1>4, <2>4
        <5> HIDE DEF done
        <5>7. AnswerOver(input, done \cup {row}) =
                  AddTo(AnswerOver(input, done), KeyOf(row), ValOf(row))
          BY <5>4, OneRowMore DEF KeyOf, ValOf
        <5>8. parts'[p].rows = parts[p].rows \ {row}
          BY <2>2
        <5> QED
          BY <2>4, <4>2, <5>2, <5>5, <5>6, <5>7, <5>8
      <4> QED
        BY <4>1, <4>2
    <3>5. ASSUME keyMax < MaxKey, NEW q \in DOMAIN parts, NEW r \in RowsFor(part, q)
          PROVE  KeyOf(r) \in parts'[q].lo .. parts'[q].hi - 1
      BY <2>2, <2>4, <3>5
    <3>6. locals' = [q \in DOMAIN parts' |->
                       AnswerOver(input', RowsFor(part, q)' \ parts'[q].rows)]
      <4>1. locals' = [q \in DOMAIN parts |-> locals'[q]]
        BY <1>4, <2>4
      <4> QED
        BY <1>2, <2>2, <3>1, <3>4, <4>1
    <3>7. ASSUME NEW q \in DOMAIN parts'
          PROVE  /\ parts'[q].rows \subseteq RowsFor(part, q)'
                 /\ (keyMax < MaxKey)' => \A r \in RowsFor(part, q)' :
                                         KeyOf(r)' \in parts'[q].lo .. parts'[q].hi - 1
      <4>1. q \in DOMAIN parts
        BY <2>2
      <4>2. parts'[q].rows \subseteq RowsFor(part, q)'
        BY <3>1, <3>4, <4>1
      <4>3. ASSUME keyMax < MaxKey, NEW r \in RowsFor(part, q)
            PROVE  KeyOf(r)' \in parts'[q].lo .. parts'[q].hi - 1
        <5>1. KeyOf(r) \in parts'[q].lo .. parts'[q].hi - 1
          BY <3>5, <4>1, <4>3
        <5> QED
          BY <3>2, <5>1, Zenon
      <4> QED
        BY <1>2, <3>1, <4>2, <4>3
    <3> QED
      BY <3>3, <3>6, <3>7 DEF Dealt
  <2>10. Cutting'
    BY <1>2, <1>4 DEF Cutting
  <2> QED
    BY <2>6, <2>7, <2>8, <2>9, <2>10 DEF IInv
<1> QED
  BY <1>1, <1>3, <1>4

\* The maps are chained: there is nothing left to say of the partitions.
LEMMA CombineIInv == IInv /\ Combine => IInv'
<1> SUFFICES ASSUME IInv, Combine PROVE IInv'
  OBVIOUS
<1>1. /\ phase = "aggregate" /\ phase' = "returned"
      /\ UNCHANGED <<input, plan, threads, debug, qualifying, keyMin, keyMax, parts, locals>>
  BY DEF Combine, callVars, scanVars
<1>2. Types'
  BY <1>1 DEF IInv, Types, KeyPartition
<1>3. Scanned'
  BY <1>1, ScannedKept DEF IInv, Scanned
<1>4. Cutting' /\ Tiled' /\ Dealt'
  BY <1>1 DEF Cutting, Tiled, Dealt
<1> QED
  BY <1>2, <1>3, <1>4 DEF IInv

\* Nothing happens.
LEMMA StutterIInv == IInv /\ UNCHANGED vars => IInv'
<1> SUFFICES ASSUME IInv, UNCHANGED vars PROVE IInv'
  OBVIOUS
<1> USE DEF vars, callVars, scanVars, loopVars
<1>1. Types'
  BY DEF IInv, Types, KeyPartition
<1>2. Scanned'
  BY DEF IInv, Scanned, KeyOf
<1>3. /\ NPartitions' = NPartitions /\ NBuckets' = NBuckets /\ NDistinct' = NDistinct
  BY DEF NPartitions, NBuckets, AtMost, NDistinct, u32
<1>4. Cutting'
  <2>1. (Stub(bucket - 1, NBuckets).lo)' = Stub(bucket - 1, NBuckets).lo
    BY <1>3 DEF Stub, KeysPerStub
  <2> QED
    BY <1>3, <2>1 DEF IInv, Cutting
<1>5. Tiled'
  BY TiledKept DEF IInv, Types
<1>6. Dealt'
  <2>1. KeysIn(qualifying)' = KeysIn(qualifying) /\ \A part, p : RowsFor(part, p)' = RowsFor(part, p)
    BY DEF KeysIn, KeyOf, RowsFor
  <2>2. \A r : KeyOf(r)' = KeyOf(r)
    BY DEF KeyOf
  <2>3. SUFFICES ASSUME phase = "aggregate" PROVE Dealt'
    BY DEF Dealt
  <2>4. PICK part \in [KeysIn(qualifying) -> DOMAIN parts] :
          /\ locals = [p \in DOMAIN parts |->
                         AnswerOver(input, RowsFor(part, p) \ parts[p].rows)]
          /\ \A p \in DOMAIN parts :
               /\ parts[p].rows \subseteq RowsFor(part, p)
               /\ keyMax < MaxKey => \A r \in RowsFor(part, p) :
                                       KeyOf(r) \in parts[p].lo .. parts[p].hi - 1
    BY <2>3 DEF IInv, Dealt
  <2>5. locals' = [p \in DOMAIN parts' |->
                     AnswerOver(input', RowsFor(part, p)' \ parts'[p].rows)]
    BY <2>1, <2>4
  <2>6. ASSUME NEW p \in DOMAIN parts'
        PROVE  /\ parts'[p].rows \subseteq RowsFor(part, p)'
               /\ (keyMax < MaxKey)' => \A r \in RowsFor(part, p)' :
                                       KeyOf(r)' \in parts'[p].lo .. parts'[p].hi - 1
    BY <2>1, <2>2, <2>4
  <2>7. part \in [KeysIn(qualifying)' -> DOMAIN parts']
    BY <2>1, <2>4
  <2> QED
    BY <2>5, <2>6, <2>7 DEF Dealt
<1> QED
  BY <1>1, <1>2, <1>4, <1>5, <1>6 DEF IInv

\* Every step of the engine preserves the invariant.
LEMMA NextIInv == IInv /\ [Next]_vars => IInv'
<1> SUFFICES ASSUME IInv, [Next]_vars PROVE IInv'
  OBVIOUS
<1>1. CASE Discover
  BY <1>1, DiscoverIInv
<1>2. CASE NothingQualifies
  BY <1>2, NothingQualifiesIInv
<1>3. CASE Plan
  BY <1>3, PlanIInv
<1>4. CASE CutBucket
  BY <1>4, CutBucketIInv
<1>5. CASE CutLast
  BY <1>5, CutLastIInv
<1>6. CASE Assign
  BY <1>6, AssignIInv
<1>7. CASE \E p \in DOMAIN parts : AggregateRow(p)
  BY <1>7, AggregateRowIInv
<1>8. CASE Combine
  BY <1>8, CombineIInv
<1>9. CASE UNCHANGED vars
  BY <1>9, StutterIInv
<1>10. CASE PanicInScan
  BY <1>10, PanicInScanIInv
<1> QED
  BY <1>1, <1>2, <1>3, <1>4, <1>5, <1>6, <1>7, <1>8, <1>9, <1>10 DEF Next

(***************************************************************************)
(* The inductive invariant holds for every table, number of threads and    *)
(* width of the keys, with and without overflow checks.                    *)
(***************************************************************************)
THEOREM Invariant == Spec => []IInv
<1>1. Init => IInv
  BY InitIInv
<1>2. IInv /\ [Next]_vars => IInv'
  BY NextIInv
<1> QED
  BY <1>1, <1>2, PTL DEF Spec

\* The variables of the partitioned and adaptive engines keep their types:
\* the borders are u32 keys and there is one map per partition.
THEOREM TypeCorrect == Spec => []TypeOK
<1>1. IInv => TypeOK
  <2> SUFFICES ASSUME IInv PROVE TypeOK
    OBVIOUS
  <2>1. parts \in Seq(KeyPartition)
    BY DEF IInv, Types
  <2>2. \A p \in DOMAIN parts : parts[p] \in KeyPartition
    <3> HIDE DEF KeyPartition
    <3> QED
      BY <2>1
  <2> QED
    BY <2>2 DEF IInv, Types, TypeOK, KeyPartition
<1> QED
  BY <1>1, Invariant, PTL

\* The partitions, of execute_partitioned and of the adaptive plan, tile the
\* key range without gap or overlap; at worst the last border has wrapped.
THEOREM Tiling == Spec => []PartitionsTile
<1>1. IInv => PartitionsTile
  BY DEF IInv, Tiled, Tiles, PartitionsTile
<1> QED
  BY <1>1, Invariant, PTL

\* Every row is dealt to the partition whose [lo, hi) its key lies in, by the
\* index computation and by the binary search alike.
THEOREM RowsInTheirRange == Spec => []RowsInRange
<1>1. IInv => RowsInRange
  BY DEF IInv, Dealt, RowsInRange
<1> QED
  BY <1>1, Invariant, PTL

(***************************************************************************)
(* No key is in two partitions, even where the borders have wrapped and    *)
(* the binary search runs on an unsorted list: the final chaining replaces *)
(* no entry.                                                               *)
(***************************************************************************)
THEOREM KeysDisjoint == Spec => []DisjointKeys
<1>1. IInv => DisjointKeys
  <2> SUFFICES ASSUME IInv, phase = "aggregate",
                      NEW p \in DOMAIN parts, NEW q \in DOMAIN parts, p # q
               PROVE  KeysOfPart(p) \cap KeysOfPart(q) = {}
    BY DEF DisjointKeys
  <2>1. PICK part \in [KeysIn(qualifying) -> DOMAIN parts] :
          \A o \in DOMAIN parts :
            /\ parts[o].rows \subseteq RowsFor(part, o)
            /\ locals[o] = AnswerOver(input, RowsFor(part, o) \ parts[o].rows)
    BY DEF IInv, Dealt
  <2>2. ASSUME NEW o \in DOMAIN parts, NEW k \in KeysOfPart(o)
        PROVE  part[k] = o
    <3>1. DOMAIN locals[o] = KeysOver(input, RowsFor(part, o) \ parts[o].rows)
      BY <2>1 DEF AnswerOver
    <3>2. PICK r \in RowsFor(part, o) : k = KeyOf(r)
      BY <2>1, <2>2, <3>1 DEF KeysOfPart, KeysIn, KeysOver, KeyOf
    <3> QED
      BY <3>2 DEF RowsFor
  <2> QED
    BY <2>2
<1> QED
  BY <1>1, Invariant, PTL

-----------------------------------------------------------------------------
(***************************************************************************)
(* The timers of the profiled copy.                                        *)
(***************************************************************************)
Profiles == [predicate : Nat, partition : Nat, aggregate : Nat, total : Nat]

\* A stage ends: its time, which is not 0, runs up to the new lap's start, and
\* the other stages keep theirs.
LEMMA LapTimes ==
    ASSUME plan = "profiled", now \in Nat, lap \in Nat, lap <= now, profile \in Profiles,
           NEW spent \in Nat, spent = (now + 1) - lap
    PROVE  /\ spent > 0 /\ lap + spent = now + 1
           /\ Lap("predicate") =>
                /\ now' = now + 1 /\ lap' = now + 1
                /\ profile' = [profile EXCEPT !.predicate = spent, !.total = now + 1]
           /\ Lap("partition") =>
                /\ now' = now + 1 /\ lap' = now + 1
                /\ profile' = [profile EXCEPT !.partition = spent, !.total = now + 1]
           /\ Lap("aggregate") =>
                /\ now' = now + 1 /\ lap' = now + 1
                /\ profile' = [profile EXCEPT !.aggregate = spent, !.total = now + 1]
<1>1. ASSUME NEW stage, Lap(stage)
      PROVE  /\ now' = now + 1 /\ lap' = now + 1
             /\ profile' = [profile EXCEPT ![stage] = spent, !.total = now + 1]
  BY <1>1, Zenon DEF Lap
<1>2. Lap("predicate") =>
         profile' = [profile EXCEPT !.predicate = spent, !.total = now + 1]
  BY <1>1, Zenon
<1>3. Lap("partition") =>
         profile' = [profile EXCEPT !.partition = spent, !.total = now + 1]
  BY <1>1, Zenon
<1>4. Lap("aggregate") =>
         profile' = [profile EXCEPT !.aggregate = spent, !.total = now + 1]
  BY <1>1, Zenon
<1>5. spent > 0 /\ lap + spent = now + 1
  OBVIOUS
<1> QED
  BY <1>1, <1>2, <1>3, <1>4, <1>5, Zenon

\* The profiled copy's timing facts are kept by every step.
LEMMA NextTiming == IInv /\ Timing /\ [Next]_vars => Timing'
<1> SUFFICES ASSUME IInv, Timing, [Next]_vars, plan' = "profiled" PROVE Timing'
  BY DEF Timing
<1>1. plan = "profiled"
  BY DEF Next, PanicInScan, Discover, NothingQualifies, Plan, CutBucket, CutLast, Assign,
         AggregateRow, Combine, callVars, vars
<1>2. /\ now \in Nat /\ lap \in Nat /\ lap <= now
      /\ profile \in [predicate : Nat, partition : Nat, aggregate : Nat, total : Nat]
      /\ phase # "cut"
  BY <1>1 DEF Timing
<1> DEFINE spent == (now + 1) - lap
<1>N. now \in Nat /\ lap \in Nat /\ lap <= now
  BY <1>2
<1>S. spent \in Nat /\ spent > 0 /\ lap + spent = now + 1 /\ now + 1 \in Nat
  BY <1>N
<1>P. profile \in Profiles /\ spent = (now + 1) - lap
  BY <1>2 DEF Profiles
<1> HIDE DEF spent
<1>L. /\ Lap("predicate") =>
           /\ now' = now + 1 /\ lap' = now + 1
           /\ profile' = [profile EXCEPT !.predicate = spent, !.total = now + 1]
      /\ Lap("partition") =>
           /\ now' = now + 1 /\ lap' = now + 1
           /\ profile' = [profile EXCEPT !.partition = spent, !.total = now + 1]
      /\ Lap("aggregate") =>
           /\ now' = now + 1 /\ lap' = now + 1
           /\ profile' = [profile EXCEPT !.aggregate = spent, !.total = now + 1]
  BY <1>1, <1>N, <1>P, <1>S, LapTimes, Zenon
<1>3. CASE Discover
  <2>1. /\ phase = "discover" /\ phase' = "plan"
        /\ lap = 0 /\ profile = NewProfile
        /\ now' = now + 1 /\ lap' = now + 1
        /\ profile' = [profile EXCEPT !.predicate = spent, !.total = now + 1]
    BY <1>1, <1>2, <1>3, <1>L DEF Discover, Timing
  <2>2. /\ profile' \in [predicate : Nat, partition : Nat, aggregate : Nat, total : Nat]
        /\ profile'.predicate = spent /\ profile'.partition = 0 /\ profile'.aggregate = 0
    BY <1>2, <1>S, <2>1 DEF NewProfile
  <2> QED
    BY <1>S, <2>1, <2>2 DEF Timing, StagesWithinTotal
<1>4. CASE NothingQualifies
  <2>1. /\ phase = "plan" /\ phase' = "returned" /\ qualifying' = {}
        /\ profile.predicate > 0 /\ profile.partition = 0 /\ profile.aggregate = 0
        /\ profile.predicate <= lap
        /\ now' = now + 1 /\ lap' = lap
        /\ profile' = [profile EXCEPT !.total = now + 1]
    BY <1>1, <1>2, <1>4 DEF NothingQualifies, Timing, Total, scanVars
  <2> QED
    BY <1>2, <2>1 DEF Timing, StagesWithinTotal
<1>5. CASE Plan
  <2>1. /\ phase = "plan" /\ phase' \in {"assign", "panicked"}
        /\ profile.predicate > 0 /\ profile.partition = 0 /\ profile.aggregate = 0
        /\ profile.predicate <= lap
        /\ now' = now + 1 /\ lap' = lap /\ profile' = profile
    BY <1>1, <1>2, <1>5 DEF Plan, Timing, Tick
  <2> QED
    BY <1>2, <2>1 DEF Timing, StagesWithinTotal
<1>6. CASE CutBucket \/ CutLast
  BY <1>2, <1>6 DEF CutBucket, CutLast
<1>7. CASE Assign
  <2>1. /\ phase = "assign" /\ phase' = "aggregate"
        /\ profile.predicate > 0 /\ profile.partition = 0 /\ profile.aggregate = 0
        /\ profile.predicate <= lap
        /\ now' = now + 1 /\ lap' = now + 1
        /\ profile' = [profile EXCEPT !.partition = spent, !.total = now + 1]
    BY <1>1, <1>2, <1>7, <1>L DEF Assign, Timing
  <2>2. /\ profile' \in [predicate : Nat, partition : Nat, aggregate : Nat, total : Nat]
        /\ profile'.predicate = profile.predicate /\ profile'.partition = spent
        /\ profile'.aggregate = 0
    BY <1>2, <1>S, <2>1
  <2> QED
    BY <1>2, <1>S, <2>1, <2>2 DEF Timing, StagesWithinTotal
<1>8. CASE \E p \in DOMAIN parts : AggregateRow(p)
  <2>1. /\ phase = "aggregate" /\ phase' \in {"aggregate", "panicked"}
        /\ profile.predicate > 0 /\ profile.partition > 0 /\ profile.aggregate = 0
        /\ profile.predicate + profile.partition <= lap
        /\ now' = now + 1 /\ lap' = lap /\ profile' = profile
    BY <1>1, <1>2, <1>8 DEF AggregateRow, Timing, Tick
  <2> QED
    BY <1>2, <2>1 DEF Timing, StagesWithinTotal
<1>9. CASE Combine
  <2>1. /\ phase = "aggregate" /\ phase' = "returned" /\ qualifying' = qualifying
        /\ profile.predicate > 0 /\ profile.partition > 0 /\ profile.aggregate = 0
        /\ profile.predicate + profile.partition <= lap
        /\ now' = now + 1 /\ lap' = now + 1
        /\ profile' = [profile EXCEPT !.aggregate = spent, !.total = now + 1]
    BY <1>1, <1>2, <1>9, <1>L DEF Combine, Timing, scanVars
  <2>2. qualifying # {}
    BY <2>1 DEF IInv, Scanned
  <2>3. /\ profile' \in [predicate : Nat, partition : Nat, aggregate : Nat, total : Nat]
        /\ profile'.predicate = profile.predicate
        /\ profile'.partition = profile.partition
        /\ profile'.aggregate = spent /\ profile'.total = now + 1
    BY <1>2, <1>S, <2>1
  <2> QED
    BY <1>2, <1>S, <2>1, <2>2, <2>3 DEF Timing, StagesWithinTotal
<1>10. CASE UNCHANGED vars
  BY <1>1, <1>10 DEF Timing, StagesWithinTotal, NewProfile, vars, callVars, scanVars, timeVars
<1>11. CASE PanicInScan
  <2>1. phase = "discover" /\ phase' = "panicked" /\ lap = 0 /\ profile = NewProfile
        /\ now' = now + 1 /\ lap' = lap /\ profile' = profile
    BY <1>1, <1>11 DEF PanicInScan, Timing, Tick
  <2> QED
    BY <1>2, <2>1 DEF Timing, StagesWithinTotal
<1> QED
  BY <1>3, <1>4, <1>5, <1>6, <1>7, <1>8, <1>9, <1>10, <1>11 DEF Next

\* The stage times of execute_partitioned_profiled add up to no more than the
\* total, and none is forgotten unless nothing qualified.
THEOREM StagesTimed == Spec => []StagesWithinTotal
<1>1. Init => Timing
  BY DEF Init, Timing, NewProfile, StagesWithinTotal
<1>2. Timing => StagesWithinTotal
  BY DEF Timing, StagesWithinTotal
<1> QED
  BY <1>1, <1>2, NextTiming, Invariant, PTL DEF Spec

-----------------------------------------------------------------------------
(***************************************************************************)
(* The chaining of the maps.                                               *)
(***************************************************************************)
\* Chaining keeps a map a map.
LEMMA ExtendedInHashMaps ==
    ASSUME NEW a \in HashMaps, NEW b \in HashMaps
    PROVE  Extend(a, b) \in HashMaps
<1>1. PICK ka \in SUBSET Nat : a \in [ka -> -IntBound .. IntBound - 1]
  BY DEF HashMaps
<1>2. PICK kb \in SUBSET Nat : b \in [kb -> -IntBound .. IntBound - 1]
  BY DEF HashMaps
<1>3. Extend(a, b) \in [ka \cup kb -> -IntBound .. IntBound - 1]
  BY <1>1, <1>2 DEF Extend
<1> QED
  BY <1>3 DEF HashMaps

\* The chaining is a loop: one map after the other.
LEMMA ExtendLoop ==
    ASSUME NEW n \in Nat, NEW maps, maps \in [1 .. n -> HashMaps]
    PROVE  \E F :
              /\ F[0] = EmptyMap /\ ChainMaps(maps) = F[n]
              /\ \A i \in 0 .. n - 1 : F[i + 1] = Extend(F[i], maps[i + 1])
<1> DEFINE step == [xr \in (1 .. n) \X HashMaps |-> Extend(xr[2], maps[xr[1]])]
           Eq(it) == it = [s \in SUBSET (1 .. n) |->
                              IF s = {} THEN EmptyMap
                              ELSE Extend(it[s \ {Max(s)}], maps[Max(s)])]
           iter == CHOOSE it : Eq(it)
           F == [i \in 0 .. n |-> iter[1 .. i]]
<1>1. ChainMaps(maps) = iter[1 .. n]
  BY DEF ChainMaps, FoldLeft, MapThenFoldSet
<1>2. EmptyMap \in HashMaps /\ \A a, b \in HashMaps : Extend(a, b) \in HashMaps
  BY ExtendedInHashMaps, EmptyInHashMaps
<1>3. StepsIn(step, 1 .. n, HashMaps)
  BY <1>2 DEF StepsIn
<1>4. PICK it0 \in [SUBSET (1 .. n) -> HashMaps] :
          FoldsOver(it0, 1 .. n, EmptyMap, Turns(n), step)
  <2> HIDE DEF step
  <2> QED
    BY <1>2, <1>3, LoopExists
<1>5. Eq(it0)
  <2>1. ASSUME NEW s \in SUBSET (1 .. n)
        PROVE  it0[s] = IF s = {} THEN EmptyMap
                        ELSE Extend(it0[s \ {Max(s)}], maps[Max(s)])
    <3>1. CASE s = {}
      BY <1>4, <3>1 DEF FoldsOver
    <3>2. CASE s # {}
      <4>1. Max(s) \in 1 .. n /\ s \ {Max(s)} \in SUBSET (1 .. n) /\ Turns(n)[s] = Max(s)
        BY <3>2, MaxIn DEF Turns
      <4>2. it0[s \ {Max(s)}] \in HashMaps
        BY <1>4, <4>1
      <4>3. it0[s] = step[<<Max(s), it0[s \ {Max(s)}]>>]
        BY <1>4, <3>2, <4>1 DEF FoldsOver
      <4> QED
        BY <3>2, <4>1, <4>2, <4>3
    <3> QED
      BY <3>1, <3>2
  <2> QED
    BY <2>1
<1>6. Eq(iter)
  <2> HIDE DEF Eq
  <2> QED
    BY <1>5
<1>7. \A s \in SUBSET (1 .. n) :
          iter[s] = IF s = {} THEN EmptyMap
                    ELSE Extend(iter[s \ {Max(s)}], maps[Max(s)])
  <2> HIDE DEF iter
  <2> QED
    BY <1>6
<1> HIDE DEF iter
<1>8. iter[1 .. 0] = EmptyMap
  <2>1. 1 .. 0 = {} /\ {} \in SUBSET (1 .. n)
    OBVIOUS
  <2> QED
    BY <1>7, <2>1
<1>9. ASSUME NEW i \in 0 .. n - 1
      PROVE  iter[1 .. (i + 1)] = Extend(iter[1 .. i], maps[i + 1])
  BY <1>7, LastTurn
<1>10. /\ F[0] = EmptyMap /\ F[n] = ChainMaps(maps)
       /\ \A i \in 0 .. n - 1 : F[i + 1] = Extend(F[i], maps[i + 1])
  BY <1>1, <1>8, <1>9
<1> QED
  BY <1>10

\* The answers over rows of different keys are chained to that over all of
\* them: no entry is replaced.
LEMMA TwoMapsChain ==
    ASSUME NEW t, NEW R, NEW S, KeysOver(t, R) \cap KeysOver(t, S) = {}
    PROVE  Extend(AnswerOver(t, R), AnswerOver(t, S)) = AnswerOver(t, R \cup S)
<1>1. /\ KeysOver(t, R \cup S) = KeysOver(t, R) \cup KeysOver(t, S)
      /\ DOMAIN AnswerOver(t, R) = KeysOver(t, R) /\ DOMAIN AnswerOver(t, S) = KeysOver(t, S)
  BY DEF KeysOver, AnswerOver
<1>2. ASSUME NEW k \in KeysOver(t, R)
      PROVE  SumOver(t, R \cup S, k) = SumOver(t, R, k) /\ k \notin KeysOver(t, S)
  <2>1. {r \in R \cup S : RowAt(t, r).key = k} = {r \in R : RowAt(t, r).key = k}
    BY DEF KeysOver
  <2> QED
    BY <2>1 DEF SumOver
<1>3. ASSUME NEW k \in KeysOver(t, S)
      PROVE  SumOver(t, R \cup S, k) = SumOver(t, S, k)
  <2>1. {r \in R \cup S : RowAt(t, r).key = k} = {r \in S : RowAt(t, r).key = k}
    BY DEF KeysOver
  <2> QED
    BY <2>1 DEF SumOver
<1> QED
  BY <1>1, <1>2, <1>3 DEF AnswerOver, Extend

MapsOver(t, n, maps, rs) ==
    /\ maps \in [1 .. n -> HashMaps]
    /\ rs \in [1 .. n -> SUBSET Rows(t)]
    /\ \A i \in 1 .. n : maps[i] = AnswerOver(t, rs[i])

NoKeyShared(t, n, rs) ==
    \A i, j \in 1 .. n : i # j => KeysOver(t, rs[i]) \cap KeysOver(t, rs[j]) = {}

(***************************************************************************)
(* The maps over rows that share no key are chained to the answer over all *)
(* the rows.                                                               *)
(***************************************************************************)
THEOREM MapsChain ==
    ASSUME NEW t, IsTable(t), NEW n \in Nat, NEW maps, NEW rs,
           MapsOver(t, n, maps, rs), NoKeyShared(t, n, rs)
    PROVE  ChainMaps(maps) = AnswerOver(t, UNION {rs[i] : i \in 1 .. n})
<1> USE DEF MapsOver, NoKeyShared
<1> DEFINE D(i) == UNION {rs[j] : j \in 1 .. i}
<1>1. PICK F : /\ F[0] = EmptyMap /\ ChainMaps(maps) = F[n]
               /\ \A i \in 0 .. n - 1 : F[i + 1] = Extend(F[i], maps[i + 1])
  BY ExtendLoop
<1> DEFINE N == {i \in 0 .. n : F[i] = AnswerOver(t, D(i))}
<1>2. 0 \in N
  <2>1. D(0) = {}
    OBVIOUS
  <2> HIDE DEF D
  <2>2. F[0] = AnswerOver(t, D(0))
    BY <1>1, <2>1, OverNothing, Zenon
  <2> QED
    BY <2>2
<1>3. ASSUME NEW i \in 0 .. n - 1, i \in N PROVE i + 1 \in N
  <2>1. i \in Nat /\ i + 1 \in 1 .. n /\ i + 1 \in 0 .. n
    OBVIOUS
  <2>2. KeysOver(t, D(i)) \cap KeysOver(t, rs[i + 1]) = {}
    <3> SUFFICES ASSUME NEW k \in KeysOver(t, D(i)), k \in KeysOver(t, rs[i + 1])
                 PROVE  FALSE
      OBVIOUS
    <3>1. PICK j \in 1 .. i : k \in KeysOver(t, rs[j])
      BY DEF KeysOver
    <3>2. j \in 1 .. n /\ j # i + 1
      BY <2>1
    <3> QED
      BY <2>1, <3>1, <3>2
  <2>3. D(i + 1) = D(i) \cup rs[i + 1]
    <3>1. 1 .. (i + 1) = (1 .. i) \cup {i + 1}
      BY <2>1
    <3> QED
      BY <3>1
  <2>4. F[i] = AnswerOver(t, D(i))
    BY <1>3
  <2> HIDE DEF D
  <2>5. F[i + 1] = Extend(AnswerOver(t, D(i)), AnswerOver(t, rs[i + 1]))
    BY <1>1, <2>1, <2>4
  <2>6. F[i + 1] = AnswerOver(t, D(i + 1))
    BY <2>2, <2>3, <2>5, TwoMapsChain
  <2> QED
    BY <2>1, <2>6
<1>4. 0 .. n \subseteq N
  <2> HIDE DEF N
  <2> QED
    BY <1>2, <1>3, UpTo
<1>5. F[n] = AnswerOver(t, D(n))
  <2> HIDE DEF D
  <2> QED
    BY <1>4
<1> QED
  BY <1>1, <1>5

\* When the workers are done, the chained map is the query's answer.
LEMMA ChainedIsAnswer ==
    ASSUME IInv, phase = "aggregate", \A p \in DOMAIN parts : parts[p].rows = {}
    PROVE  ChainMaps(locals) = Answer(input)
<1>1. PICK part \in [KeysIn(qualifying) -> DOMAIN parts] :
        locals = [p \in DOMAIN parts |->
                    AnswerOver(input, RowsFor(part, p) \ parts[p].rows)]
  BY DEF IInv, Dealt
<1> DEFINE n == Len(parts)
           rs == [p \in 1 .. n |-> RowsFor(part, p)]
<1>2. n \in Nat /\ DOMAIN parts = 1 .. n
  BY OneMorePartition DEF IInv, Types
<1>3. IsTable(input) /\ qualifying = PassingRows(input)
  BY InputFacts DEF IInv, Types, Scanned
<1>4. rs \in [1 .. n -> SUBSET Rows(input)]
  BY <1>3 DEF RowsFor, PassingRows
<1>5. \A p \in 1 .. n : locals[p] = AnswerOver(input, rs[p])
  BY <1>1, <1>2
<1>6. ASSUME NEW p \in 1 .. n, NEW q \in 1 .. n, p # q
      PROVE  KeysOver(input, rs[p]) \cap KeysOver(input, rs[q]) = {}
  BY <1>6 DEF KeysOver, RowsFor, KeyOf
<1>7. UNION {rs[p] : p \in 1 .. n} = PassingRows(input)
  <2>1. \A r \in qualifying : part[KeyOf(r)] \in 1 .. n /\ r \in rs[part[KeyOf(r)]]
    BY <1>2 DEF KeysIn, RowsFor
  <2>2. \A p \in 1 .. n : rs[p] \in SUBSET qualifying
    BY DEF RowsFor
  <2> HIDE DEF rs
  <2> QED
    BY <1>3, <2>1, <2>2
<1>8. locals \in [1 .. n -> HashMaps]
  <2>1. \A p \in 1 .. n : locals[p] \in HashMaps
    BY <1>3, <1>4, <1>5, OverInHashMaps
  <2>2. locals = [p \in 1 .. n |-> locals[p]]
    BY <1>1, <1>2
  <2> QED
    BY <2>1, <2>2
<1> HIDE DEF n, rs
<1>9. ChainMaps(locals) = AnswerOver(input, UNION {rs[p] : p \in 1 .. n})
  <2>1. n \in Nat /\ IsTable(input)
    BY <1>2, <1>3
  <2>2. MapsOver(input, n, locals, rs)
    BY <1>4, <1>5, <1>8 DEF MapsOver
  <2>3. NoKeyShared(input, n, rs)
    BY <1>6 DEF NoKeyShared
  <2> QED
    BY <2>1, <2>2, <2>3, MapsChain
<1> QED
  BY <1>7, <1>9, AnswerIsOver

\* The specification's query is the one the engine's module defines.
LEMMA SameAnswer == \A t : Q!Answer(t) = Answer(t)
  BY DEF Q!Answer, Q!Groups, Q!ExactSum, Q!PassingRows, Q!Rows, Q!RowAt, Q!Passes, Q!Wrap,
         Q!SumFunctionOnSet, Q!FoldFunctionOnSet, Q!MapThenFoldSet,
         Answer, Groups, ExactSum, PassingRows, Rows, RowAt, Passes, Wrap,
         SumFunctionOnSet, FoldFunctionOnSet, MapThenFoldSet

(***************************************************************************)
(* The partitioned and the adaptive engines return nothing but the query's *)
(* answer, and once.                                                       *)
(***************************************************************************)
THEOREM Refinement == Spec => ImplementsQuery
<1>1. Init => Q!Init
  BY DEF Init, Q!Init
<1>2. IInv /\ [Next]_vars => [Q!Return]_(Q!vars)
  <2> SUFFICES ASSUME IInv, [Next]_vars, ~UNCHANGED Q!vars
               PROVE  Q!Return
    OBVIOUS
  <2>1. NothingQualifies \/ Combine
    BY DEF Next, PanicInScan, Discover, Plan, CutBucket, CutLast, Assign, AggregateRow,
           callVars, vars, Q!vars
  <2>2. answers = {} /\ UNCHANGED input
    BY <2>1 DEF NothingQualifies, Combine, callVars, IInv, Scanned
  <2>3. CASE NothingQualifies
    <3>1. answers' = {EmptyMap} /\ PassingRows(input) = {}
      BY <2>3 DEF NothingQualifies, IInv, Scanned
    <3>2. Answer(input) = EmptyMap
      BY <3>1, AnswerIsOver, OverNothing
    <3> QED
      BY <2>2, <3>1, <3>2, SameAnswer DEF Q!Return
  <2>4. CASE Combine
    <3>1. /\ phase = "aggregate" /\ \A p \in DOMAIN parts : parts[p].rows = {}
          /\ answers' = {ChainMaps(locals)}
      BY <2>4 DEF Combine
    <3>2. answers' = {Answer(input)}
      BY <3>1, ChainedIsAnswer
    <3> QED
      BY <2>2, <3>2, SameAnswer DEF Q!Return
  <2> QED
    BY <2>1, <2>3, <2>4
<1> QED
  BY <1>1, <1>2, Invariant, PTL DEF Spec, Q!Spec, ImplementsQuery
=============================================================================
