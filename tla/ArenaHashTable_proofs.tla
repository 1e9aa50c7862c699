------------------------ MODULE ArenaHashTable_proofs ------------------------
(***************************************************************************)
(* Theorems about the arena hash table, for every hash function, set of    *)
(* keys, capacity and table of rows.                                       *)
(***************************************************************************)
EXTENDS ArenaHashTable, GroupBy_proofs

(***************************************************************************)
(* What a table that has been given the rows R holds: their keys, each in  *)
(* one slot, with the sum of its values.                                   *)
(***************************************************************************)
OneSlotPerKey(slots, tb) ==
    \A i, j \in slots :
        tb.occupied[i] /\ tb.occupied[j] /\ tb.keys[i] = tb.keys[j] => i = j

Holds(t, slots, tb, R) ==
    /\ OneSlotPerKey(slots, tb)
    /\ \A s \in slots : tb.occupied[s] =>
         tb.keys[s] \in KeysOver(t, R) /\ tb.vals[s] = Wrap(SumOver(t, R, tb.keys[s]))
    /\ \A k \in KeysOver(t, R) : \E s \in slots : tb.occupied[s] /\ tb.keys[s] = k

TableType == [keys : [Slot -> Key],
              vals : [Slot -> -IntBound .. IntBound - 1],
              occupied : [Slot -> BOOLEAN],
              len : Nat]

(***************************************************************************)
(* The inductive invariant: where the scan is, what its table and the      *)
(* finished ones hold, and how far a probe has come.                       *)
(***************************************************************************)
InBatch ==
    /\ Len(tables) <= Len(input)
    /\ Len(tables) < Len(input) => row \in 1 .. Len(Batch) + 1
    /\ pc = "probe" => Len(tables) < Len(input) /\ row \in EvaluatePredicate(Batch)
    /\ pc # "returned" => answers = {}

RowsSoFar == PassingUpto(input, Len(tables) + 1, row - 1)

HoldsRows ==
    /\ Len(tables) < Len(input) => Holds(input, Slot, table, RowsSoFar)
    /\ \A j \in DOMAIN tables : Holds(input, Slot, tables[j], PassingOf(input, j))

ProbedSlot(e) == (hash[Batch[row].key] + e) % Capacity

\* The probe has passed occupied slots with other keys, d of them.
Probing ==
    pc = "probe" =>
        \E d \in Nat :
            /\ idx = ProbedSlot(d)
            /\ \A e \in 0 .. d - 1 : /\ table.occupied[ProbedSlot(e)]
                                     /\ table.keys[ProbedSlot(e)] # Batch[row].key

Types ==
    /\ input \in Inputs
    /\ requested \in Requests
    /\ hash \in [Key -> Slot]
    /\ table \in TableType
    /\ table.len = Cardinality({s \in Slot : table.occupied[s]})
    /\ tables \in Seq(TableType)
    /\ row \in Nat
    /\ idx \in Slot
    /\ pc \in {"scan", "probe", "returned", "panicked"}

AInv ==
    /\ Types
    /\ InBatch
    /\ HoldsRows
    /\ Probing
    /\ ProbeChains

-----------------------------------------------------------------------------
(***************************************************************************)
(* The capacity.                                                           *)
(***************************************************************************)
\* f is the powers of two up to the n-th.
ArePowers(f, n) ==
    f = [i \in 0 .. n |-> IF i = 0 THEN 1 ELSE 2 * f[i - 1]]

\* The first powers of two exist, however many ...
LEMMA PowersExist == \A n \in Nat : \E f : ArePowers(f, n)
<1> DEFINE N == {n \in Nat : \E f : ArePowers(f, n)}
<1>1. 0 \in N
  <2>1. ArePowers([i \in 0 .. 0 |-> 1], 0)
    BY DEF ArePowers
  <2> QED
    BY <2>1
<1>2. ASSUME NEW n \in Nat, n \in N PROVE n + 1 \in N
  <2>1. PICK f : ArePowers(f, n)
    BY <1>2
  <2> DEFINE g == [i \in 0 .. n + 1 |-> IF i = n + 1 THEN 2 * f[n] ELSE f[i]]
  <2>2. ASSUME NEW i \in 0 .. n + 1
        PROVE  g[i] = IF i = 0 THEN 1 ELSE 2 * g[i - 1]
    <3>1. CASE i = n + 1
      BY <3>1
    <3>2. CASE i # n + 1
      BY <2>1, <3>2 DEF ArePowers
    <3> QED
      BY <3>1, <3>2
  <2>3. ArePowers(g, n + 1)
    BY <2>2 DEF ArePowers
  <2> QED
    BY <2>3
<1>3. N = Nat
  <2> HIDE DEF N
  <2>1. N \in SUBSET Nat
    BY DEF N
  <2> QED
    BY <1>1, <1>2, <2>1, NatInd
<1> QED
  BY <1>3

\* ... and do not depend on how many.
LEMMA PowersAgree ==
    ASSUME NEW f, NEW g, NEW n \in Nat, NEW m \in Nat, ArePowers(f, n), ArePowers(g, m)
    PROVE  \A i \in Nat : i <= n /\ i <= m => f[i] = g[i]
<1> DEFINE N == {i \in Nat : i <= n /\ i <= m => f[i] = g[i]}
<1>1. 0 \in N
  BY DEF ArePowers
<1>2. ASSUME NEW i \in Nat, i \in N PROVE i + 1 \in N
  <2> SUFFICES ASSUME i + 1 <= n, i + 1 <= m PROVE f[i + 1] = g[i + 1]
    OBVIOUS
  <2>1. f[i] = g[i]
    BY <1>2
  <2>2. f[i + 1] = 2 * f[i] /\ g[i + 1] = 2 * g[i]
    BY DEF ArePowers
  <2> QED
    BY <2>1, <2>2
<1>3. N = Nat
  <2> HIDE DEF N
  <2>1. N \in SUBSET Nat
    BY DEF N
  <2> QED
    BY <1>1, <1>2, <2>1, NatInd
<1> QED
  BY <1>3

\* PowersOfTwo is what its definition says.
LEMMA PowersUnfold ==
    /\ PowersOfTwo[0] = 1
    /\ \A n \in Nat : PowersOfTwo[n + 1] = 2 * PowersOfTwo[n]
<1> DEFINE Eq(f) == f = [n \in Nat |-> IF n = 0 THEN 1 ELSE 2 * f[n - 1]]
           pick == [n \in Nat |-> CHOOSE f : ArePowers(f, n)]
           all == [n \in Nat |-> pick[n][n]]
<1>1. \A n \in Nat : ArePowers(pick[n], n)
  BY PowersExist, Zenon
<1>2. ASSUME NEW n \in Nat PROVE all[n] = IF n = 0 THEN 1 ELSE 2 * all[n - 1]
  <2> HIDE DEF pick
  <2>1. CASE n = 0
    <3>1. pick[0] = [i \in 0 .. 0 |-> IF i = 0 THEN 1 ELSE 2 * pick[0][i - 1]]
      BY <1>1 DEF ArePowers
    <3>2. 0 \in 0 .. 0
      OBVIOUS
    <3>3. pick[0][0] = 1
      BY <3>1, <3>2
    <3> QED
      BY <2>1, <3>3
  <2>2. CASE n # 0
    <3>1. n - 1 \in Nat /\ n - 1 <= n
      BY <2>2
    <3>2. pick[n][n] = 2 * pick[n][n - 1]
      <4>1. pick[n] = [i \in 0 .. n |-> IF i = 0 THEN 1 ELSE 2 * pick[n][i - 1]]
        BY <1>1 DEF ArePowers
      <4>2. n \in 0 .. n
        OBVIOUS
      <4> QED
        BY <2>2, <4>1, <4>2
    <3>3. pick[n][n - 1] = pick[n - 1][n - 1]
      BY <1>1, <3>1, PowersAgree
    <3> QED
      BY <2>2, <3>1, <3>2, <3>3
  <2> QED
    BY <2>1, <2>2
<1>3. Eq(all)
  <2> HIDE DEF pick
  <2> QED
    BY <1>2, Zenon
<1>4. Eq(PowersOfTwo)
  <2>1. PowersOfTwo = CHOOSE f : Eq(f)
    BY Zenon DEF PowersOfTwo
  <2> HIDE DEF Eq
  <2> QED
    BY <1>3, <2>1, Zenon
<1>5. \A n \in Nat : PowersOfTwo[n] = IF n = 0 THEN 1 ELSE 2 * PowersOfTwo[n - 1]
  <2> HIDE DEF all, pick
  <2> QED
    BY <1>4, Zenon
<1> HIDE DEF Eq, all, pick
<1>6. ASSUME NEW n \in Nat PROVE PowersOfTwo[n + 1] = 2 * PowersOfTwo[n]
  <2>1. n + 1 \in Nat /\ n + 1 # 0 /\ (n + 1) - 1 = n
    OBVIOUS
  <2> QED
    BY <1>5, <2>1
<1> QED
  BY <1>5, <1>6

\* A power of two is greater than its exponent.
LEMMA PowersGrow == \A n \in Nat : PowersOfTwo[n] \in Nat /\ PowersOfTwo[n] > n
<1> DEFINE N == {n \in Nat : PowersOfTwo[n] \in Nat /\ PowersOfTwo[n] > n}
<1>1. 0 \in N
  BY PowersUnfold
<1>2. \A n \in N : n + 1 \in N
  BY PowersUnfold
<1>3. N = Nat
  <2> HIDE DEF N
  <2>1. N \in SUBSET Nat
    BY DEF N
  <2> QED
    BY <1>1, <1>2, <2>1, NatInd
<1> QED
  BY <1>3

\* next_power_of_two finds one: between m and 2m there is a power of two.
LEMMA PowerBetween ==
    ASSUME NEW m \in Nat \ {0}
    PROVE  \E c \in m .. 2 * m : IsPowerOfTwo(c)
<1> DEFINE Between(k, n) == k <= PowersOfTwo[n] /\ PowersOfTwo[n] <= 2 * k
           N == {k \in Nat : \E n \in Nat : Between(k + 1, n)}
<1>1. 0 \in N
  BY PowersUnfold
<1>2. ASSUME NEW k \in N PROVE k + 1 \in N
  <2>1. PICK n \in Nat : Between(k + 1, n)
    BY <1>2
  <2>2. PowersOfTwo[n] \in Nat /\ PowersOfTwo[n + 1] = 2 * PowersOfTwo[n] /\ n + 1 \in Nat
    BY PowersUnfold, PowersGrow
  <2>3. Between(k + 2, n) \/ Between(k + 2, n + 1)
    BY <2>1, <2>2
  <2> QED
    BY <2>2, <2>3
<1>3. N = Nat
  <2> HIDE DEF N
  <2>1. N \in SUBSET Nat
    BY DEF N
  <2> QED
    BY <1>1, <1>2, <2>1, NatInd
<1>4. \A k \in Nat : \E n \in Nat : Between(k + 1, n)
  BY <1>3
<1>5. PICK n \in Nat : Between(m, n)
  <2>1. m - 1 \in Nat /\ (m - 1) + 1 = m
    OBVIOUS
  <2> HIDE DEF Between
  <2> QED
    BY <1>4, <2>1
<1>6. PowersOfTwo[n] \in m .. 2 * m /\ n \in 0 .. PowersOfTwo[n]
  BY <1>5, PowersGrow
<1> QED
  BY <1>6 DEF IsPowerOfTwo

\* A table has a slot, and room for the request below 3/4 load.
LEMMA CapacityFacts ==
    ASSUME requested \in Requests
    PROVE  /\ Capacity \in Nat \ {0}
           /\ 3 * Capacity >= 4 * requested
<1> DEFINE m == MinSlotsFor(requested)
           S == {c \in m .. 2 * m : IsPowerOfTwo(c)}
<1>1. requested \in Nat /\ requested > 0
  BY ArenaAssumption
<1>2. m \in Nat /\ m > 0 /\ 3 * m >= 4 * requested
  BY <1>1 DEF MinSlotsFor
<1>3. S # {}
  <2> HIDE DEF m
  <2> QED
    BY <1>2, PowerBetween
<1>4. S \in SUBSET Nat
  BY <1>2
<1>5. Min(S) \in S
  <2> HIDE DEF S
  <2> QED
    BY <1>3, <1>4, MinIn
<1>6. Capacity = Min(S)
  BY DEF Capacity, NextPowerOfTwo
<1>7. Capacity \in m .. 2 * m
  BY <1>5, <1>6
<1> HIDE DEF m
<1> QED
  BY <1>1, <1>2, <1>7

\* The capacity is fixed with the request.
LEMMA SameSlots ==
    ASSUME UNCHANGED requested
    PROVE  Capacity' = Capacity /\ Slot' = Slot
  BY DEF Capacity, Slot

(***************************************************************************)
(* Probing modulo the capacity.                                            *)
(***************************************************************************)
LEMMA NextMod ==
    ASSUME NEW c \in Nat \ {0}, NEW a \in Nat
    PROVE  ((a % c) + 1) % c = (a + 1) % c
<1>1. a \div c \in Int /\ a % c \in 0 .. c - 1 /\ a = c * (a \div c) + (a % c)
  BY DivMod
<1> DEFINE q == a \div c
           r == a % c
<1> HIDE DEF q, r
<1>2. q \in Int /\ r \in Int /\ a = c * q + r
  BY <1>1 DEF q, r
<1>3. c * q \in Int
  BY <1>2
<1>4. a + 1 = c * q + (r + 1) /\ a + 1 \in Int /\ r + 1 \in Int
  BY <1>2, <1>3
<1>5. (a + 1) % c = (r + 1) % c
  <2> DEFINE u == a + 1
             v == r + 1
  <2>1. u \in Int /\ v \in Int /\ u = c * q + v
    BY <1>4
  <2> HIDE DEF u, v
  <2>2. u % c = v % c
    BY <1>2, <2>1, ModUnique
  <2> QED
    BY <2>2 DEF u, v
<1>6. r = a % c
  BY DEF r
<1> QED
  BY <1>5, <1>6, Zenon

\* Once around the slots is back at the slot.
LEMMA CycleMod ==
    ASSUME NEW c \in Nat \ {0}, NEW a \in Nat
    PROVE  (a + c) % c = a % c
<1>1. a + c = c * 1 + a /\ a + c \in Int /\ 1 \in Int /\ a \in Int
  OBVIOUS
<1> QED
  BY <1>1, ModUnique

\* A remainder is a slot.
LEMMA ModIn ==
    ASSUME NEW c \in Nat \ {0}, NEW a \in Nat
    PROVE  a % c \in 0 .. c - 1
  OBVIOUS

-----------------------------------------------------------------------------
(***************************************************************************)
(* The rows and the batch at hand.                                         *)
(***************************************************************************)
CodedRow == [key : Key, val : -IntBound .. IntBound - 1]

\* The input is a table of batches, each of coded rows.
LEMMA InputFacts ==
    ASSUME Types
    PROVE  /\ IsTable(input) /\ input \in Seq(Seq(CodedRow))
           /\ Capacity \in Nat \ {0}
           /\ Len(tables) \in Nat /\ DOMAIN tables = 1 .. Len(tables)
           /\ Len(input) \in Nat /\ DOMAIN input = 1 .. Len(input)
<1>1. input \in Seq(Seq(CodedRow))
  BY ArenaAssumption DEF Types, CodedRow
<1>4. IsTable(input)
  BY <1>1, ArenaAssumption, CodedTable DEF CodedRow
<1>5. Capacity \in Nat \ {0}
  BY CapacityFacts DEF Types
<1>6. Len(tables) \in Nat /\ DOMAIN tables = 1 .. Len(tables)
  BY DEF Types
<1>7. Len(input) \in Nat /\ DOMAIN input = 1 .. Len(input)
  <2> DEFINE coded == Seq(CodedRow)
  <2>1. input \in Seq(coded)
    BY <1>1
  <2> HIDE DEF coded
  <2> QED
    BY <2>1
<1> QED
  BY <1>1, <1>4, <1>5, <1>6, <1>7

ThisBatch == Len(tables) + 1

\* The batch at hand is one of the input's.
LEMMA BatchFactsHere ==
    ASSUME Types, Len(tables) < Len(input)
    PROVE  /\ ThisBatch \in DOMAIN input /\ Batch = input[ThisBatch] /\ IsBatch(Batch)
           /\ Batch \in Seq(CodedRow)
           /\ Len(Batch) \in Nat /\ DOMAIN Batch = 1 .. Len(Batch)
<1>1. ThisBatch \in DOMAIN input /\ Batch = input[ThisBatch]
  BY InputFacts DEF ThisBatch, Batch
<1>2. input[ThisBatch] \in Seq(CodedRow)
  <2> DEFINE coded == Seq(CodedRow)
  <2>1. input \in Seq(coded)
    BY InputFacts
  <2> HIDE DEF coded
  <2>2. input[ThisBatch] \in coded
    BY <1>1, <2>1
  <2> QED
    BY <2>2 DEF coded
<1>3. IsBatch(input[ThisBatch])
  <2> DEFINE coded == Seq([key : Nat, val : Int])
  <2>1. input \in Seq(coded)
    BY InputFacts DEF IsTable
  <2> HIDE DEF coded
  <2>2. input[ThisBatch] \in coded
    BY <1>1, <2>1
  <2> QED
    BY <2>2 DEF coded, IsBatch
<1> QED
  BY <1>1, <1>2, <1>3, BatchFacts

\* The rows before this one, and this one.
ThisRow == <<ThisBatch, row>>

\* The row at hand is new, and its turn adds it if the predicate selects it.
LEMMA RowsStep ==
    ASSUME Types, Len(tables) < Len(input), row \in 1 .. Len(Batch)
    PROVE  /\ RowsSoFar \in SUBSET Rows(input)
           /\ ThisRow \in Rows(input) \ RowsSoFar
           /\ RowAt(input, ThisRow) = Batch[row] /\ Batch[row] \in CodedRow
           /\ row \in EvaluatePredicate(Batch) =>
                PassingUpto(input, ThisBatch, row) = RowsSoFar \cup {ThisRow}
           /\ row \notin EvaluatePredicate(Batch) =>
                PassingUpto(input, ThisBatch, row) = RowsSoFar
<1>1. /\ ThisBatch \in DOMAIN input /\ Batch = input[ThisBatch] /\ DOMAIN Batch = 1 .. Len(Batch)
      /\ Len(Batch) \in Nat /\ Batch \in Seq(CodedRow) /\ IsTable(input)
  BY BatchFactsHere, InputFacts
<1>2. /\ ThisRow \in Rows(input) /\ RowAt(input, ThisRow) = Batch[row]
      /\ ThisRow[1] = ThisBatch /\ ThisRow[2] = row
  BY <1>1, RowIn DEF ThisRow
<1>3. Batch[row] \in CodedRow
  <2> HIDE DEF CodedRow
  <2> QED
    BY <1>1
<1>4. \A p \in PassingOf(input, ThisBatch) :
          p = <<ThisBatch, p[2]>> /\ p[2] \in 1 .. Len(Batch) /\ p \in Rows(input)
  BY <1>1, RowFacts DEF PassingOf, PassingRows
<1>5. RowsSoFar = {p \in PassingOf(input, ThisBatch) : p[2] <= row - 1}
  BY DEF RowsSoFar, PassingUpto, ThisBatch
<1>6. RowsSoFar \in SUBSET Rows(input)
  BY <1>4, <1>5
<1>7. ThisRow \notin RowsSoFar
  BY <1>1, <1>2, <1>5
<1>8. \A p \in PassingOf(input, ThisBatch) : p[2] <= row <=> (p[2] <= row - 1 \/ p = ThisRow)
  BY <1>1, <1>2, <1>4 DEF ThisRow
<1>9. row \in EvaluatePredicate(Batch) <=> ThisRow \in PassingOf(input, ThisBatch)
  BY <1>1, <1>2 DEF EvaluatePredicate, PassingOf, PassingRows
<1>10. PassingUpto(input, ThisBatch, row) =
          {p \in PassingOf(input, ThisBatch) : p[2] <= row - 1 \/ p = ThisRow}
  BY <1>8 DEF PassingUpto
<1>11. CASE row \in EvaluatePredicate(Batch)
  <2>1. PassingUpto(input, ThisBatch, row) = RowsSoFar \cup {ThisRow}
    BY <1>5, <1>9, <1>10, <1>11
  <2> QED
    BY <1>2, <1>3, <1>6, <1>7, <1>11, <2>1
<1>12. CASE row \notin EvaluatePredicate(Batch)
  <2>1. PassingUpto(input, ThisBatch, row) = RowsSoFar
    BY <1>5, <1>9, <1>10, <1>12
  <2> QED
    BY <1>2, <1>3, <1>6, <1>7, <1>12, <2>1
<1> QED
  BY <1>11, <1>12

\* At the end of the batch they are the batch's, and at its start there are none.
LEMMA RowsAtEnds ==
    ASSUME Types, Len(tables) < Len(input)
    PROVE  /\ row = Len(Batch) + 1 => RowsSoFar = PassingOf(input, ThisBatch)
           /\ \A b : PassingUpto(input, b, 0) = {}
<1>1. IsTable(input) /\ Batch = input[ThisBatch] /\ Len(Batch) \in Nat
      /\ DOMAIN Batch = 1 .. Len(Batch)
  BY BatchFactsHere, InputFacts
<1>2. \A p \in Rows(input) : p[1] = ThisBatch => p[2] \in 1 .. Len(Batch)
  BY <1>1, RowFacts
<1>3. ASSUME NEW p \in Rows(input) PROVE p[2] \in Nat /\ p[2] > 0
  <2>1. p[1] \in DOMAIN input /\ p[2] \in DOMAIN input[p[1]]
    BY <1>1, RowFacts
  <2> DEFINE batches == Seq([key : Nat, val : Int])
  <2>2. input \in Seq(batches)
    BY <1>1 DEF IsTable
  <2>3. input[p[1]] \in batches
    <3> HIDE DEF batches
    <3> QED
      BY <2>1, <2>2
  <2>4. DOMAIN input[p[1]] = 1 .. Len(input[p[1]]) /\ Len(input[p[1]]) \in Nat
    BY <2>3, BatchFacts DEF IsBatch
  <2> QED
    BY <2>1, <2>4
<1>4. row = Len(Batch) + 1 => RowsSoFar = PassingOf(input, ThisBatch)
  BY <1>1, <1>2 DEF RowsSoFar, PassingUpto, PassingOf, PassingRows, ThisBatch
<1>5. \A b : PassingUpto(input, b, 0) = {}
  BY <1>3 DEF PassingUpto, PassingOf, PassingRows
<1> QED
  BY <1>4, <1>5

-----------------------------------------------------------------------------
(***************************************************************************)
(* What the parts of the invariant depend on.                              *)
(***************************************************************************)
\* What the tables hold does not change while no table does.
LEMMA HoldsRowsKept ==
    ASSUME HoldsRows, UNCHANGED <<input, requested, table, tables>>, RowsSoFar' = RowsSoFar
    PROVE  HoldsRows'
<1>1. Slot' = Slot
  BY SameSlots
<1> QED
  BY <1>1 DEF HoldsRows

\* Probe chains depend on the table and the hash only.
LEMMA ChainsKept ==
    ASSUME ProbeChains, UNCHANGED <<requested, hash, table>>
    PROVE  ProbeChains'
<1>1. Slot' = Slot /\ Capacity' = Capacity
  BY SameSlots
<1> QED
  BY <1>1 DEF ProbeChains

(***************************************************************************)
(* A probe.                                                                *)
(***************************************************************************)
LEMMA ProbedInSlot ==
    ASSUME Types, InBatch, pc = "probe", NEW e \in Nat
    PROVE  /\ hash[Batch[row].key] \in Slot /\ ProbedSlot(e) \in Slot
           /\ ProbedSlot(e + Capacity) = ProbedSlot(e)
           /\ ProbedSlot(e + 1) = (ProbedSlot(e) + 1) % Capacity
<1> DEFINE h == hash[Batch[row].key]
           c == Capacity
<1>1. c \in Nat \ {0} /\ Slot = 0 .. c - 1
  BY InputFacts DEF Slot
<1>2. row \in 1 .. Len(Batch) /\ Len(tables) < Len(input)
  <2>1. row \in EvaluatePredicate(Batch) /\ Len(tables) < Len(input)
    BY DEF InBatch
  <2> QED
    BY <2>1, BatchFactsHere DEF EvaluatePredicate
<1>3. Batch[row] \in CodedRow
  BY <1>2, RowsStep
<1>4. h \in Slot
  <2>1. Batch[row].key \in Key
    BY <1>3 DEF CodedRow
  <2> QED
    BY <2>1 DEF Types
<1> HIDE DEF h, c
<1>5. h \in Nat /\ h + e \in Nat
  BY <1>1, <1>4
<1>6. \A x : ProbedSlot(x) = (h + x) % c
  BY DEF ProbedSlot, h, c
<1>7. ProbedSlot(e) \in Slot
  BY <1>1, <1>5, <1>6, ModIn
<1>8. ProbedSlot(e + c) = ProbedSlot(e)
  <2>1. ((h + e) + c) % c = (h + e) % c
    BY <1>1, <1>5, CycleMod
  <2>2. h + (e + c) = (h + e) + c
    BY <1>1, <1>5
  <2> QED
    BY <1>6, <2>1, <2>2, Zenon
<1>9. ProbedSlot(e + 1) = (ProbedSlot(e) + 1) % c
  <2>1. (((h + e) % c) + 1) % c = ((h + e) + 1) % c
    BY <1>1, <1>5, NextMod
  <2>2. h + (e + 1) = (h + e) + 1
    BY <1>1, <1>5
  <2> QED
    BY <1>6, <2>1, <2>2, Zenon
<1> QED
  BY <1>4, <1>7, <1>8, <1>9 DEF h, c

\* A free slot ends the probe before it comes around, and the key is nowhere.
LEMMA FreeSlotIsNew ==
    ASSUME Types, InBatch, Probing, ProbeChains, pc = "probe", Free
    PROVE  /\ \A s \in Slot : table.occupied[s] => table.keys[s] # Batch[row].key
           /\ \E d \in Slot :
                 /\ idx = ProbedSlot(d)
                 /\ \A e \in 0 .. d - 1 : table.occupied[ProbedSlot(e)]
<1>1. PICK d \in Nat : /\ idx = ProbedSlot(d)
                       /\ \A e \in 0 .. d - 1 : /\ table.occupied[ProbedSlot(e)]
                                                /\ table.keys[ProbedSlot(e)] # Batch[row].key
  BY DEF Probing
<1>2. Capacity \in Nat \ {0} /\ Slot = 0 .. Capacity - 1
  BY InputFacts DEF Slot
<1>3. d \in Slot
  <2> SUFFICES ASSUME d >= Capacity
               PROVE  FALSE
    BY <1>2
  <2> DEFINE e == d - Capacity
  <2>1. e \in Nat /\ e \in 0 .. d - 1 /\ e + Capacity = d
    BY <1>2
  <2> HIDE DEF e
  <2>2. ProbedSlot(e) = idx
    BY <1>1, <2>1, ProbedInSlot
  <2> QED
    BY <1>1, <2>1, <2>2 DEF Free
<1>4. ASSUME NEW s \in Slot, table.occupied[s], table.keys[s] = Batch[row].key PROVE FALSE
  <2>1. PICK x \in Slot :
           /\ s = (hash[table.keys[s]] + x) % Capacity
           /\ \A e \in 0 .. x : table.occupied[(hash[table.keys[s]] + e) % Capacity]
    BY <1>4 DEF ProbeChains
  <2>2. s = ProbedSlot(x) /\ \A e \in 0 .. x : table.occupied[ProbedSlot(e)]
    BY <1>4, <2>1 DEF ProbedSlot
  <2>3. CASE x < d
    <3>1. x \in 0 .. d - 1
      BY <1>2, <2>3
    <3> QED
      BY <1>1, <1>4, <2>2, <3>1
  <2>4. CASE x >= d
    <3>1. d \in 0 .. x
      BY <1>2, <2>4
    <3> QED
      BY <1>1, <2>2, <3>1 DEF Free
  <2> QED
    BY <1>2, <2>3, <2>4
<1> QED
  BY <1>1, <1>3, <1>4

-----------------------------------------------------------------------------
\* A table without an occupied slot holds the answer over no rows.
LEMMA OverNone ==
    ASSUME NEW t, NEW slots, NEW tb, \A s \in slots : ~tb.occupied[s]
    PROVE  Holds(t, slots, tb, {})
  BY DEF Holds, OneSlotPerKey, KeysOver

\* with_capacity makes an empty table.
LEMMA NewTableFacts ==
    ASSUME requested \in Requests
    PROVE  /\ NewTable \in TableType
           /\ \A s \in Slot : ~NewTable.occupied[s]
           /\ NewTable.len = Cardinality({s \in Slot : NewTable.occupied[s]})
<1>1. 0 \in -IntBound .. IntBound - 1
  BY IntBoundAssumption
<1>2. NewTable \in TableType
  BY <1>1, ArenaAssumption DEF NewTable, TableType
<1>3. \A s \in Slot : ~NewTable.occupied[s]
  BY DEF NewTable
<1>4. {s \in Slot : NewTable.occupied[s]} = {}
  BY <1>3
<1>5. NewTable.len = 0
  BY DEF NewTable
<1> QED
  BY <1>2, <1>3, <1>4, <1>5, FS_EmptySet

\* The invariant holds initially.
LEMMA InitAInv == Init => AInv
<1> SUFFICES ASSUME Init
             PROVE  AInv
  OBVIOUS
<1>1. requested \in Requests
  BY DEF Init
<1>2. Capacity \in Nat \ {0}
  BY <1>1, CapacityFacts
<1>3. Types
  BY <1>1, <1>2, NewTableFacts DEF Init, Types, Slot
<1>4. InBatch
  <2>1. Len(tables) = 0 /\ Len(input) \in Nat
    BY <1>3, InputFacts DEF Init
  <2>2. Len(tables) < Len(input) => Len(Batch) \in Nat
    BY <1>3, BatchFactsHere
  <2>3. Len(tables) < Len(input) => row \in 1 .. Len(Batch) + 1
    BY <2>2 DEF Init
  <2> QED
    BY <2>1, <2>3 DEF Init, InBatch
<1>5. HoldsRows
  <2>1. Len(tables) < Len(input) => RowsSoFar = {}
    BY <1>3, RowsAtEnds DEF Init, RowsSoFar
  <2>2. Holds(input, Slot, table, {})
    BY <1>1, NewTableFacts, OverNone DEF Init
  <2>3. DOMAIN tables = {}
    BY DEF Init
  <2> QED
    BY <2>1, <2>2, <2>3 DEF HoldsRows
<1>6. Probing
  BY DEF Init, Probing
<1>7. ProbeChains
  BY <1>1, NewTableFacts DEF Init, ProbeChains
<1> QED
  BY <1>3, <1>4, <1>5, <1>6, <1>7 DEF AInv

-----------------------------------------------------------------------------
(***************************************************************************)
(* The steps that leave the table alone.                                   *)
(***************************************************************************)
\* A row that is not selected is passed over.
LEMMA SkipRowAInv == AInv /\ SkipRow => AInv'
<1> SUFFICES ASSUME AInv, SkipRow
             PROVE  AInv'
  OBVIOUS
<1> USE DEF AInv, callVars
<1>1. /\ pc = "scan" /\ Len(tables) < Len(input)
      /\ row \in DOMAIN Batch /\ row \notin EvaluatePredicate(Batch) /\ row' = row + 1
      /\ UNCHANGED <<input, requested, hash, answers, table, tables, idx, pc>>
  BY DEF SkipRow, Scanning
<1>2. Slot' = Slot /\ Batch' = Batch
  BY <1>1, SameSlots DEF Batch
<1>3. row \in 1 .. Len(Batch) /\ Len(Batch) \in Nat
  BY <1>1, BatchFactsHere
<1>4. Types'
  BY <1>1, <1>2, <1>3 DEF Types, TableType
<1>5. InBatch'
  BY <1>1, <1>2, <1>3 DEF InBatch
<1>6. RowsSoFar' = RowsSoFar
  <2>1. PassingUpto(input, ThisBatch, row) = RowsSoFar
    BY <1>1, <1>3, RowsStep
  <2>2. row' - 1 = row
    BY <1>1, <1>3
  <2> QED
    BY <1>1, <2>1, <2>2 DEF RowsSoFar, ThisBatch
<1>7. HoldsRows'
  BY <1>1, <1>6, HoldsRowsKept
<1>8. Probing' /\ ProbeChains'
  BY <1>1, ChainsKept DEF Probing
<1> QED
  BY <1>4, <1>5, <1>7, <1>8

\* The next selected row starts its probe at its hash's slot.
LEMMA BeginInsertAInv == AInv /\ BeginInsert => AInv'
<1> SUFFICES ASSUME AInv, BeginInsert
             PROVE  AInv'
  OBVIOUS
<1> USE DEF AInv, callVars
<1>1. /\ pc = "scan" /\ Len(tables) < Len(input) /\ row \in EvaluatePredicate(Batch)
      /\ \/ pc' = "panicked" /\ UNCHANGED idx
         \/ pc' = "probe" /\ idx' = hash[Batch[row].key]
      /\ UNCHANGED <<input, requested, hash, answers, table, tables, row>>
  BY DEF BeginInsert, Scanning
<1>2. Slot' = Slot /\ Batch' = Batch /\ Capacity' = Capacity
  BY <1>1, SameSlots DEF Batch
<1>3. row \in 1 .. Len(Batch)
  BY <1>1, BatchFactsHere DEF EvaluatePredicate
<1>4. hash[Batch[row].key] \in Slot
  <2>1. Batch[row].key \in Key
    BY <1>1, <1>3, RowsStep DEF CodedRow
  <2> QED
    BY <2>1 DEF Types
<1>5. Types'
  BY <1>1, <1>2, <1>4 DEF Types, TableType
<1>6. InBatch'
  BY <1>1, <1>2 DEF InBatch
<1>7. HoldsRows'
  BY <1>1, HoldsRowsKept DEF RowsSoFar
<1>8. ProbeChains'
  BY <1>1, ChainsKept
<1>9. Probing'
  <2> SUFFICES ASSUME pc' = "probe"
               PROVE  /\ 0 \in Nat /\ idx' = ProbedSlot(0)'
                      /\ \A e \in 0 .. 0 - 1 : /\ table'.occupied[ProbedSlot(e)']
                                               /\ table'.keys[ProbedSlot(e)'] # Batch'[row'].key
    BY Zenon DEF Probing
  <2>1. Capacity \in Nat \ {0} /\ Slot = 0 .. Capacity - 1
    BY InputFacts DEF Slot
  <2>2. ProbedSlot(0)' = (hash[Batch[row].key] + 0) % Capacity
    BY <1>1, <1>2 DEF ProbedSlot
  <2> DEFINE h == hash[Batch[row].key]
  <2>3. h \in 0 .. Capacity - 1
    BY <1>4, <2>1
  <2> HIDE DEF h
  <2>4. (h + 0) % Capacity = h
    BY <2>1, <2>3
  <2>5. idx' = ProbedSlot(0)'
    BY <1>1, <2>2, <2>4 DEF h
  <2> QED
    BY <2>5
<1> QED
  BY <1>5, <1>6, <1>7, <1>8, <1>9

\* A probe that meets another key goes on to the next slot.
LEMMA CollideAInv == AInv /\ Collide => AInv'
<1> SUFFICES ASSUME AInv, Collide
             PROVE  AInv'
  OBVIOUS
<1> USE DEF AInv, callVars
<1>1. /\ pc = "probe" /\ table.occupied[idx] /\ table.keys[idx] # Batch[row].key
      /\ idx' = (idx + 1) % Capacity
      /\ UNCHANGED <<input, requested, hash, answers, table, tables, row, pc>>
  BY DEF Collide, Free, NextSlot
<1>2. Slot' = Slot /\ Batch' = Batch /\ Capacity' = Capacity
  BY <1>1, SameSlots DEF Batch
<1>3. PICK d \in Nat : /\ idx = ProbedSlot(d)
                       /\ \A e \in 0 .. d - 1 : /\ table.occupied[ProbedSlot(e)]
                                                /\ table.keys[ProbedSlot(e)] # Batch[row].key
  BY <1>1 DEF Probing
<1>4. idx' = ProbedSlot(d + 1) /\ d + 1 \in Nat
  BY <1>1, <1>3, ProbedInSlot
<1>5. \A e : ProbedSlot(e)' = ProbedSlot(e)
  BY <1>1, <1>2 DEF ProbedSlot
<1>6. idx' \in Slot
  BY <1>1, <1>4, ProbedInSlot
<1>7. Types'
  BY <1>1, <1>2, <1>6 DEF Types, TableType
<1>8. InBatch'
  BY <1>1, <1>2 DEF InBatch
<1>9. HoldsRows'
  BY <1>1, HoldsRowsKept DEF RowsSoFar
<1>10. ProbeChains'
  BY <1>1, ChainsKept
<1>11. Probing'
  <2>1. ASSUME NEW e \in 0 .. (d + 1) - 1
        PROVE  /\ table.occupied[ProbedSlot(e)]
               /\ table.keys[ProbedSlot(e)] # Batch[row].key
    <3>1. CASE e = d
      BY <1>1, <1>3, <3>1
    <3>2. CASE e # d
      <4>1. e \in 0 .. d - 1
        BY <3>2
      <4> QED
        BY <1>3, <4>1
    <3> QED
      BY <3>1, <3>2
  <2>2. idx' = ProbedSlot(d + 1)'
    BY <1>4, <1>5
  <2>3. \A e \in 0 .. (d + 1) - 1 : /\ table'.occupied[ProbedSlot(e)']
                                    /\ table'.keys[ProbedSlot(e)'] # Batch'[row'].key
    BY <1>1, <1>2, <1>5, <2>1
  <2> QED
    BY <1>4, <2>2, <2>3 DEF Probing
<1> QED
  BY <1>7, <1>8, <1>9, <1>10, <1>11

\* A finished table holds its batch, and the next one starts empty.
LEMMA FinishTableAInv == AInv /\ FinishTable => AInv'
<1> SUFFICES ASSUME AInv, FinishTable
             PROVE  AInv'
  OBVIOUS
<1> USE DEF AInv, callVars
<1>1. /\ pc = "scan" /\ Len(tables) < Len(input) /\ row > Len(Batch)
      /\ tables' = Append(tables, table) /\ table' = NewTable /\ row' = 1
      /\ UNCHANGED <<input, requested, hash, answers, idx, pc>>
  BY DEF FinishTable, Scanning
<1>2. Slot' = Slot /\ Capacity' = Capacity /\ requested \in Requests
  BY <1>1, SameSlots DEF Types
<1>3. NewTable \in TableType /\ NewTable.len = Cardinality({s \in Slot : NewTable.occupied[s]})
      /\ \A s \in Slot : ~NewTable.occupied[s]
  BY <1>2, NewTableFacts
<1>4. /\ table \in TableType /\ tables \in Seq(TableType)
      /\ Len(tables) \in Nat /\ DOMAIN tables = 1 .. Len(tables) /\ Len(input) \in Nat
  BY InputFacts DEF Types
<1>5. tables' \in Seq(TableType) /\ Len(tables') = Len(tables) + 1
      /\ DOMAIN tables' = 1 .. Len(tables')
  <2> DEFINE type == TableType
  <2>1. table \in type /\ tables \in Seq(type)
    BY <1>4
  <2> HIDE DEF type
  <2>2. tables' \in Seq(type) /\ Len(tables') = Len(tables) + 1
        /\ DOMAIN tables' = 1 .. Len(tables')
    BY <1>1, <2>1
  <2> QED
    BY <2>2 DEF type
<1>6. TableType' = TableType
  BY <1>2 DEF TableType
<1>7. Types'
  BY <1>1, <1>2, <1>3, <1>5, <1>6 DEF Types
<1>8. Len(tables') < Len(input') => Len(Batch') \in Nat
  <2> SUFFICES ASSUME Len(tables') < Len(input')
               PROVE  Len(Batch') \in Nat
    OBVIOUS
  <2>1. Batch' = input[Len(tables') + 1] /\ Len(tables') + 1 \in DOMAIN input
    BY <1>1, <1>4, <1>5, InputFacts DEF Batch
  <2> DEFINE coded == Seq(CodedRow)
  <2>2. input \in Seq(coded)
    BY InputFacts
  <2>3. Batch' \in coded
    <3> HIDE DEF coded
    <3> QED
      BY <2>1, <2>2
  <2> QED
    BY <2>3
<1>9. InBatch'
  BY <1>1, <1>4, <1>5, <1>8 DEF InBatch
<1>10. row = Len(Batch) + 1 /\ RowsSoFar = PassingOf(input, ThisBatch)
  <2>1. row \in 1 .. Len(Batch) + 1 /\ Len(Batch) \in Nat
    BY <1>1, BatchFactsHere DEF InBatch
  <2>2. row = Len(Batch) + 1
    BY <1>1, <2>1
  <2> QED
    BY <1>1, <2>2, RowsAtEnds
<1>11. HoldsRows'
  <2>1. RowsSoFar' = {}
    BY <1>1, RowsAtEnds DEF RowsSoFar
  <2>2. Holds(input, Slot, table', RowsSoFar')
    BY <1>1, <1>3, <2>1, OverNone
  <2>3. ASSUME NEW j \in DOMAIN tables' PROVE Holds(input, Slot, tables'[j], PassingOf(input, j))
    <3>1. CASE j = Len(tables) + 1
      <4>1. tables'[j] = table
        BY <1>1, <1>4, <3>1
      <4>2. Holds(input, Slot, table, PassingOf(input, ThisBatch))
        BY <1>1, <1>10 DEF HoldsRows
      <4> QED
        BY <3>1, <4>1, <4>2 DEF ThisBatch
    <3>2. CASE j # Len(tables) + 1
      <4>1. j \in DOMAIN tables
        BY <1>4, <1>5, <3>2
      <4>2. tables'[j] = tables[j]
        BY <1>1, <1>4, <4>1
      <4> QED
        BY <4>1, <4>2 DEF HoldsRows
    <3> QED
      BY <3>1, <3>2
  <2> QED
    BY <1>1, <1>2, <2>2, <2>3 DEF HoldsRows
<1>12. Probing'
  BY <1>1 DEF Probing
<1>13. ProbeChains'
  BY <1>1, <1>2, <1>3 DEF ProbeChains
<1> QED
  BY <1>7, <1>9, <1>11, <1>12, <1>13

\* The merge touches no table.
LEMMA MergeAInv == AInv /\ Merge => AInv'
<1> SUFFICES ASSUME AInv, Merge
             PROVE  AInv'
  OBVIOUS
<1> USE DEF AInv, callVars
<1>1. /\ pc = "scan" /\ Len(tables) = Len(input) /\ pc' \in {"panicked", "returned"}
      /\ pc' = "panicked" => answers' = answers
      /\ UNCHANGED <<input, requested, hash, table, tables, row, idx>>
  BY DEF Merge
<1>2. Slot' = Slot /\ Batch' = Batch
  BY <1>1, SameSlots DEF Batch
<1>3. Types'
  BY <1>1, <1>2 DEF Types, TableType
<1>4. InBatch'
  BY <1>1, <1>2, InputFacts DEF InBatch
<1>5. HoldsRows'
  BY <1>1, HoldsRowsKept DEF RowsSoFar
<1>6. Probing' /\ ProbeChains'
  BY <1>1, ChainsKept DEF Probing
<1> QED
  BY <1>3, <1>4, <1>5, <1>6

-----------------------------------------------------------------------------
(***************************************************************************)
(* The steps that add a row to the table.                                  *)
(***************************************************************************)
\* The selected row at the cursor is a new one, and the rows so far grow by it.
LEMMA RowAdded ==
    ASSUME Types, InBatch, pc = "probe", row' = row + 1, UNCHANGED <<input, tables>>
    PROVE  /\ Batch' = Batch /\ row \in 1 .. Len(Batch) /\ Len(Batch) \in Nat
           /\ row' \in 1 .. Len(Batch) + 1 /\ Len(tables) < Len(input)
           /\ RowsSoFar \in SUBSET Rows(input) /\ ThisRow \in Rows(input) \ RowsSoFar
           /\ RowsSoFar' = RowsSoFar \cup {ThisRow}
           /\ RowAt(input, ThisRow) = Batch[row]
           /\ Batch[row].key \in Key /\ Batch[row].val \in -IntBound .. IntBound - 1
<1>1. row \in EvaluatePredicate(Batch) /\ Len(tables) < Len(input)
  BY DEF InBatch
<1>2. row \in 1 .. Len(Batch) /\ Len(Batch) \in Nat
  BY <1>1, BatchFactsHere DEF EvaluatePredicate
<1>3. PassingUpto(input, ThisBatch, row) = RowsSoFar \cup {ThisRow}
  BY <1>1, <1>2, RowsStep
<1>4. RowsSoFar' = PassingUpto(input, ThisBatch, row)
  <2>1. row' - 1 = row
    BY <1>2
  <2> QED
    BY <2>1 DEF RowsSoFar, ThisBatch
<1>5. Batch[row] \in CodedRow
  BY <1>1, <1>2, RowsStep
<1>6. Batch[row].key \in Key /\ Batch[row].val \in -IntBound .. IntBound - 1
  BY <1>5 DEF CodedRow
<1> QED
  BY <1>1, <1>2, <1>3, <1>4, <1>6, RowsStep DEF Batch

\* The finished tables are not touched.
LEMMA HoldsStep ==
    ASSUME HoldsRows, Len(tables) < Len(input), UNCHANGED <<input, requested, tables>>,
           Holds(input, Slot, table', RowsSoFar')
    PROVE  HoldsRows'
<1>1. Slot' = Slot
  BY SameSlots
<1> QED
  BY <1>1 DEF HoldsRows

\* A free slot gets the row's key: the chain to it is whole, no other slot
\* has the key, and the load stays below the limit.
LEMMA InsertHereAInv == AInv /\ InsertHere => AInv'
<1> SUFFICES ASSUME AInv, InsertHere
             PROVE  AInv'
  OBVIOUS
<1> DEFINE k == Batch[row].key
           v == Batch[row].val
<1> USE DEF AInv, callVars
<1>1. /\ pc = "probe" /\ Free /\ ~table.occupied[idx] /\ row' = row + 1 /\ pc' = "scan"
      /\ UNCHANGED <<input, requested, hash, answers, tables, idx>>
      /\ table' = [table EXCEPT !.keys[idx] = k, !.vals[idx] = v,
                                !.occupied[idx] = TRUE, !.len = @ + 1]
  BY DEF InsertHere, Free
<1>2. /\ Batch' = Batch /\ row \in 1 .. Len(Batch) /\ Len(Batch) \in Nat
      /\ row' \in 1 .. Len(Batch) + 1 /\ Len(tables) < Len(input)
      /\ RowsSoFar \in SUBSET Rows(input) /\ ThisRow \in Rows(input) \ RowsSoFar
      /\ RowsSoFar' = RowsSoFar \cup {ThisRow}
      /\ RowAt(input, ThisRow).key = k /\ RowAt(input, ThisRow).val = v
      /\ k \in Key /\ v \in -IntBound .. IntBound - 1
  BY <1>1, RowAdded
<1>3. Slot' = Slot /\ Capacity' = Capacity
  BY <1>1, SameSlots
<1>4. /\ Capacity \in Nat \ {0} /\ Slot = 0 .. Capacity - 1 /\ IsTable(input)
  BY InputFacts DEF Slot
<1>5. /\ \A s \in Slot : table.occupied[s] => table.keys[s] # k
      /\ \E d \in Slot :
            /\ idx = ProbedSlot(d)
            /\ \A e \in 0 .. d - 1 : table.occupied[ProbedSlot(e)]
  BY <1>1, FreeSlotIsNew
<1> HIDE DEF k, v
<1>6. /\ idx \in Slot /\ table \in TableType
      /\ table.keys \in [Slot -> Key] /\ table.vals \in [Slot -> -IntBound .. IntBound - 1]
      /\ table.occupied \in [Slot -> BOOLEAN] /\ table.len \in Nat
  BY DEF Types, TableType
<1>7. /\ table'.keys = [table.keys EXCEPT ![idx] = k]
      /\ table'.vals = [table.vals EXCEPT ![idx] = v]
      /\ table'.occupied = [table.occupied EXCEPT ![idx] = TRUE]
      /\ table'.len = table.len + 1
      /\ table' = [keys |-> table'.keys, vals |-> table'.vals,
                   occupied |-> table'.occupied, len |-> table'.len]
  BY <1>1, <1>6 DEF TableType
<1>8. /\ table'.occupied[idx] /\ table'.keys[idx] = k /\ table'.vals[idx] = v
      /\ \A s \in Slot : s # idx =>
            /\ table'.occupied[s] = table.occupied[s] /\ table'.keys[s] = table.keys[s]
            /\ table'.vals[s] = table.vals[s]
  BY <1>6, <1>7
<1>9. Types'
  <2>1. table' \in TableType
    <3>1. /\ table'.keys \in [Slot -> Key] /\ table'.vals \in [Slot -> -IntBound .. IntBound - 1]
          /\ table'.occupied \in [Slot -> BOOLEAN] /\ table'.len \in Nat
      BY <1>2, <1>6, <1>7, SMTT(30)
    <3> QED
      BY <1>7, <3>1, Zenon DEF TableType
  <2>2. table'.len = Cardinality({s \in Slot : table'.occupied[s]})
    <3> DEFINE S == {s \in Slot : table.occupied[s]}
    <3>1. {s \in Slot : table'.occupied[s]} = S \cup {idx} /\ idx \notin S
      BY <1>1, <1>6, <1>8
    <3>2. IsFiniteSet(S)
      <4>1. IsFiniteSet(0 .. Capacity - 1)
        BY <1>4, FS_Interval
      <4> QED
        BY <1>4, <4>1, FS_Subset
    <3> HIDE DEF S
    <3>3. Cardinality(S \cup {idx}) = Cardinality(S) + 1
      BY <3>1, <3>2, FS_AddElement
    <3>4. table.len = Cardinality(S)
      BY DEF Types, S
    <3> QED
      BY <1>7, <3>1, <3>3, <3>4
  <2>3. TableType' = TableType
    BY <1>3 DEF TableType
  <2> QED
    BY <1>1, <1>2, <1>3, <2>1, <2>2, <2>3 DEF Types
<1>10. InBatch'
  BY <1>1, <1>2 DEF InBatch
<1>11. Holds(input, Slot, table, RowsSoFar)
  BY <1>2 DEF HoldsRows
<1>12. OneSlotPerKey(Slot, table')
  BY <1>5, <1>8, <1>11 DEF Holds, OneSlotPerKey
<1>13. KeysOver(input, RowsSoFar') = KeysOver(input, RowsSoFar) \cup {k}
  BY <1>2 DEF KeysOver
<1>14. k \notin KeysOver(input, RowsSoFar)
  BY <1>5, <1>11 DEF Holds
<1>15. ASSUME NEW s \in Slot, table'.occupied[s]
       PROVE  /\ table'.keys[s] \in KeysOver(input, RowsSoFar')
              /\ table'.vals[s] = Wrap(SumOver(input, RowsSoFar', table'.keys[s]))
  <2>1. CASE s = idx
    <3>1. SumOver(input, RowsSoFar', k) = SumOver(input, RowsSoFar, k) + v
      BY <1>2, <1>4, SumOverFacts
    <3>2. SumOver(input, RowsSoFar, k) = 0
      BY <1>2, <1>4, <1>14, SumOverFacts
    <3>3. v \in Int /\ InRange(v)
      BY <1>2 DEF InRange
    <3>4. Wrap(SumOver(input, RowsSoFar', k)) = v
      BY <3>1, <3>2, <3>3, WrapFits
    <3> QED
      BY <1>8, <1>13, <2>1, <3>4
  <2>2. CASE s # idx
    <3>1. table.occupied[s] /\ table'.keys[s] = table.keys[s] /\ table'.vals[s] = table.vals[s]
      BY <1>8, <1>15, <2>2
    <3>2. /\ table.keys[s] # k /\ table.keys[s] \in KeysOver(input, RowsSoFar)
          /\ table.vals[s] = Wrap(SumOver(input, RowsSoFar, table.keys[s]))
      BY <1>5, <1>11, <3>1 DEF Holds
    <3>3. SumOver(input, RowsSoFar', table.keys[s]) = SumOver(input, RowsSoFar, table.keys[s])
      BY <1>2, <1>4, <3>2, SumOverFacts
    <3> QED
      BY <1>13, <3>1, <3>2, <3>3
  <2> QED
    BY <2>1, <2>2
<1>16. ASSUME NEW x \in KeysOver(input, RowsSoFar')
       PROVE  \E s \in Slot : table'.occupied[s] /\ table'.keys[s] = x
  <2>1. CASE x = k
    BY <1>6, <1>8, <2>1
  <2>2. CASE x # k
    <3>1. PICK s \in Slot : table.occupied[s] /\ table.keys[s] = x
      BY <1>11, <1>13, <2>2 DEF Holds
    <3>2. s # idx
      BY <1>1, <3>1
    <3> QED
      BY <1>8, <3>1, <3>2
  <2> QED
    BY <2>1, <2>2
<1>17. Holds(input, Slot, table', RowsSoFar')
  BY <1>12, <1>15, <1>16 DEF Holds
<1>18. HoldsRows'
  BY <1>1, <1>2, <1>17, HoldsStep
<1>19. Probing'
  BY <1>1 DEF Probing
<1>20. ASSUME NEW s \in Slot, table'.occupied[s]
       PROVE  /\ \A t \in Slot : table'.occupied[t] /\ table'.keys[t] = table'.keys[s] => t = s
              /\ \E d \in Slot :
                    /\ s = (hash[table'.keys[s]] + d) % Capacity
                    /\ \A e \in 0 .. d :
                          table'.occupied[(hash[table'.keys[s]] + e) % Capacity]
  <2>1. \A t \in Slot : table'.occupied[t] /\ table'.keys[t] = table'.keys[s] => t = s
    BY <1>12, <1>20 DEF OneSlotPerKey
  <2>2. CASE s = idx
    <3>1. PICK d \in Slot : /\ idx = ProbedSlot(d)
                            /\ \A e \in 0 .. d - 1 : table.occupied[ProbedSlot(e)]
      BY <1>5
    <3>2. d \in Nat /\ \A e \in 0 .. d : e \in Nat
      BY <1>4
    <3>3. \A e \in 0 .. d : ProbedSlot(e) \in Slot
      BY <1>1, <3>2, ProbedInSlot
    <3>4. ASSUME NEW e \in 0 .. d PROVE table'.occupied[ProbedSlot(e)]
      <4>1. CASE e = d
        BY <1>8, <3>1, <4>1
      <4>2. CASE e # d
        <5>1. e \in 0 .. d - 1
          BY <3>2, <4>2
        <5> QED
          BY <1>8, <3>1, <3>3, <5>1
      <4> QED
        BY <4>1, <4>2
    <3>5. \A e : ProbedSlot(e) = (hash[table'.keys[s]] + e) % Capacity
      BY <1>8, <2>2 DEF ProbedSlot, k
    <3> QED
      BY <2>1, <2>2, <3>1, <3>4, <3>5
  <2>3. CASE s # idx
    <3>1. table.occupied[s] /\ table'.keys[s] = table.keys[s]
      BY <1>8, <1>20, <2>3
    <3>2. PICK d \in Slot :
             /\ s = (hash[table.keys[s]] + d) % Capacity
             /\ \A e \in 0 .. d : table.occupied[(hash[table.keys[s]] + e) % Capacity]
      BY <3>1 DEF ProbeChains
    <3>3. hash[table.keys[s]] \in Nat
      <4>1. table.keys[s] \in Key
        BY <1>6
      <4>2. hash \in [Key -> Slot]
        BY DEF Types
      <4>3. hash[table.keys[s]] \in Slot
        BY <4>1, <4>2
      <4> QED
        BY <1>4, <4>3
    <3>4. ASSUME NEW e \in 0 .. d
          PROVE  table'.occupied[(hash[table.keys[s]] + e) % Capacity]
      <4>1. (hash[table.keys[s]] + e) % Capacity \in Slot
        <5>1. hash[table.keys[s]] + e \in Nat
          BY <1>4, <3>3
        <5> QED
          BY <1>4, <5>1, ModIn
      <4> QED
        BY <1>8, <3>2, <4>1
    <3> QED
      BY <2>1, <3>1, <3>2, <3>4
  <2> QED
    BY <2>2, <2>3
<1>21. ProbeChains'
  BY <1>1, <1>3, <1>20 DEF ProbeChains
<1> QED
  BY <1>9, <1>10, <1>18, <1>19, <1>21

\* A slot that has the key gets the row's value: the only one that has it.
LEMMA AccumulateAInv == AInv /\ Accumulate => AInv'
<1> SUFFICES ASSUME AInv, Accumulate
             PROVE  AInv'
  OBVIOUS
<1> DEFINE k == Batch[row].key
           v == Batch[row].val
<1> USE DEF AInv, callVars
<1>1. /\ pc = "probe" /\ table.occupied[idx] /\ table.keys[idx] = k
      /\ UNCHANGED <<input, requested, hash, answers, tables, idx>>
  BY DEF Accumulate, Free
<1>2. Slot' = Slot /\ Capacity' = Capacity /\ Batch' = Batch
  BY <1>1, SameSlots DEF Batch
<1>3. CASE pc' = "panicked" /\ UNCHANGED <<table, row>>
  <2>1. Types'
    BY <1>1, <1>2, <1>3 DEF Types, TableType
  <2>2. InBatch'
    BY <1>1, <1>2, <1>3 DEF InBatch
  <2>3. HoldsRows'
    BY <1>1, <1>3, HoldsRowsKept DEF RowsSoFar
  <2>4. Probing' /\ ProbeChains'
    BY <1>1, <1>3, ChainsKept DEF Probing
  <2> QED
    BY <2>1, <2>2, <2>3, <2>4
<1>4. CASE /\ table' = [table EXCEPT !.vals[idx] = Wrap(@ + v)]
           /\ row' = row + 1 /\ pc' = "scan"
  <2>1. /\ row \in 1 .. Len(Batch) /\ Len(Batch) \in Nat
        /\ row' \in 1 .. Len(Batch) + 1 /\ Len(tables) < Len(input)
        /\ RowsSoFar \in SUBSET Rows(input) /\ ThisRow \in Rows(input) \ RowsSoFar
        /\ RowsSoFar' = RowsSoFar \cup {ThisRow}
        /\ RowAt(input, ThisRow).key = k /\ RowAt(input, ThisRow).val = v
        /\ k \in Key /\ v \in -IntBound .. IntBound - 1
    BY <1>1, <1>4, RowAdded
  <2> HIDE DEF k, v
  <2>2. /\ idx \in Slot /\ table \in TableType /\ IsTable(input)
        /\ table.keys \in [Slot -> Key] /\ table.vals \in [Slot -> -IntBound .. IntBound - 1]
        /\ table.occupied \in [Slot -> BOOLEAN] /\ table.len \in Nat
    BY InputFacts DEF Types, TableType
  <2>3. /\ table'.keys = table.keys /\ table'.occupied = table.occupied
        /\ table'.len = table.len
        /\ table'.vals = [table.vals EXCEPT ![idx] = Wrap(table.vals[idx] + v)]
        /\ table' = [keys |-> table'.keys, vals |-> table'.vals,
                     occupied |-> table'.occupied, len |-> table'.len]
    BY <1>4, <2>2 DEF TableType
  <2>4. table.vals[idx] \in Int /\ v \in Int
    BY <2>1, <2>2
  <2>5. Wrap(table.vals[idx] + v) \in -IntBound .. IntBound - 1
    BY <2>4, WrapInRange DEF InRange
  <2>6. Types'
    <3>1. table'.vals \in [Slot -> -IntBound .. IntBound - 1]
      BY <2>2, <2>3, <2>5
    <3>2. table' \in TableType
      BY <2>2, <2>3, <3>1, Zenon DEF TableType
    <3>3. TableType' = TableType
      BY <1>2 DEF TableType
    <3> QED
      BY <1>1, <1>2, <1>4, <2>1, <2>3, <3>2, <3>3 DEF Types
  <2>7. InBatch'
    BY <1>1, <1>2, <1>4, <2>1 DEF InBatch
  <2>8. Holds(input, Slot, table, RowsSoFar)
    BY <2>1 DEF HoldsRows
  <2>9. OneSlotPerKey(Slot, table')
    BY <2>3, <2>8 DEF Holds, OneSlotPerKey
  <2>10. k \in KeysOver(input, RowsSoFar)
    BY <1>1, <2>2, <2>8 DEF Holds
  <2>11. KeysOver(input, RowsSoFar') = KeysOver(input, RowsSoFar)
    BY <2>1, <2>10 DEF KeysOver
  <2>12. ASSUME NEW s \in Slot, table'.occupied[s]
         PROVE  /\ table'.keys[s] \in KeysOver(input, RowsSoFar')
                /\ table'.vals[s] = Wrap(SumOver(input, RowsSoFar', table'.keys[s]))
    <3>1. /\ table.keys[s] \in KeysOver(input, RowsSoFar)
          /\ table.vals[s] = Wrap(SumOver(input, RowsSoFar, table.keys[s]))
      BY <2>3, <2>8, <2>12 DEF Holds
    <3>2. CASE s = idx
      <4>1. SumOver(input, RowsSoFar', k) = SumOver(input, RowsSoFar, k) + v
            /\ SumOver(input, RowsSoFar, k) \in Int
        BY <2>1, <2>2, SumOverFacts
      <4>2. Wrap(Wrap(SumOver(input, RowsSoFar, k)) + v) = Wrap(SumOver(input, RowsSoFar, k) + v)
        BY <2>4, <4>1, WrapPlus
      <4>3. table'.vals[s] = Wrap(table.vals[idx] + v)
        BY <2>2, <2>3, <3>2
      <4> QED
        BY <1>1, <2>3, <2>11, <3>1, <3>2, <4>1, <4>2, <4>3
    <3>3. CASE s # idx
      <4>1. table.keys[s] # k
        BY <1>1, <2>2, <2>3, <2>8, <2>12, <3>3 DEF Holds, OneSlotPerKey
      <4>2. SumOver(input, RowsSoFar', table.keys[s]) = SumOver(input, RowsSoFar, table.keys[s])
        BY <2>1, <2>2, <4>1, SumOverFacts
      <4>3. table'.vals[s] = table.vals[s]
        BY <2>2, <2>3, <3>3
      <4> QED
        BY <2>3, <2>11, <3>1, <4>2, <4>3
    <3> QED
      BY <3>2, <3>3
  <2>13. Holds(input, Slot, table', RowsSoFar')
    BY <2>3, <2>8, <2>9, <2>11, <2>12 DEF Holds
  <2>14. HoldsRows'
    BY <1>1, <2>1, <2>13, HoldsStep
  <2>15. Probing'
    BY <1>4 DEF Probing
  <2>16. ProbeChains'
    BY <1>1, <1>2, <2>3 DEF ProbeChains
  <2> QED
    BY <2>6, <2>7, <2>14, <2>15, <2>16
<1>5. \/ pc' = "panicked" /\ UNCHANGED <<table, row>>
      \/ /\ table' = [table EXCEPT !.vals[idx] = Wrap(@ + v)]
         /\ row' = row + 1 /\ pc' = "scan"
  BY DEF Accumulate
<1> QED
  BY <1>3, <1>4, <1>5

\* A stuttering step.
LEMMA StutterAInv == AInv /\ UNCHANGED vars => AInv'
<1> SUFFICES ASSUME AInv, UNCHANGED vars
             PROVE  AInv'
  OBVIOUS
<1> USE DEF AInv, callVars, vars
<1>1. Slot' = Slot /\ Batch' = Batch /\ Capacity' = Capacity
  BY SameSlots DEF Batch
<1>2. Types'
  BY <1>1 DEF Types, TableType
<1>3. InBatch'
  BY <1>1 DEF InBatch
<1>4. HoldsRows'
  BY HoldsRowsKept DEF RowsSoFar
<1>5. \A e : ProbedSlot(e)' = ProbedSlot(e)
  BY <1>1 DEF ProbedSlot
<1>6. Probing'
  BY <1>1, <1>5 DEF Probing
<1>7. ProbeChains'
  BY ChainsKept
<1> QED
  BY <1>2, <1>3, <1>4, <1>6, <1>7

\* Every step keeps the invariant.
LEMMA NextAInv == AInv /\ [Next]_vars => AInv'
  BY SkipRowAInv, BeginInsertAInv, InsertHereAInv, AccumulateAInv, CollideAInv,
     FinishTableAInv, MergeAInv, StutterAInv DEF Next

(***************************************************************************)
(* The invariant holds in every reachable state.                           *)
(***************************************************************************)
THEOREM Invariant == Spec => []AInv
  BY InitAInv, NextAInv, PTL DEF Spec

(***************************************************************************)
(* Type correctness; len counts the occupied slots, and there are no more  *)
(* than the capacity.                                                      *)
(***************************************************************************)
LEMMA OccupiedFits ==
    ASSUME Types
    PROVE  /\ IsFiniteSet(Slot) /\ Cardinality(Slot) = Capacity
           /\ IsFiniteSet({s \in Slot : table.occupied[s]})
           /\ Cardinality({s \in Slot : table.occupied[s]}) \in 0 .. Capacity
           /\ Cardinality({s \in Slot : table.occupied[s]}) = Capacity
                => {s \in Slot : table.occupied[s]} = Slot
<1> DEFINE S == {s \in Slot : table.occupied[s]}
<1>1. Capacity \in Nat \ {0} /\ Slot = 0 .. Capacity - 1
  BY InputFacts DEF Slot
<1>2. IsFiniteSet(Slot) /\ Cardinality(Slot) = Capacity
  BY <1>1, FS_Interval
<1>3. S \in SUBSET Slot
  OBVIOUS
<1> HIDE DEF S
<1>4. /\ IsFiniteSet(S) /\ Cardinality(S) <= Cardinality(Slot)
      /\ Cardinality(Slot) = Cardinality(S) => Slot = S
  BY <1>2, <1>3, FS_Subset
<1>5. Cardinality(S) \in Nat
  BY <1>4, FS_CardinalityType
<1>6. /\ IsFiniteSet(S) /\ Cardinality(S) \in 0 .. Capacity
      /\ Cardinality(S) = Capacity => S = Slot
  BY <1>1, <1>2, <1>4, <1>5
<1> QED
  BY <1>2, <1>6 DEF S

\* Every variable of the arena engine keeps its type: in particular len never
\* exceeds the capacity and idx is always a slot.
THEOREM TypeCorrect == Spec => []TypeOK
<1>1. AInv => TypeOK
  <2> SUFFICES ASSUME AInv
               PROVE  TypeOK
    OBVIOUS
  <2>1. Types
    BY DEF AInv
  <2>2. table.len \in 0 .. Capacity
    BY <2>1, OccupiedFits DEF Types
  <2>3. table \in [keys : [Slot -> Key],
                   vals : [Slot -> -IntBound .. IntBound - 1],
                   occupied : [Slot -> BOOLEAN],
                   len : 0 .. Capacity]
    <3>1. table \in TableType
      BY <2>1 DEF Types
    <3> QED
      BY <2>2, <3>1 DEF TableType
  <2> QED
    BY <2>1, <2>3 DEF Types, TypeOK
<1> QED
  BY <1>1, Invariant, PTL

(***************************************************************************)
(* Every key sits in one slot, and no slot before it in its probe sequence *)
(* is free: insert_or_add never splits a group over two slots.             *)
(***************************************************************************)
THEOREM ChainsWhole == Spec => []ProbeChains
<1>1. AInv => ProbeChains
  BY DEF AInv
<1> QED
  BY <1>1, Invariant, PTL

(***************************************************************************)
(* At most as many keys as were asked for fill at most three quarters of   *)
(* the table, and leave a free slot for a probe to end at.                 *)
(***************************************************************************)
THEOREM LoadBounded == Spec => []LoadBelowThreeQuarters
<1>1. AInv => LoadBelowThreeQuarters
  <2> SUFFICES ASSUME AInv, Len(tables) < Len(input), Cardinality(KeysSoFar) <= requested
               PROVE  /\ 4 * Cardinality({s \in Slot : table.occupied[s]}) <= 3 * Capacity
                      /\ \E s \in Slot : ~table.occupied[s]
    BY DEF LoadBelowThreeQuarters
  <2> DEFINE S == {s \in Slot : table.occupied[s]}
             f == [s \in S |-> table.keys[s]]
  <2>1. Types /\ InBatch /\ Holds(input, Slot, table, RowsSoFar)
    BY DEF AInv, HoldsRows
  <2>2. /\ ThisBatch \in DOMAIN input /\ Batch = input[ThisBatch]
        /\ DOMAIN Batch = 1 .. Len(Batch) /\ Len(Batch) \in Nat
        /\ row \in 1 .. Len(Batch) + 1 /\ IsTable(input)
    BY <2>1, BatchFactsHere, InputFacts DEF InBatch
  <2>3. KeysOver(input, RowsSoFar) \subseteq KeysSoFar
    <3> SUFFICES ASSUME NEW p \in RowsSoFar
                 PROVE  RowAt(input, p).key \in KeysSoFar
      BY DEF KeysOver
    <3>1. p \in Rows(input) /\ Passes(RowAt(input, p)) /\ p[1] = ThisBatch /\ p[2] <= row - 1
      BY DEF RowsSoFar, PassingUpto, PassingOf, PassingRows, ThisBatch
    <3>2. p[2] \in DOMAIN Batch /\ RowAt(input, p) = Batch[p[2]]
      BY <2>2, <3>1, RowFacts DEF RowAt
    <3>3. p[2] \in EvaluatePredicate(Batch) /\ p[2] \in 1 .. row - 1
      BY <2>2, <3>1, <3>2 DEF EvaluatePredicate
    <3> QED
      BY <3>2, <3>3 DEF KeysSoFar
  <2>4. IsFiniteSet(KeysSoFar)
    <3>1. IsFiniteSet(1 .. row - 1)
      BY <2>2, FS_Interval
    <3> DEFINE T == EvaluatePredicate(Batch) \cap (1 .. row - 1)
               g == [i \in T |-> Batch[i].key]
    <3>2. IsFiniteSet(T)
      BY <3>1, FS_Subset
    <3>3. g \in Surjection(T, KeysSoFar)
      BY DEF Surjection, KeysSoFar
    <3> HIDE DEF T, g
    <3> QED
      BY <3>2, <3>3, FS_Surjection
  <2>5. f \in Injection(S, KeysSoFar)
    <3>1. \A s \in S : table.keys[s] \in KeysSoFar
      BY <2>1, <2>3 DEF Holds
    <3>2. \A s, t \in S : table.keys[s] = table.keys[t] => s = t
      BY <2>1 DEF Holds, OneSlotPerKey
    <3> QED
      BY <3>1, <3>2 DEF Injection, IsInjective
  <2> HIDE DEF f
  <2>6. /\ Cardinality(S) \in Nat /\ IsFiniteSet(S)
        /\ Cardinality(S) \in 0 .. Capacity /\ (S = Slot => Cardinality(S) = Capacity)
    <3>1. IsFiniteSet(S) /\ Cardinality(S) \in 0 .. Capacity /\ Cardinality(Slot) = Capacity
      BY <2>1, OccupiedFits, Zenon
    <3>2. Capacity \in Nat
      BY <2>1, InputFacts
    <3> HIDE DEF S
    <3> QED
      BY <3>1, <3>2
  <2> HIDE DEF S
  <2>7. Cardinality(S) <= Cardinality(KeysSoFar) /\ Cardinality(KeysSoFar) \in Nat
    BY <2>4, <2>5, FS_Injection, FS_CardinalityType
  <2>8. requested \in Nat /\ requested > 0
        /\ Capacity \in Nat \ {0} /\ 3 * Capacity >= 4 * requested
    BY <2>1, ArenaAssumption, CapacityFacts DEF Types
  <2>9. 4 * Cardinality(S) <= 3 * Capacity /\ Cardinality(S) < Capacity
    BY <2>6, <2>7, <2>8
  <2>10. S # Slot
    BY <2>6, <2>8, <2>9
  <2> QED
    BY <2>9, <2>10 DEF S
<1> QED
  BY <1>1, Invariant, PTL

-----------------------------------------------------------------------------
(***************************************************************************)
(* merge_arena_tables: the sums over the first tables are, up to wrapping, *)
(* the sums over the passing rows of the first batches.                    *)
(***************************************************************************)
RowsOfFirst(n) == {p \in PassingRows(input) : p[1] <= n}

EntryVals == [e \in Entries |-> tables[e[1]].vals[e[2]]]

\* The entries of table j for the key k: one or none.
EntriesOf(j, k) == {e \in Entries : e[1] = j /\ KeyOf(e) = k}

\* The entries that merge_arena_tables iterates over: finitely many slots.
LEMMA EntryFacts ==
    ASSUME Types
    PROVE  /\ IsFiniteSet(Entries) /\ Ints(EntryVals, Entries)
           /\ \A e \in Entries : /\ e = <<e[1], e[2]>> /\ e[1] \in DOMAIN tables
                                 /\ e[2] \in Slot /\ tables[e[1]].occupied[e[2]]
           /\ \A j \in DOMAIN tables, s \in Slot :
                 tables[j].occupied[s] => <<j, s>> \in Entries
<1>1. /\ Capacity \in Nat \ {0} /\ Slot = 0 .. Capacity - 1
      /\ Len(tables) \in Nat /\ DOMAIN tables = 1 .. Len(tables)
  BY InputFacts DEF Slot
<1>2. IsFiniteSet(DOMAIN tables) /\ IsFiniteSet(Slot)
  BY <1>1, FS_Interval
<1>3. IsFiniteSet(Entries)
  <2>1. IsFiniteSet((DOMAIN tables) \X Slot)
    BY <1>2, FS_Product
  <2> QED
    BY <2>1, FS_Subset DEF Entries
<1>4. \A e \in Entries : /\ e = <<e[1], e[2]>> /\ e[1] \in DOMAIN tables
                         /\ e[2] \in Slot /\ tables[e[1]].occupied[e[2]]
  BY DEF Entries
<1>5. \A j \in DOMAIN tables : tables[j] \in TableType
  <2> DEFINE type == TableType
  <2>1. tables \in Seq(type)
    BY DEF Types
  <2> HIDE DEF type
  <2>2. \A j \in DOMAIN tables : tables[j] \in type
    BY <1>1, <2>1
  <2> QED
    BY <2>2 DEF type
<1>6. Ints(EntryVals, Entries)
  <2> SUFFICES ASSUME NEW e \in Entries
               PROVE  EntryVals[e] \in Int
    BY DEF Ints
  <2>1. tables[e[1]] \in TableType /\ e[2] \in Slot
    BY <1>4, <1>5
  <2>2. tables[e[1]].vals[e[2]] \in -IntBound .. IntBound - 1
    BY <2>1 DEF TableType
  <2> QED
    BY <2>2 DEF EntryVals
<1>7. \A j \in DOMAIN tables, s \in Slot : tables[j].occupied[s] => <<j, s>> \in Entries
  BY DEF Entries
<1> QED
  BY <1>3, <1>4, <1>6, <1>7

\* The entries of one table with a key: one at most, with the batch's sum.
LEMMA OneTable ==
    ASSUME AInv, NEW j \in DOMAIN tables, j \in DOMAIN input, NEW k
    PROVE  SumFunctionOnSet(EntryVals, EntriesOf(j, k)) =
               Wrap(SumOver(input, PassingOf(input, j), k))
<1> DEFINE P == PassingOf(input, j)
<1>1. Types /\ IsTable(input) /\ Holds(input, Slot, tables[j], P)
  BY InputFacts DEF AInv, HoldsRows
<1>2. P \in SUBSET Rows(input)
  BY DEF PassingOf, PassingRows
<1>3. /\ IsFiniteSet(Entries) /\ Ints(EntryVals, Entries)
      /\ EntriesOf(j, k) \in SUBSET Entries
  BY <1>1, EntryFacts DEF EntriesOf
<1>4. SumFunctionOnSet(EntryVals, {}) = 0 /\ SumsOf(EntryVals, EntriesOf(j, k))
  BY <1>3, SumFacts
<1> HIDE DEF P
<1>5. CASE k \in KeysOver(input, P)
  <2>1. PICK s \in Slot : tables[j].occupied[s] /\ tables[j].keys[s] = k
    BY <1>1, <1>5 DEF Holds
  <2> DEFINE e == <<j, s>>
  <2>2. e \in Entries /\ e[1] = j /\ e[2] = s /\ KeyOf(e) = k
    BY <1>1, <2>1, EntryFacts DEF KeyOf
  <2>3. EntriesOf(j, k) = {e}
    <3>1. ASSUME NEW d \in EntriesOf(j, k) PROVE d = e
      <4>1. /\ d = <<j, d[2]>> /\ d[2] \in Slot /\ tables[j].occupied[d[2]]
            /\ tables[j].keys[d[2]] = k
        BY <1>1, <3>1, EntryFacts DEF EntriesOf, KeyOf
      <4>2. d[2] = s
        BY <1>1, <2>1, <4>1 DEF Holds, OneSlotPerKey
      <4> QED
        BY <4>1, <4>2
    <3> QED
      BY <2>2, <3>1 DEF EntriesOf
  <2>4. EntryVals[e] = tables[j].vals[s]
    BY <2>2 DEF EntryVals
  <2>5. tables[j].vals[s] = Wrap(SumOver(input, P, k))
    BY <1>1, <2>1 DEF Holds
  <2>6. EntryVals[e] \in Int
    BY <1>3, <2>2 DEF Ints
  <2> HIDE DEF e
  <2>7. SumFunctionOnSet(EntryVals, {e}) = EntryVals[e] + SumFunctionOnSet(EntryVals, {e} \ {e})
    BY <1>4, <2>3 DEF SumsOf
  <2>8. {e} \ {e} = {}
    OBVIOUS
  <2>9. SumFunctionOnSet(EntryVals, {e}) = EntryVals[e]
    BY <1>4, <2>6, <2>7, <2>8
  <2> QED
    BY <2>3, <2>4, <2>5, <2>9 DEF P
<1>6. CASE k \notin KeysOver(input, P)
  <2>1. EntriesOf(j, k) = {}
    <3> SUFFICES ASSUME NEW d \in EntriesOf(j, k)
                 PROVE  FALSE
      OBVIOUS
    <3>1. d[2] \in Slot /\ tables[j].occupied[d[2]] /\ tables[j].keys[d[2]] = k
      BY <1>1, EntryFacts DEF EntriesOf, KeyOf
    <3> QED
      BY <1>1, <1>6, <3>1 DEF Holds
  <2>2. SumOver(input, P, k) = 0
    BY <1>1, <1>2, <1>6, SumOverFacts
  <2>3. Wrap(0) = 0
    BY IntBoundAssumption, WrapFits DEF InRange
  <2> QED
    BY <1>4, <2>1, <2>2, <2>3 DEF P
<1> QED
  BY <1>5, <1>6

\* One more summand, wrapped or not.
LEMMA WrapNext ==
    ASSUME NEW a \in Int, NEW b \in Int, NEW x \in Int, Wrap(a) = Wrap(x)
    PROVE  Wrap(a + Wrap(b)) = Wrap(x + b)
<1>1. Wrap(b) \in Int
  BY WrapInRange
<1>2. Wrap(Wrap(a) + Wrap(b)) = Wrap(a + Wrap(b))
  BY <1>1, WrapPlus
<1>3. Wrap(Wrap(x) + Wrap(b)) = Wrap(x + b)
  BY WrapSum
<1> QED
  BY <1>2, <1>3

\* The tables add up, table by table, to the sum over all rows.
LEMMA FirstTables ==
    ASSUME AInv, Len(tables) = Len(input)
    PROVE  \A k : Wrap(SumOfFirst(Len(tables), k)) = Wrap(SumOver(input, PassingRows(input), k))
<1> DEFINE n == Len(tables)
           Upto(i, k) == {e \in Entries : e[1] <= i /\ KeyOf(e) = k}
           N == {i \in 0 .. n : \A k : Wrap(SumOfFirst(i, k)) =
                                       Wrap(SumOver(input, RowsOfFirst(i), k))}
<1>1. /\ Types /\ IsTable(input) /\ n \in Nat
      /\ DOMAIN tables = 1 .. n /\ DOMAIN input = 1 .. n
  BY InputFacts DEF AInv
<1>2. /\ IsFiniteSet(Entries) /\ Ints(EntryVals, Entries)
      /\ \A e \in Entries : e[1] \in 1 .. n
  BY <1>1, EntryFacts
<1>3. \A i, k : /\ SumOfFirst(i, k) = SumFunctionOnSet(EntryVals, Upto(i, k))
                /\ Upto(i, k) \in SUBSET Entries
                /\ SumOfFirst(i, k) \in Int
  <2> SUFFICES ASSUME NEW i, NEW k
               PROVE  /\ SumOfFirst(i, k) = SumFunctionOnSet(EntryVals, Upto(i, k))
                      /\ Upto(i, k) \in SUBSET Entries
                      /\ SumOfFirst(i, k) \in Int
    OBVIOUS
  <2>1. SumOfFirst(i, k) = SumFunctionOnSet(EntryVals, Upto(i, k))
    BY DEF SumOfFirst, EntryVals
  <2>2. Upto(i, k) \in SUBSET Entries
    OBVIOUS
  <2> HIDE DEF Upto
  <2>3. SumsOf(EntryVals, Upto(i, k))
    BY <1>2, <2>2, SumFacts
  <2> QED
    BY <2>1, <2>2, <2>3 DEF SumsOf
<1>4. \A p \in PassingRows(input) : p \in Rows(input) /\ p[1] \in 1 .. n
  BY <1>1, RowFacts DEF PassingRows
<1>5. 0 \in N
  <2> SUFFICES ASSUME NEW k
               PROVE  Wrap(SumOfFirst(0, k)) = Wrap(SumOver(input, RowsOfFirst(0), k))
    BY <1>1
  <2>1. Upto(0, k) = {} /\ RowsOfFirst(0) = {}
    BY <1>2, <1>4 DEF RowsOfFirst
  <2>2. SumOfFirst(0, k) = 0
    <3>1. SumFunctionOnSet(EntryVals, {}) = 0
      BY <1>2, SumFacts
    <3> HIDE DEF Upto
    <3> QED
      BY <1>3, <2>1, <3>1
  <2>3. SumOver(input, {}, k) = 0
    BY <1>1, SumOverFacts DEF KeysOver
  <2> QED
    BY <2>1, <2>2, <2>3
<1>6. ASSUME NEW i \in 0 .. n - 1, i \in N PROVE i + 1 \in N
  <2>1. i \in Nat /\ i + 1 \in 1 .. n /\ i + 1 \in 0 .. n
    BY <1>1
  <2> SUFFICES ASSUME NEW k
               PROVE  Wrap(SumOfFirst(i + 1, k)) = Wrap(SumOver(input, RowsOfFirst(i + 1), k))
    BY <2>1
  <2> DEFINE E == EntriesOf(i + 1, k)
             F == Upto(i, k)
             P == PassingOf(input, i + 1)
             R == RowsOfFirst(i)
  <2>2. Upto(i + 1, k) = F \cup E /\ F \cap E = {} /\ E \in SUBSET Entries
    BY <1>2, <2>1 DEF EntriesOf
  <2>3. RowsOfFirst(i + 1) = R \cup P /\ R \cap P = {}
        /\ R \in SUBSET Rows(input) /\ P \in SUBSET Rows(input)
    BY <1>4, <2>1 DEF RowsOfFirst, PassingOf
  <2>4. Wrap(SumOfFirst(i, k)) = Wrap(SumOver(input, R, k))
    BY <1>6
  <2>5. SumFunctionOnSet(EntryVals, E) = Wrap(SumOver(input, P, k))
    BY <1>1, <2>1, OneTable
  <2>6. SumOfFirst(i, k) = SumFunctionOnSet(EntryVals, F) /\ F \in SUBSET Entries
        /\ SumOfFirst(i, k) \in Int
        /\ SumOfFirst(i + 1, k) = SumFunctionOnSet(EntryVals, Upto(i + 1, k))
    <3> HIDE DEF Upto
    <3> QED
      BY <1>3
  <2> HIDE DEF E, F, P, R, Upto
  <2>7. SumFunctionOnSet(EntryVals, F \cup E) =
            SumFunctionOnSet(EntryVals, F) + SumFunctionOnSet(EntryVals, E)
    BY <1>2, <2>2, <2>6, SumDisjoint
  <2>8. SumOver(input, R \cup P, k) = SumOver(input, R, k) + SumOver(input, P, k)
    BY <1>1, <2>3, SumOverUnion
  <2>9. SumOver(input, R, k) \in Int /\ SumOver(input, P, k) \in Int
    BY <1>1, <2>3, SumOverFacts
  <2>10. SumOfFirst(i + 1, k) = SumOfFirst(i, k) + Wrap(SumOver(input, P, k))
    BY <2>2, <2>5, <2>6, <2>7
  <2>11. Wrap(SumOfFirst(i, k) + Wrap(SumOver(input, P, k)))
            = Wrap(SumOver(input, R, k) + SumOver(input, P, k))
    BY <2>4, <2>6, <2>9, WrapNext
  <2> QED
    BY <2>3, <2>8, <2>10, <2>11
<1>7. 0 .. n \subseteq N
  <2> HIDE DEF N
  <2> QED
    BY <1>1, <1>5, <1>6, UpTo
<1>8. RowsOfFirst(n) = PassingRows(input)
  BY <1>1, <1>4 DEF RowsOfFirst
<1>9. n \in N
  <2> HIDE DEF N
  <2> QED
    BY <1>1, <1>7
<1> QED
  BY <1>8, <1>9

\* What merge_arena_tables returns is the query's answer.
LEMMA MergeIsAnswer ==
    ASSUME AInv, Len(tables) = Len(input)
    PROVE  MergeArenaTables = Answer(input)
<1>1. /\ Types /\ IsTable(input) /\ DOMAIN tables = DOMAIN input
  BY InputFacts DEF AInv
<1>2. {KeyOf(e) : e \in Entries} = KeysOver(input, PassingRows(input))
  <2>1. ASSUME NEW e \in Entries PROVE KeyOf(e) \in KeysOver(input, PassingRows(input))
    <3>1. e[1] \in DOMAIN tables /\ e[2] \in Slot /\ tables[e[1]].occupied[e[2]]
      BY <1>1, EntryFacts
    <3>2. KeyOf(e) \in KeysOver(input, PassingOf(input, e[1]))
      BY <3>1 DEF AInv, HoldsRows, Holds, KeyOf
    <3> QED
      BY <3>2 DEF KeysOver, PassingOf
  <2>2. ASSUME NEW p \in PassingRows(input)
        PROVE  \E e \in Entries : KeyOf(e) = RowAt(input, p).key
    <3>1. p[1] \in DOMAIN tables /\ p \in PassingOf(input, p[1])
      BY <1>1, RowFacts DEF PassingRows, PassingOf
    <3>2. RowAt(input, p).key \in KeysOver(input, PassingOf(input, p[1]))
      BY <3>1 DEF KeysOver
    <3>3. PICK s \in Slot : /\ tables[p[1]].occupied[s]
                            /\ tables[p[1]].keys[s] = RowAt(input, p).key
      BY <3>1, <3>2 DEF AInv, HoldsRows, Holds
    <3>4. <<p[1], s>> \in Entries /\ KeyOf(<<p[1], s>>) = RowAt(input, p).key
      BY <1>1, <3>1, <3>3, EntryFacts DEF KeyOf
    <3> QED
      BY <3>4
  <2> QED
    BY <2>1, <2>2 DEF KeysOver
<1>3. \A k : Wrap(SumOfFirst(Len(tables), k)) = Wrap(SumOver(input, PassingRows(input), k))
  BY FirstTables
<1>4. MergeArenaTables = AnswerOver(input, PassingRows(input))
  BY <1>2, <1>3 DEF MergeArenaTables, AnswerOver
<1> QED
  BY <1>4, AnswerIsOver

\* The abstract query's answer is the engine's.
LEMMA SameAnswer == \A t : Q!Answer(t) = Answer(t)
  BY DEF Q!Answer, Q!Groups, Q!ExactSum, Q!PassingRows, Q!Rows, Q!RowAt, Q!Passes, Q!Wrap,
         Q!SumFunctionOnSet, Q!FoldFunctionOnSet, Q!MapThenFoldSet,
         Answer, Groups, ExactSum, PassingRows, Rows, RowAt, Passes, Wrap,
         SumFunctionOnSet, FoldFunctionOnSet, MapThenFoldSet

(***************************************************************************)
(* The arena-backed aggregation returns nothing but the query's answer,    *)
(* and once: the safety half of ImplementsQuery.                           *)
(***************************************************************************)
THEOREM Refinement == Spec => Q!Spec
<1>1. Init => Q!Init
  BY DEF Init, Q!Init
<1>2. AInv /\ [Next]_vars => [Q!Return]_(Q!vars)
  <2> SUFFICES ASSUME AInv, [Next]_vars, ~UNCHANGED Q!vars
               PROVE  Q!Return
    OBVIOUS
  <2>1. Merge /\ answers' # answers
    BY DEF Next, SkipRow, BeginInsert, InsertHere, Accumulate, Collide, FinishTable, Merge,
           callVars, vars, Q!vars
  <2>2. /\ Len(tables) = Len(input) /\ answers' = {MergeArenaTables} /\ pc = "scan"
        /\ UNCHANGED input
    BY <2>1 DEF Merge, callVars
  <2>3. answers = {}
    BY <2>2 DEF AInv, InBatch
  <2> QED
    BY <2>2, <2>3, MergeIsAnswer, SameAnswer DEF Q!Return
<1> QED
  BY <1>1, <1>2, Invariant, PTL DEF Spec, Q!Spec
=============================================================================
