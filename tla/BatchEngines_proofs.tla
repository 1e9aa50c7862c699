------------------------- MODULE BatchEngines_proofs -------------------------
(***************************************************************************)
(* Theorems about the engines that fold whole batches, for tables of every *)
(* length: their maps add up to the query's answer for the batches folded  *)
(* so far, they return the query's answer only, no sum of it wrapped in a  *)
(* build with overflow checks, and an instrumented one has one sample per  *)
(* batch and stage.                                                        *)
(***************************************************************************)
EXTENDS BatchEngines, GroupBy_proofs

-----------------------------------------------------------------------------
(***************************************************************************)
(* The latency buffer, for every set of samples and every capacity.        *)
(***************************************************************************)
(***************************************************************************)
(* with_capacity, record and reset keep idx within the array, so that the  *)
(* unchecked write of record and the slice of finish are in bounds.        *)
(***************************************************************************)
THEOREM StaysInBounds ==
    ASSUME NEW Cycles, 0 \in Cycles,
           NEW buf \in Buffers(Cycles), NEW c \in Cycles, NEW n \in Nat
    PROVE  /\ WithCapacity(n) \in Buffers(Cycles)
           /\ Record(buf, c) \in Buffers(Cycles)
           /\ Reset(buf) \in Buffers(Cycles)
<1> USE DEF Buffers
<1>1. [i \in 1 .. n |-> 0] \in Seq(Cycles) /\ Len([i \in 1 .. n |-> 0]) = n
  OBVIOUS
<1>2. WithCapacity(n) \in Buffers(Cycles)
  BY <1>1 DEF WithCapacity
<1>3. Record(buf, c) \in Buffers(Cycles)
  <2>1. CASE buf.idx < Len(buf.samples)
    BY <2>1 DEF Record
  <2>2. CASE ~(buf.idx < Len(buf.samples))
    BY <2>2 DEF Record
  <2> QED
    BY <2>1, <2>2
<1>4. Reset(buf) \in Buffers(Cycles)
  BY DEF Reset
<1> QED
  BY <1>2, <1>3, <1>4

(***************************************************************************)
(* record appends one sample to what finish returns, whether it overwrites *)
(* what an earlier run left in the array or falls back to a push.          *)
(***************************************************************************)
THEOREM RecordAppends ==
    ASSUME NEW Cycles, NEW buf \in Buffers(Cycles), NEW c \in Cycles
    PROVE  Finish(Record(buf, c)) = Append(Finish(buf), c)
<1> DEFINE s == buf.samples
           k == buf.idx
           t == Record(buf, c).samples
<1>1. s \in Seq(Cycles) /\ k \in Nat /\ k <= Len(s)
  BY DEF Buffers
<1>2. Record(buf, c).idx = k + 1
  BY DEF Record
<1>3. t \in Seq(Cycles) /\ k + 1 <= Len(t) /\ t[k + 1] = c
      /\ \A i \in 1 .. k : t[i] = s[i]
  <2>1. CASE k < Len(s)
    <3>1. t = [s EXCEPT ![k + 1] = c]
      BY <2>1 DEF Record
    <3> HIDE DEF s, k, t
    <3> QED
      BY <1>1, <2>1, <3>1
  <2>2. CASE k = Len(s)
    <3>1. t = Append(s, c)
      BY <1>1, <2>2 DEF Record
    <3> HIDE DEF s, k, t
    <3> QED
      BY <1>1, <2>2, <3>1
  <2> QED
    BY <1>1, <2>1, <2>2
<1>4. Finish(Record(buf, c)) = SubSeq(t, 1, k + 1) /\ Finish(buf) = SubSeq(s, 1, k)
  BY <1>2 DEF Finish
<1> HIDE DEF s, k, t
<1>5. SubSeq(t, 1, k + 1) = Append(SubSeq(s, 1, k), c)
  <2>1. SubSeq(s, 1, k) \in Seq(Cycles) /\ Len(SubSeq(s, 1, k)) = k
        /\ \A i \in 1 .. k : SubSeq(s, 1, k)[i] = s[i]
    BY <1>1
  <2>2. SubSeq(t, 1, k + 1) \in Seq(Cycles) /\ Len(SubSeq(t, 1, k + 1)) = k + 1
        /\ \A i \in 1 .. k + 1 : SubSeq(t, 1, k + 1)[i] = t[i]
    BY <1>1, <1>3
  <2> QED
    BY <1>1, <1>3, <2>1, <2>2
<1> QED
  BY <1>4, <1>5

(***************************************************************************)
(* A new buffer and a reset one are empty, and record allocates only when  *)
(* the array is full.                                                      *)
(***************************************************************************)
THEOREM ResetEmpties ==
    ASSUME NEW Cycles, NEW buf \in Buffers(Cycles), NEW n \in Nat
    PROVE  Finish(Reset(buf)) = <<>> /\ Finish(WithCapacity(n)) = <<>>
<1>1. Finish(Reset(buf)) = SubSeq(buf.samples, 1, 0) /\ buf.samples \in Seq(Cycles)
  BY DEF Buffers, Finish, Reset
<1>2. Finish(WithCapacity(n)) = SubSeq([i \in 1 .. n |-> 0], 1, 0)
  BY DEF Finish, WithCapacity
<1> QED
  BY <1>1, <1>2

\* Recording below the capacity does not grow the vector: no allocation
\* inside the timed region, which is what the buffer is for.
THEOREM RecordStaysInPlace ==
    ASSUME NEW Cycles, NEW buf \in Buffers(Cycles), NEW c \in Cycles,
           buf.idx < Capacity(buf)
    PROVE  Capacity(Record(buf, c)) = Capacity(buf)
<1>1. buf.samples \in Seq(Cycles)
  BY DEF Buffers
<1> QED
  BY <1>1 DEF Capacity, Record

-----------------------------------------------------------------------------
\* The samples of batches 1 .. n, in an array as long as the table.
Recorded(buf, n) ==
    /\ buf \in Buffers(Nat)
    /\ buf.idx = n
    /\ Finish(buf) = [b \in 1 .. n |-> b]
    /\ Capacity(buf) = Len(input)

(***************************************************************************)
(* The inductive invariant: an instrumented engine folds in one piece, so  *)
(* the batches folded are the first n, and those are the samples it has.   *)
(***************************************************************************)
Measured(n) ==
    /\ folded = 1 .. n
    /\ Recorded(lat.predicate, n)
    /\ Recorded(lat.aggregate, IF engine = "timed naive" THEN 0 ELSE n)

IInv ==
    /\ input \in Inputs
    /\ engine \in Timed =>
          /\ piece = [b \in DOMAIN input |-> 1]
          /\ \E p, a \in Buffers(Nat) :
                lat = [predicate |-> p, aggregate |-> a, merge |-> WithCapacity(16)]
          /\ \E n \in 0 .. Len(input) : Measured(n)

\* An input is a sequence of batches.
LEMMA InputFacts ==
    ASSUME input \in Inputs
    PROVE  Len(input) \in Nat /\ DOMAIN input = 1 .. Len(input)
  BY BatchEnginesAssumption

\* One more sample in the buffer.
LEMMA RecordNext ==
    ASSUME input \in Inputs, NEW n \in Nat, n < Len(input),
           NEW buf, Recorded(buf, n)
    PROVE  Recorded(Record(buf, n + 1), n + 1)
<1>1. buf \in Buffers(Nat) /\ n + 1 \in Nat /\ buf.idx < Capacity(buf)
  BY DEF Recorded
<1>2. Record(buf, n + 1) \in Buffers(Nat)
  BY <1>1, StaysInBounds
<1>3. Capacity(Record(buf, n + 1)) = Len(input)
  BY <1>1, RecordStaysInPlace DEF Recorded
<1>4. Finish(Record(buf, n + 1)) = Append([b \in 1 .. n |-> b], n + 1)
  BY <1>1, RecordAppends DEF Recorded
<1>5. Append([b \in 1 .. n |-> b], n + 1) = [b \in 1 .. n + 1 |-> b]
  OBVIOUS
<1>6. Record(buf, n + 1).idx = n + 1
  BY DEF Record, Recorded
<1> QED
  BY <1>2, <1>3, <1>4, <1>5, <1>6 DEF Recorded

\* The invariant holds initially: the buffer is empty, or its capacity fixed.
LEMMA Initially == Init => IInv
<1> SUFFICES ASSUME Init, engine \in Timed PROVE IInv
  BY DEF Init, IInv
<1>1. input \in Inputs /\ Len(input) \in Nat /\ DOMAIN input = 1 .. Len(input)
  BY InputFacts DEF Init
<1>2. piece = [b \in DOMAIN input |-> 1]
  BY DEF Init, Timed
<1>3. \A m \in Nat : WithCapacity(m) \in Buffers(Nat)
  BY DEF Buffers, WithCapacity
<1>4. lat = StageLatency(Len(input)) /\ folded = {}
  BY DEF Init
<1>5. Recorded(WithCapacity(Len(input)), 0)
  <2>1. Finish(WithCapacity(Len(input))) = <<>>
    BY <1>1 DEF Finish, WithCapacity
  <2>2. WithCapacity(Len(input)).idx = 0 /\ Capacity(WithCapacity(Len(input))) = Len(input)
    BY <1>1 DEF WithCapacity, Capacity
  <2>3. [b \in 1 .. 0 |-> b] = <<>>
    OBVIOUS
  <2> QED
    BY <1>1, <1>3, <2>1, <2>2, <2>3 DEF Recorded
<1>6. Measured(0)
  BY <1>4, <1>5 DEF Measured, StageLatency
<1>7. \E p, a \in Buffers(Nat) :
         lat = [predicate |-> p, aggregate |-> a, merge |-> WithCapacity(16)]
  BY <1>1, <1>3, <1>4 DEF StageLatency
<1> QED
  BY <1>1, <1>2, <1>6, <1>7 DEF IInv

\* A turn of an instrumented engine's loop is at the batch after the last.
LEMMA NextBatch ==
    ASSUME IInv, engine \in Timed, NEW n \in 0 .. Len(input), folded = 1 .. n,
           NEW b \in DOMAIN input, IsNext(b)
    PROVE  b = n + 1 /\ n \in Nat /\ n < Len(input) /\ folded \cup {b} = 1 .. n + 1
<1>1. Len(input) \in Nat /\ DOMAIN input = 1 .. Len(input)
  BY InputFacts DEF IInv
<1>2. \A c \in 1 .. b - 1 : c \in 1 .. n
  BY <1>1 DEF IInv, IsNext
<1>3. b \in Nat /\ b > n
  BY <1>1 DEF IsNext
<1>4. b - 1 <= n
  <2>1. CASE b = 1
    BY <1>1, <2>1
  <2>2. CASE b > 1
    BY <1>1, <1>2, <2>2, b - 1 \in 1 .. b - 1
  <2> QED
    BY <1>1, <2>1, <2>2
<1> QED
  BY <1>1, <1>3, <1>4

\* Every action keeps it, a batch at a time.
LEMMA Step == IInv /\ [Next]_vars => IInv'
<1> SUFFICES ASSUME IInv, [Next]_vars PROVE IInv'
  OBVIOUS
<1>1. ASSUME NEW b \in DOMAIN input,
             TimedNaive(b) \/ TimedEarly(b) \/ TimedLate(b)
      PROVE  IInv'
  <2> DEFINE m(k) == IF engine = "timed naive" THEN 0 ELSE k
  <2>1. /\ engine \in Timed /\ IsNext(b)
        /\ folded' = folded \cup {b} /\ UNCHANGED <<input, engine, piece>>
    BY <1>1 DEF TimedNaive, TimedEarly, TimedLate, Fold, Timed, call
  <2>2. PICK n \in 0 .. Len(input) : Measured(n)
    BY <2>1 DEF IInv
  <2>3. b = n + 1 /\ n \in Nat /\ n < Len(input) /\ folded' = 1 .. n + 1
    BY <2>1, <2>2, NextBatch DEF Measured
  <2>4. PICK p, a \in Buffers(Nat) :
            lat = [predicate |-> p, aggregate |-> a, merge |-> WithCapacity(16)]
    BY <2>1 DEF IInv
  <2>5. lat' = [predicate |-> Record(p, b),
                aggregate |-> IF engine = "timed naive" THEN a ELSE Record(a, b),
                merge |-> WithCapacity(16)]
    BY <1>1, <2>4 DEF TimedNaive, TimedEarly, TimedLate, RecordFilter, RecordStages
  <2>6. Recorded(p, n) /\ Recorded(a, IF engine = "timed naive" THEN 0 ELSE n)
    BY <2>2, <2>4 DEF Measured
  <2>7. Recorded(Record(p, b), n + 1)
    BY <2>3, <2>6, RecordNext DEF IInv
  <2>8. engine # "timed naive" => Recorded(Record(a, b), n + 1)
    BY <2>3, <2>6, RecordNext DEF IInv
  <2>9. Measured(n + 1)'
    BY <2>1, <2>3, <2>5, <2>6, <2>7, <2>8 DEF Measured, Recorded
  <2>10. /\ lat'.predicate \in Buffers(Nat) /\ lat'.aggregate \in Buffers(Nat)
         /\ lat' = [predicate |-> lat'.predicate, aggregate |-> lat'.aggregate,
                    merge |-> WithCapacity(16)]
    BY <2>5, <2>7, <2>8 DEF Recorded
  <2>11. n + 1 \in 0 .. Len(input)'
    BY <2>1, <2>3, InputFacts DEF IInv
  <2> QED
    BY <2>1, <2>9, <2>10, <2>11 DEF IInv
<1>2. ASSUME NEW b \in DOMAIN input, FoldNaive(b) \/ FoldEarly(b) \/ FoldLate(b)
      PROVE  IInv'
  BY <1>2 DEF FoldNaive, FoldEarly, FoldLate, Fold, IInv, Timed, call
<1>3. CASE Collect
  BY <1>3 DEF Collect, IInv, Measured, Recorded, call
<1>4. ASSUME (\E b \in DOMAIN input : PanicInFold(b)) \/ PanicInMerge
      PROVE  IInv'
  <2>1. Panic
    BY <1>4 DEF PanicInFold, PanicInMerge
  <2> QED
    BY <2>1 DEF Panic, IInv, Measured, Recorded, call
<1>5. CASE UNCHANGED vars
  BY <1>5 DEF vars, IInv, Measured, Recorded, call
<1> QED
  BY <1>1, <1>2, <1>3, <1>4, <1>5 DEF Next

(***************************************************************************)
(* Whatever the table, an instrumented engine has one sample per batch and *)
(* stage, in order, in buffers that have never grown.                      *)
(***************************************************************************)
THEOREM SamplesInOrder == Spec => []OneSamplePerBatch
<1>1. IInv => OneSamplePerBatch
  <2> SUFFICES ASSUME IInv, engine \in Timed PROVE OneSamplePerBatch
    BY DEF OneSamplePerBatch
  <2>1. PICK n \in 0 .. Len(input) : Measured(n)
    BY DEF IInv
  <2>2. n \in Nat
    BY InputFacts DEF IInv
  <2>3. folded = 1 .. n
    BY <2>1 DEF Measured
  <2>4. PICK p, a \in Buffers(Nat) :
            lat = [predicate |-> p, aggregate |-> a, merge |-> WithCapacity(16)]
    BY DEF IInv
  <2>5. Finish(lat.merge) = <<>>
    BY <2>4, ResetEmpties
  <2>6. [b \in 1 .. 0 |-> b] = <<>>
    OBVIOUS
  <2> QED
    BY <2>1, <2>3, <2>4, <2>5, <2>6 DEF OneSamplePerBatch, Measured, Recorded
<1> QED
  BY <1>1, Initially, Step, PTL DEF Spec

-----------------------------------------------------------------------------
(***************************************************************************)
(* The query's answer.                                                     *)
(***************************************************************************)
\* The passing rows of the batches of piece p folded so far.
FoldedRows(p) == {r \in PassingRows(input) : r[1] \in folded /\ piece[r[1]] = p}

(***************************************************************************)
(* The inductive invariant: the map of a piece is the answer over the rows *)
(* of its folded batches, no two pieces have a row in common, and with     *)
(* overflow checks no sum of a piece has wrapped.                          *)
(***************************************************************************)
FoldInv ==
    /\ input \in Inputs
    /\ engine \in Sequential \cup {"parallel"}
    /\ debug \in BOOLEAN
    /\ status \in {"running", "returned", "panicked"}
    /\ piece \in [DOMAIN input -> Pieces]
    /\ engine # "parallel" => \A b \in DOMAIN input : piece[b] = 1
    /\ folded \subseteq DOMAIN input
    /\ maps = [p \in Pieces |-> AnswerOver(input, FoldedRows(p))]
    /\ debug => \A p \in Pieces : Exact(input, FoldedRows(p))
    /\ answers = {} \/ answers = {Answer(input)}
    /\ status # "returned" => answers = {}
    /\ debug /\ answers # {} => Exact(input, PassingRows(input))
    /\ engine \notin Timed => lat = NoLatency

\* An input is a table.
LEMMA InputIsTable == input \in Inputs => IsTable(input)
  BY BatchEnginesAssumption DEF IsTable

\* Before the first batch every piece has the answer over no rows.
LEMMA FoldInitially == Init => FoldInv
<1> SUFFICES ASSUME Init PROVE FoldInv
  OBVIOUS
<1>1. Len(input) \in Nat /\ DOMAIN input = 1 .. Len(input)
  BY InputFacts DEF Init
<1>2. piece \in [DOMAIN input -> Pieces]
      /\ (engine # "parallel" => \A b \in DOMAIN input : piece[b] = 1)
  <2>1. CASE engine = "parallel"
    BY <1>1, <2>1 DEF Init, Splits
  <2>2. CASE engine # "parallel"
    <3>1. 1 \in Pieces
      BY BatchEnginesAssumption DEF Pieces
    <3> QED
      BY <2>2, <3>1 DEF Init
  <2> QED
    BY <2>1, <2>2
<1>3. maps = [p \in Pieces |-> AnswerOver(input, FoldedRows(p))]
  <2>1. \A p \in Pieces : FoldedRows(p) = {}
    BY DEF Init, FoldedRows
  <2>2. \A p \in Pieces : AnswerOver(input, FoldedRows(p)) = EmptyMap
    BY <2>1, OverNothing
  <2> QED
    BY <2>2 DEF Init
<1>4. \A p \in Pieces : Exact(input, FoldedRows(p))
  <2>1. \A p \in Pieces : FoldedRows(p) = {}
    BY DEF Init, FoldedRows
  <2>2. Exact(input, {})
    BY NothingExact, InputIsTable DEF Init
  <2> QED
    BY <2>1, <2>2
<1> QED
  BY <1>2, <1>3, <1>4 DEF Init, FoldInv

\* Folding a batch adds its passing rows to those of its piece.
LEMMA FoldAdds ==
    ASSUME FoldInv, NEW b \in DOMAIN input, b \notin folded,
           NEW map, map = AnswerOver(input, FoldedRows(piece[b]) \cup PassingOf(input, b)),
           maps' = [maps EXCEPT ![piece[b]] = map], folded' = folded \cup {b},
           UNCHANGED <<input, piece>>
    PROVE  maps' = [p \in Pieces |-> AnswerOver(input, FoldedRows(p))]'
<1>1. piece[b] \in Pieces
  BY DEF FoldInv
<1>2. ASSUME NEW p \in Pieces PROVE maps'[p] = AnswerOver(input, FoldedRows(p)')
  <2>1. CASE p = piece[b]
    <3>1. FoldedRows(p)' = FoldedRows(p) \cup PassingOf(input, b)
      BY <2>1 DEF FoldedRows, PassingOf
    <3>2. maps'[p] = map
      BY <1>1, <2>1 DEF FoldInv
    <3> QED
      BY <2>1, <3>1, <3>2, Zenon
  <2>2. CASE p # piece[b]
    <3>1. FoldedRows(p)' = FoldedRows(p)
      BY <2>2 DEF FoldedRows
    <3>2. maps'[p] = AnswerOver(input, FoldedRows(p))
      BY <2>2 DEF FoldInv
    <3> QED
      BY <3>1, <3>2, Zenon
  <2> QED
    BY <2>1, <2>2
<1>3. maps' = [p \in Pieces |-> AnswerOver(input, FoldedRows(p)')]
  BY <1>2 DEF FoldInv
<1> QED
  BY <1>3

\* Each of the three engines' loop bodies adds a batch's passing rows.
LEMMA BatchAdds ==
    ASSUME FoldInv, NEW b \in DOMAIN input, b \notin folded
    PROVE  LET old == maps[piece[b]]
               new == AnswerOver(input, FoldedRows(piece[b]) \cup PassingOf(input, b))
           IN  /\ NaiveBatch(old, input[b]) = new
               /\ EarlyBatch(old, input[b]) = new
               /\ LateBatch(old, input[b]) = new
<1> DEFINE R == FoldedRows(piece[b])
<1>1. R \in SUBSET Rows(input) /\ \A p \in R : p[1] # b
  BY DEF FoldedRows, PassingRows
<1>2. IsTable(input)
  BY InputIsTable DEF FoldInv
<1>3. maps[piece[b]] = AnswerOver(input, R)
  BY DEF FoldInv
<1> HIDE DEF R
<1> QED
  BY <1>1, <1>2, <1>3, NaiveAdds, EarlyAdds, LateAdds DEF R

\* A fold that has not panicked, with overflow checks, is still exact.
LEMMA FoldStaysExact ==
    ASSUME FoldInv, debug, NEW b \in DOMAIN input, b \notin folded, ~FoldPanics(b),
           folded' = folded \cup {b}, UNCHANGED <<input, piece>>
    PROVE  \A p \in Pieces : Exact(input, FoldedRows(p)')
<1> SUFFICES ASSUME NEW p \in Pieces
             PROVE  Exact(input, FoldedRows(p)')
  OBVIOUS
<1>1. Exact(input, FoldedRows(p)) /\ maps[p] = AnswerOver(input, FoldedRows(p))
  BY DEF FoldInv
<1>2. CASE p = piece[b]
  <2> DEFINE R == FoldedRows(p)
  <2>1. IsTable(input) /\ R \in SUBSET Rows(input) /\ \A r \in R : r[1] # b
    BY InputIsTable DEF FoldInv, FoldedRows, PassingRows
  <2>2. ~AggregatePanics(input[b], EvaluatePredicate(input[b]), AnswerOver(input, R))
    BY <1>1, <1>2 DEF FoldPanics, FoldOverflows
  <2>3. FoldedRows(p)' = R \cup PassingOf(input, b)
    BY <1>2 DEF FoldedRows, PassingOf
  <2>4. Exact(input, R)
    BY <1>1
  <2> HIDE DEF R
  <2>5. Exact(input, R \cup PassingOf(input, b))
    BY <2>1, <2>2, <2>4, StaysExact
  <2> QED
    BY <2>3, <2>5, Zenon
<1>3. CASE p # piece[b]
  <2>1. FoldedRows(p)' = FoldedRows(p)
    BY <1>3 DEF FoldedRows
  <2> QED
    BY <1>1, <2>1, Zenon
<1> QED
  BY <1>2, <1>3

(***************************************************************************)
(* The maps merge into the answer over all rows folded.                    *)
(***************************************************************************)
AllFolded == {r \in PassingRows(input) : r[1] \in folded}

\* The rows of the pieces are disjoint and are all the rows folded.
LEMMA PieceRows ==
    ASSUME FoldInv,
           NEW rs, rs = [p \in Pieces |-> FoldedRows(p)]
    PROVE  /\ IsTable(input) /\ MaxPieces \in Nat /\ Pieces = 1 .. MaxPieces
           /\ maps \in [1 .. MaxPieces -> HashMaps]
           /\ rs \in [1 .. MaxPieces -> SUBSET Rows(input)]
           /\ \A p \in 1 .. MaxPieces : maps[p] = AnswerOver(input, rs[p])
           /\ \A p, q \in 1 .. MaxPieces : p # q => rs[p] \cap rs[q] = {}
           /\ UNION {rs[p] : p \in 1 .. MaxPieces} = AllFolded
<1> DEFINE n == MaxPieces
<1>1. IsTable(input) /\ n \in Nat /\ Pieces = 1 .. n
  BY InputIsTable, BatchEnginesAssumption DEF FoldInv, Pieces
<1>2. \A p \in Pieces : FoldedRows(p) \in SUBSET Rows(input)
  BY DEF FoldedRows, PassingRows
<1>3. rs \in [1 .. n -> SUBSET Rows(input)]
  BY <1>1, <1>2
<1>4. maps \in [1 .. n -> HashMaps]
  BY <1>1, <1>2, OverInHashMaps DEF FoldInv
<1>5. \A p \in 1 .. n : maps[p] = AnswerOver(input, rs[p])
  BY <1>1 DEF FoldInv
<1>6. \A p, q \in 1 .. n : p # q => rs[p] \cap rs[q] = {}
  BY <1>1 DEF FoldedRows
<1>7. UNION {rs[p] : p \in 1 .. n} = AllFolded
  <2>1. \A r \in PassingRows(input) : r[1] \in DOMAIN input /\ piece[r[1]] \in 1 .. n
    BY <1>1, RowFacts DEF PassingRows, FoldInv
  <2> QED
    BY <1>1, <2>1 DEF FoldedRows, AllFolded
<1> QED
  BY <1>1, <1>3, <1>4, <1>5, <1>6, <1>7

\* The pieces' maps merge to the answer over all folded rows.
LEMMA MapsMerged ==
    ASSUME FoldInv
    PROVE  MergeMaps(maps) = AnswerOver(input, AllFolded)
<1> DEFINE rs == [p \in Pieces |-> FoldedRows(p)]
<1>1. /\ IsTable(input) /\ MaxPieces \in Nat
      /\ maps \in [1 .. MaxPieces -> HashMaps]
      /\ rs \in [1 .. MaxPieces -> SUBSET Rows(input)]
      /\ \A p \in 1 .. MaxPieces : maps[p] = AnswerOver(input, rs[p])
      /\ \A p, q \in 1 .. MaxPieces : p # q => rs[p] \cap rs[q] = {}
      /\ UNION {rs[p] : p \in 1 .. MaxPieces} = AllFolded
  BY PieceRows
<1> HIDE DEF rs
<1>2. MergeMaps(maps) = AnswerOver(input, UNION {rs[p] : p \in 1 .. MaxPieces})
  BY <1>1, MapsMerge
<1> QED
  BY <1>1, <1>2

\* ... and a merge that has not panicked, with overflow checks, is exact.
LEMMA MergedExact ==
    ASSUME FoldInv, debug, ~MergePanics(maps)
    PROVE  Exact(input, AllFolded)
<1> DEFINE rs == [p \in Pieces |-> FoldedRows(p)]
<1>1. /\ IsTable(input) /\ MaxPieces \in Nat
      /\ maps \in [1 .. MaxPieces -> HashMaps]
      /\ rs \in [1 .. MaxPieces -> SUBSET Rows(input)]
      /\ \A p, q \in 1 .. MaxPieces : p # q => rs[p] \cap rs[q] = {}
      /\ UNION {rs[p] : p \in 1 .. MaxPieces} = AllFolded
  BY PieceRows
<1>2. \A p \in 1 .. MaxPieces : maps[p] = AnswerOver(input, rs[p])
  BY PieceRows
<1>3. \A p \in 1 .. MaxPieces : Exact(input, rs[p])
  BY DEF FoldInv, Pieces
<1> HIDE DEF rs
<1>4. Exact(input, UNION {rs[p] : p \in 1 .. MaxPieces})
  BY <1>1, <1>2, <1>3, MergeStaysExact
<1> QED
  BY <1>1, <1>4

\* With every batch folded, the result is the answer.
LEMMA ResultIsAnswer ==
    ASSUME FoldInv, folded = DOMAIN input
    PROVE  Result = Answer(input)
<1>1. IsTable(input)
  BY InputIsTable DEF FoldInv
<1>2. \A r \in PassingRows(input) : r[1] \in DOMAIN input
  BY <1>1, RowFacts DEF PassingRows
<1>3. CASE engine = "parallel"
  <2>1. AllFolded = PassingRows(input)
    BY <1>2 DEF AllFolded
  <2> QED
    BY <1>3, <2>1, MapsMerged, AnswerIsOver DEF Result
<1>4. CASE engine # "parallel"
  <2>1. FoldedRows(1) = PassingRows(input)
    BY <1>2, <1>4 DEF FoldedRows, FoldInv
  <2>2. 1 \in Pieces
    BY BatchEnginesAssumption DEF Pieces
  <2>3. maps[1] = AnswerOver(input, FoldedRows(1))
    BY <2>2 DEF FoldInv
  <2> QED
    BY <1>4, <2>1, <2>3, AnswerIsOver DEF Result
<1> QED
  BY <1>3, <1>4

\* ... and exact, in a build with overflow checks that has got so far.
LEMMA ResultIsExact ==
    ASSUME FoldInv, debug, folded = DOMAIN input,
           ~(engine = "parallel" /\ MergePanics(maps))
    PROVE  Exact(input, PassingRows(input))
<1>1. \A r \in PassingRows(input) : r[1] \in DOMAIN input
  BY InputIsTable, RowFacts DEF PassingRows, FoldInv
<1>2. CASE engine = "parallel"
  <2>1. AllFolded = PassingRows(input)
    BY <1>1 DEF AllFolded
  <2> QED
    BY <1>2, <2>1, MergedExact
<1>3. CASE engine # "parallel"
  <2>1. FoldedRows(1) = PassingRows(input)
    BY <1>1, <1>3 DEF FoldedRows, FoldInv
  <2>2. 1 \in Pieces
    BY BatchEnginesAssumption DEF Pieces
  <2>3. Exact(input, FoldedRows(1))
    BY <2>2 DEF FoldInv
  <2> QED
    BY <2>1, <2>3
<1> QED
  BY <1>2, <1>3

\* Every action keeps the fold invariant.
LEMMA FoldStep == FoldInv /\ [Next]_vars => FoldInv'
<1> SUFFICES ASSUME FoldInv, [Next]_vars PROVE FoldInv'
  OBVIOUS
<1>1. ASSUME NEW b \in DOMAIN input,
             \/ FoldNaive(b) \/ FoldEarly(b) \/ FoldLate(b)
             \/ TimedNaive(b) \/ TimedEarly(b) \/ TimedLate(b)
      PROVE  FoldInv'
  <2>1. PICK map : /\ Fold(b, map)
                   /\ \/ map = NaiveBatch(maps[piece[b]], input[b])
                      \/ map = EarlyBatch(maps[piece[b]], input[b])
                      \/ map = LateBatch(maps[piece[b]], input[b])
    BY <1>1 DEF FoldNaive, FoldEarly, FoldLate, TimedNaive, TimedEarly, TimedLate
  <2>2. /\ b \notin folded /\ maps' = [maps EXCEPT ![piece[b]] = map]
        /\ folded' = folded \cup {b} /\ ~FoldPanics(b)
        /\ UNCHANGED <<input, engine, debug, piece, answers, status>>
    BY <2>1 DEF Fold, IsNext, call
  <2>3. map = AnswerOver(input, FoldedRows(piece[b]) \cup PassingOf(input, b))
    BY <2>1, <2>2, BatchAdds
  <2>4. maps' = [p \in Pieces |-> AnswerOver(input, FoldedRows(p))]'
    BY <2>2, <2>3, FoldAdds
  <2>5. engine \notin Timed => lat' = lat
    BY <1>1 DEF FoldNaive, FoldEarly, FoldLate, TimedNaive, TimedEarly, TimedLate, Timed
  <2>6. debug => \A p \in Pieces : Exact(input, FoldedRows(p)')
    BY <2>2, FoldStaysExact
  <2> QED
    BY <2>2, <2>4, <2>5, <2>6 DEF FoldInv
<1>2. CASE Collect
  <2>1. answers' = {Answer(input)}
    BY <1>2, ResultIsAnswer DEF Collect
  <2>2. debug => Exact(input, PassingRows(input))
    BY <1>2, ResultIsExact DEF Collect
  <2> QED
    BY <1>2, <2>1, <2>2 DEF Collect, FoldInv, FoldedRows, call
<1>3. ASSUME (\E b \in DOMAIN input : PanicInFold(b)) \/ PanicInMerge
      PROVE  FoldInv'
  <2>1. Panic /\ status = "running"
    BY <1>3 DEF PanicInFold, PanicInMerge, IsNext
  <2> QED
    BY <2>1 DEF Panic, FoldInv, FoldedRows, call
<1>4. CASE UNCHANGED vars
  BY <1>4 DEF vars, FoldInv, FoldedRows, call
<1> QED
  BY <1>1, <1>2, <1>3, <1>4 DEF Next

\* In every engine and at every moment, the map of each piece is the answer
\* over the rows of the batches folded into it, whatever the split and order.
THEOREM FoldInvariant == Spec => []FoldInv
  BY FoldInitially, FoldStep, PTL DEF Spec

(***************************************************************************)
(* Whatever the table and however rayon splits it, the maps add up to the  *)
(* answer over the batches folded so far.                                  *)
(***************************************************************************)
THEOREM MapsAddUp == Spec => []MergedIsAnswer
<1>1. FoldInv => MergedIsAnswer
  <2> SUFFICES ASSUME FoldInv PROVE MergedIsAnswer
    OBVIOUS
  <2> DEFINE t == [b \in DOMAIN input |-> IF b \in folded THEN input[b] ELSE <<>>]
  <2>1. IsTable(input) /\ Len(input) \in Nat /\ DOMAIN input = 1 .. Len(input)
    BY InputIsTable, InputFacts DEF FoldInv
  <2>2. IsTable(t)
    <3> DEFINE row == [key : Nat, val : Int]
    <3> HIDE DEF row
    <3>1. \A b \in DOMAIN input : input[b] \in Seq(row)
      BY <2>1 DEF IsTable, row
    <3>2. \A b \in DOMAIN input : t[b] \in Seq(row)
      BY <3>1
    <3>3. t \in [1 .. Len(input) -> Seq(row)]
      BY <2>1, <3>2
    <3> HIDE DEF t
    <3>4. t \in Seq(Seq(row))
      BY <2>1, <3>3
    <3> QED
      BY <3>4 DEF IsTable, row
  <2>3. \A r : r \in Rows(t) <=> r \in Rows(input) /\ r[1] \in folded
    <3>1. ASSUME NEW r \in Rows(t) PROVE r \in Rows(input) /\ r[1] \in folded
      <4>1. r = <<r[1], r[2]>> /\ r[1] \in DOMAIN t /\ r[2] \in DOMAIN t[r[1]]
        BY <2>2, RowFacts
      <4>2. r[1] \in folded
        BY <4>1
      <4>3. r[1] \in DOMAIN input /\ r[2] \in DOMAIN input[r[1]]
        BY <4>1, <4>2
      <4> QED
        BY <4>1, <4>2, <4>3, RowIn
    <3>2. ASSUME NEW r \in Rows(input), r[1] \in folded PROVE r \in Rows(t)
      <4>1. r = <<r[1], r[2]>> /\ r[1] \in DOMAIN input /\ r[2] \in DOMAIN input[r[1]]
        BY <2>1, RowFacts
      <4>2. r[1] \in DOMAIN t /\ r[2] \in DOMAIN t[r[1]]
        BY <3>2, <4>1
      <4> QED
        BY <4>1, <4>2, RowIn
    <3> QED
      BY <3>1, <3>2
  <2>4. \A r \in Rows(t) : RowAt(t, r) = RowAt(input, r)
    <3> SUFFICES ASSUME NEW r \in Rows(t) PROVE RowAt(t, r) = RowAt(input, r)
      OBVIOUS
    <3>1. r[1] \in DOMAIN input /\ r[1] \in folded
      BY <2>1, <2>3, RowFacts
    <3> QED
      BY <3>1 DEF RowAt
  <2> HIDE DEF t
  <2>5. PassingRows(t) = AllFolded
    BY <2>3, <2>4 DEF PassingRows, AllFolded
  <2>6. AllFolded \in SUBSET Rows(t) /\ AllFolded \in SUBSET Rows(input)
    BY <2>5 DEF AllFolded, PassingRows
  <2>7. AnswerOver(t, AllFolded) = AnswerOver(input, AllFolded)
    BY <2>1, <2>2, <2>4, <2>6, SameRows
  <2>8. MergeMaps(maps) = Answer(t)
    BY <2>5, <2>7, MapsMerged, AnswerIsOver
  <2> QED
    BY <2>8 DEF MergedIsAnswer, t
<1> QED
  BY <1>1, FoldInvariant, PTL

\* Every variable of the engines keeps its type: maps hold i64 sums, the
\* folded batches are batches of the input, the result is a map or pending.
THEOREM TypeCorrect == Spec => []TypeOK
<1>1. FoldInv /\ IInv => TypeOK
  <2> SUFFICES ASSUME FoldInv, IInv PROVE TypeOK
    OBVIOUS
  <2>1. \A p \in Pieces : maps[p] \in Map
    <3> SUFFICES ASSUME NEW p \in Pieces PROVE maps[p] \in Map
      OBVIOUS
    <3> DEFINE R == FoldedRows(p)
    <3>1. R \in SUBSET Rows(input) /\ KeysOver(input, R) \in SUBSET Groups(input)
      BY DEF FoldedRows, PassingRows, KeysOver, Groups
    <3>2. \A k : Wrap(SumOver(input, R, k)) \in -IntBound .. IntBound - 1
      BY <3>1, InputIsTable, SumOverFacts, WrapInRange DEF FoldInv, InRange
    <3>3. maps[p] = AnswerOver(input, R)
      BY DEF FoldInv
    <3> HIDE DEF R
    <3>4. AnswerOver(input, R) \in [KeysOver(input, R) -> -IntBound .. IntBound - 1]
      BY <3>2 DEF AnswerOver
    <3> QED
      BY <3>1, <3>3, <3>4 DEF Map
  <2>2. \A stage \in DOMAIN lat : lat[stage] \in Buffers(Nat)
    <3>1. \A n \in Nat : WithCapacity(n) \in Buffers(Nat)
      BY DEF Buffers, WithCapacity
    <3>2. \E p, a \in Buffers(Nat) :
              lat = [predicate |-> p, aggregate |-> a, merge |-> WithCapacity(16)]
      <4>1. CASE engine \in Timed
        BY <4>1 DEF IInv
      <4>2. CASE engine \notin Timed
        BY <3>1, <4>2 DEF FoldInv, NoLatency, StageLatency
      <4> QED
        BY <4>1, <4>2
    <3>3. WithCapacity(16) \in Buffers(Nat)
      BY <3>1
    <3> QED
      BY <3>2, <3>3
  <2> QED
    BY <2>1, <2>2 DEF FoldInv, TypeOK
<1>2. Spec => []IInv
  BY Initially, Step, PTL DEF Spec
<1> QED
  BY <1>1, <1>2, FoldInvariant, PTL

(***************************************************************************)
(* The engines implement Query: Collect is its Return, every other step    *)
(* leaves the input and the answers alone.                                 *)
(***************************************************************************)
LEMMA SameAnswer == \A t : Q!Answer(t) = Answer(t)
  BY DEF Q!Answer, Q!Groups, Q!ExactSum, Q!PassingRows, Q!Rows, Q!RowAt, Q!Passes, Q!Wrap,
         Q!SumFunctionOnSet, Q!FoldFunctionOnSet, Q!MapThenFoldSet,
         Answer, Groups, ExactSum, PassingRows, Rows, RowAt, Passes, Wrap,
         SumFunctionOnSet, FoldFunctionOnSet, MapThenFoldSet

(***************************************************************************)
(* Whatever the table, the build and the split, an engine returns at most  *)
(* once, and with the query's answer.                                      *)
(***************************************************************************)
THEOREM Refinement == Spec => ImplementsQuery
<1>1. Init => Q!Init
  BY DEF Init, Q!Init
<1>2. FoldInv /\ [Next]_vars => [Q!Return]_Q!vars
  <2> SUFFICES ASSUME FoldInv, [Next]_vars, ~UNCHANGED Q!vars PROVE Q!Return
    OBVIOUS
  <2>1. Collect
    BY DEF Next, FoldNaive, FoldEarly, FoldLate, TimedNaive, TimedEarly, TimedLate, Fold,
           PanicInFold, PanicInMerge, Panic, call, vars, Q!vars
  <2>2. answers' = {Answer(input)} /\ answers = {} /\ input' = input
    BY <2>1, ResultIsAnswer DEF Collect, FoldInv, call
  <2> QED
    BY <2>2, SameAnswer DEF Q!Return
<1> QED
  BY <1>1, <1>2, FoldInvariant, PTL DEF Spec, Q!Spec, ImplementsQuery

(***************************************************************************)
(* With overflow checks on, an answer that an engine returns is exact,     *)
(* whichever way rayon has split the additions.                            *)
(***************************************************************************)
THEOREM ReturnsExact == Spec => []AnswerExact
<1>1. FoldInv => AnswerExact
  <2> SUFFICES ASSUME FoldInv, debug, NEW m \in answers, NEW k \in DOMAIN m
               PROVE  m[k] = ExactSum(input, k)
    BY DEF AnswerExact
  <2>1. IsTable(input) /\ PassingRows(input) \in SUBSET Rows(input)
    BY InputIsTable DEF FoldInv, PassingRows
  <2>2. m = Answer(input) /\ Exact(input, PassingRows(input))
    BY DEF FoldInv
  <2>3. SumOver(input, PassingRows(input), k) = ExactSum(input, k)
    BY DEF SumOver, Vals, ExactSum
  <2>4. InRange(ExactSum(input, k)) /\ ExactSum(input, k) \in Int
    BY <2>2, <2>3 DEF Exact, InRange
  <2>5. m[k] = Wrap(ExactSum(input, k))
    BY <2>2 DEF Answer
  <2> QED
    BY <2>4, <2>5, WrapFits
<1> QED
  BY <1>1, FoldInvariant, PTL
=============================================================================
