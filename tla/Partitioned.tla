---------------------------- MODULE Partitioned ----------------------------
(***************************************************************************)
(* parallel::execute_partitioned, its profiled copy, and                   *)
(* adaptive_execute_partitioned: the key range of the qualifying rows is   *)
(* cut into partitions, each row goes to the partition of its key, every   *)
(* partition is aggregated by a worker of its own, and the maps are        *)
(* chained together without adding anything up.                            *)
(*                                                                         *)
(* Keys are u32 and so is the arithmetic on them, 0 .. KeyBound - 1 here:  *)
(* with overflow checks it panics where it leaves that range and without   *)
(* them it wraps.                                                          *)
(***************************************************************************)
EXTENDS GroupBy

CONSTANTS Inputs,
          KeyBound,       \* 2^32 in the code
          ThreadCounts    \* values of rayon::current_num_threads()

ASSUME PartitionedAssumption ==
    /\ KeyBound \in Nat \ {0}
    /\ ThreadCounts \subseteq Nat \ {0}
    /\ \A t \in Inputs :
         t \in Seq(Seq([key : 0 .. KeyBound - 1, val : -IntBound .. IntBound - 1]))

VARIABLES input, answers,
          plan,      \* "uniform", "profiled" or "adaptive": the function called
          threads,
          debug,     \* overflow checks are on
          phase,     \* "discover", "plan", "cut", "assign", "aggregate",
                     \* "returned", "panicked"
          qualifying,   \* the rows that pass, <<batch, row>> each
          keyMin, keyMax,
          bucket, currentLo,   \* the adaptive loop over the histogram
          parts,     \* the partitions: [lo, hi, rows], rows the ones still to
                     \* aggregate
          locals,    \* the workers' maps, one per partition
          now,       \* the cycle counter, read by the profiled copy
          lap,       \* the start of its running OperationTimer
          profile    \* QueryProfile

callVars == <<input, plan, threads, debug>>
scanVars == <<qualifying, keyMin, keyMax>>
loopVars == <<bucket, currentLo>>
timeVars == <<now, lap, profile>>
vars == <<callVars, scanVars, loopVars, answers, phase, parts, locals, timeVars>>

MaxKey == KeyBound - 1

u32(x) == x % KeyBound

(***************************************************************************)
(* The timers of execute_partitioned_profiled, where every action takes a  *)
(* cycle: one for the whole call, started at 0, and one for each stage.    *)
(* The profile is handed out at the return, so it may be filled in, its    *)
(* total too, whenever a stage ends.                                       *)
(***************************************************************************)
NewProfile == [predicate |-> 0, partition |-> 0, aggregate |-> 0, total |-> 0]

Tick ==
    IF plan = "profiled"
    THEN now' = now + 1 /\ UNCHANGED <<lap, profile>>
    ELSE UNCHANGED timeVars

LapKept(stage) ==
    IF plan = "profiled"
    THEN /\ now' = now + 1
         /\ profile' = [profile EXCEPT ![stage] = now' - lap, !.total = now']
         /\ UNCHANGED lap
    ELSE UNCHANGED timeVars

\* The stage ends; the next one gets a new timer.
Lap(stage) ==
    IF plan = "profiled"
    THEN /\ now' = now + 1
         /\ profile' = [profile EXCEPT ![stage] = now' - lap, !.total = now']
         /\ lap' = now'
    ELSE UNCHANGED timeVars

\* Return early: the stages that follow stay zero.
Total ==
    IF plan = "profiled"
    THEN now' = now + 1 /\ profile' = [profile EXCEPT !.total = now'] /\ UNCHANGED lap
    ELSE UNCHANGED timeVars

-----------------------------------------------------------------------------
(***************************************************************************)
(* Phase 1.  A batch whose statistics prove that no value passes is        *)
(* skipped (BatchStatistics::from_batch and can_prune on val > threshold). *)
(***************************************************************************)
PruneBelowMax(batch) ==
    batch = <<>> \/ \E i \in DOMAIN batch : batch[i].val <= Threshold

CanPrune(batch) == batch = <<>> \/ \A i \in DOMAIN batch : batch[i].val <= Threshold

Selection(batch) == IF CanPrune(batch) THEN {} ELSE EvaluatePredicate(batch)

QualifyingRows == {r \in Rows(input) : r[2] \in Selection(input[r[1]])}

KeyOf(row) == RowAt(input, row).key
ValOf(row) == RowAt(input, row).val

KeysIn(rows) == {KeyOf(r) : r \in rows}

ScanNeverPanics == FALSE

\* A batch that is not skipped sets a bit its bitmap does not have.
ScanPanics == \E b \in DOMAIN input : ~CanPrune(input[b]) /\ PredicatePanics(input[b])

PanicInScan ==
    /\ phase = "discover"
    /\ ScanPanics
    /\ phase' = "panicked"
    /\ Tick
    /\ UNCHANGED <<callVars, scanVars, loopVars, answers, parts, locals>>

Discover ==
    /\ phase = "discover"
    /\ ~ScanPanics
    /\ qualifying' = QualifyingRows
    /\ LET keys == KeysIn(QualifyingRows)
       IN  /\ keyMin' = Min(keys \cup {MaxKey})
           /\ keyMax' = Max(keys \cup {0})
    /\ phase' = "plan"
    /\ Lap("predicate")
    /\ UNCHANGED <<callVars, loopVars, answers, parts, locals>>

\* usize of a u32: 0 when the range is the whole of u32.
NDistinct == u32(keyMax - keyMin + 1)

\* The key_max + 1 and key_max - key_min + 1 that overflow-check.
RangeOverflows == keyMax + 1 > MaxKey \/ keyMax - keyMin + 1 > MaxKey

(***************************************************************************)
(* Phase 2.  n contiguous stubs of KeysPerStub(n) keys each; the last       *)
(* takes the remainder.  StubOf is the stub a key is assigned to.          *)
(***************************************************************************)
AtMost(n) == Max({Min({n, NDistinct}), 1})

KeysPerStub(n) == NDistinct \div n

StubUnwrapped(i, n) ==
    [lo |-> keyMin + (i - 1) * KeysPerStub(n),
     hi |-> IF i = n THEN keyMax + 1 ELSE keyMin + i * KeysPerStub(n)]

Stub(i, n) ==
    [lo |-> u32(keyMin + (i - 1) * KeysPerStub(n)),
     hi |-> IF i = n THEN u32(keyMax + 1) ELSE u32(keyMin + i * KeysPerStub(n))]

StubOf(k, n) ==
    IF KeysPerStub(n) = 0 THEN 1
    ELSE Min({(k - keyMin) \div KeysPerStub(n), n - 1}) + 1

NPartitions == AtMost(threads * 4)

(***************************************************************************)
(* The adaptive plan: a histogram of finer stubs (buckets), and a new      *)
(* partition wherever the keys since the last border reach the size the    *)
(* density of the bucket asks for.                                         *)
(***************************************************************************)
NBuckets == AtMost(threads * 16)

RowCount(b) ==
    Cardinality({r \in qualifying : StubOf(KeyOf(r), NBuckets) = b})

\* adaptive_partition_size, with its f64 arithmetic done exactly.
AdaptivePartitionSize(base, rows, keys, min, max) ==
    LET num == (8 * keys - rows) * (max - min)
        den == 7 * keys
        size == CASE keys = 0 -> base
                  [] keys # 0 /\ rows >= 8 * keys -> min
                  [] keys # 0 /\ rows <= keys -> max
                  [] OTHER -> min + ((2 * num + den) \div (2 * den))
    IN  IF keys = 0 THEN base ELSE Max({min, Min({size, max})})

MinPartKeys == Max({NDistinct \div (threads * 8), 1})
MaxPartKeys == Max({NDistinct \div threads, 1})

(***************************************************************************)
(* binary_search(&k) among the partitions' hi.  On a sorted list Ok(i) and *)
(* Err(i) are the index of k and the number of smaller borders; on an      *)
(* unsorted one (its last border has wrapped to 0) the result is           *)
(* unspecified, but the same for the same key.                             *)
(***************************************************************************)
BordersSorted == \A i \in 1 .. Len(parts) - 1 : parts[i].hi < parts[i + 1].hi

BorderSearchLeft(k) ==
    Min({Cardinality({i \in DOMAIN parts : parts[i].hi < k}) + 1, Len(parts)})

BorderSearch(k) ==
    Min({Cardinality({i \in DOMAIN parts : parts[i].hi <= k}) + 1, Len(parts)})

\* The ways in which the keys may be mapped to partitions.
Assignments ==
    CASE plan # "adaptive" -> {[k \in KeysIn(qualifying) |-> StubOf(k, NPartitions)]}
      [] plan = "adaptive" /\ BordersSorted -> {[k \in KeysIn(qualifying) |-> BorderSearch(k)]}
      [] OTHER -> [KeysIn(qualifying) -> DOMAIN parts]

-----------------------------------------------------------------------------
Init ==
    /\ input \in Inputs
    /\ answers = {}
    /\ plan \in {"uniform", "profiled", "adaptive"}
    /\ threads \in ThreadCounts
    /\ debug \in BOOLEAN
    /\ phase = "discover"
    /\ qualifying = {}
    /\ keyMin = MaxKey
    /\ keyMax = 0
    /\ bucket = 1 /\ currentLo = 0
    /\ parts = <<>>
    /\ locals = <<>>
    /\ now = 0 /\ lap = 0 /\ profile = NewProfile

\* No qualifying rows: return early.
NothingQualifies ==
    /\ phase = "plan"
    /\ qualifying = {}
    /\ answers' = {EmptyMap}
    /\ phase' = "returned"
    /\ Total
    /\ UNCHANGED <<callVars, scanVars, loopVars, parts, locals>>

KeyRange(lo, hi) == [lo |-> lo, hi |-> hi, rows |-> {}]

Plan ==
    /\ phase = "plan"
    /\ qualifying # {}
    /\ bucket' = 1
    /\ currentLo' = keyMin
    /\ IF debug /\ RangeOverflows
       THEN phase' = "panicked" /\ UNCHANGED parts
       ELSE IF plan # "adaptive"
       THEN /\ phase' = "assign"
            /\ parts' = [i \in 1 .. NPartitions |->
                            KeyRange(Stub(i, NPartitions).lo, Stub(i, NPartitions).hi)]
       ELSE phase' = "cut" /\ UNCHANGED parts
    /\ Tick
    /\ UNCHANGED <<callVars, scanVars, answers, locals>>

\* One turn of the loop over the buckets.
BucketSize ==
    AdaptivePartitionSize(MaxPartKeys, RowCount(bucket),
        Max({u32(Stub(bucket, NBuckets).hi - Stub(bucket, NBuckets).lo), 1}),
        MinPartKeys, MaxPartKeys)

CutBucket ==
    /\ phase = "cut"
    /\ bucket <= NBuckets
    /\ IF u32(Stub(bucket, NBuckets).hi - currentLo) >= BucketSize
       THEN /\ parts' = Append(parts, KeyRange(currentLo, Stub(bucket, NBuckets).lo))
            /\ currentLo' = Stub(bucket, NBuckets).lo
       ELSE UNCHANGED <<parts, currentLo>>
    /\ bucket' = bucket + 1
    /\ Tick
    /\ UNCHANGED <<callVars, scanVars, answers, phase, locals>>

CutLastForgotten ==
    /\ phase = "cut"
    /\ bucket = NBuckets + 1
    /\ phase' = "assign"
    /\ Tick
    /\ UNCHANGED <<callVars, scanVars, loopVars, answers, parts, locals>>

\* The last range is captured.
CutLast ==
    /\ phase = "cut"
    /\ bucket = NBuckets + 1
    /\ parts' = IF currentLo <= keyMax
                THEN Append(parts, KeyRange(currentLo, u32(keyMax + 1)))
                ELSE parts
    /\ phase' = "assign"
    /\ Tick
    /\ UNCHANGED <<callVars, scanVars, loopVars, answers, locals>>

AssignByRow ==
    /\ phase = "assign"
    /\ parts' = [p \in DOMAIN parts |->
                   [parts[p] EXCEPT !.rows =
                       {r \in qualifying : (r[2] - 1) % Len(parts) = p - 1}]]
    /\ locals' = [p \in DOMAIN parts |-> EmptyMap]
    /\ phase' = "aggregate"
    /\ Lap("partition")
    /\ UNCHANGED <<callVars, scanVars, loopVars, answers>>

Assign ==
    /\ phase = "assign"
    /\ \E part \in Assignments :
         parts' = [p \in DOMAIN parts |->
                     [parts[p] EXCEPT !.rows =
                         {r \in qualifying : part[KeyOf(r)] = p}]]
    /\ locals' = [p \in DOMAIN parts |-> EmptyMap]
    /\ phase' = "aggregate"
    /\ Lap("partition")
    /\ UNCHANGED <<callVars, scanVars, loopVars, answers>>

\* The scan that assigned the rows came to r before it came to s.
Before(r, s) == r[1] < s[1] \/ (r[1] = s[1] /\ r[2] < s[2])

\* The worker of partition p takes its next row, in the order of the scan.
AggregateRow(p) ==
    /\ phase = "aggregate"
    /\ \E row \in parts[p].rows :
         /\ \A other \in parts[p].rows \ {row} : Before(row, other)
         /\ IF debug /\ ~InRange(ValueAt(locals[p], KeyOf(row)) + ValOf(row))
            THEN phase' = "panicked" /\ UNCHANGED <<parts, locals>>
            ELSE /\ locals' = [locals EXCEPT ![p] = AddTo(@, KeyOf(row), ValOf(row))]
                 /\ parts' = [parts EXCEPT ![p].rows = @ \ {row}]
                 /\ UNCHANGED phase
    /\ Tick
    /\ UNCHANGED <<callVars, scanVars, loopVars, answers>>

\* global.extend(local): an entry that is already there is replaced.
Extend(global, local) ==
    [k \in DOMAIN global \cup DOMAIN local |->
        IF k \in DOMAIN local THEN local[k] ELSE global[k]]

ChainMaps(maps) == FoldLeft(Extend, EmptyMap, maps)

\* collect() waits for all workers; then the maps are chained.
Combine ==
    /\ phase = "aggregate"
    /\ \A p \in DOMAIN parts : parts[p].rows = {}
    /\ answers' = {ChainMaps(locals)}
    /\ phase' = "returned"
    /\ Lap("aggregate")
    /\ UNCHANGED <<callVars, scanVars, loopVars, parts, locals>>

\* The phases of all three functions, in this order; the profiled copy has
\* those of the uniform plan.
Next ==
    \/ PanicInScan \/ Discover \/ NothingQualifies \/ Plan \/ CutBucket \/ CutLast \/ Assign
    \/ \E p \in DOMAIN parts : AggregateRow(p)
    \/ Combine

Spec == Init /\ [][Next]_vars

\* rayon's workers run every partition to its end.
FairSpec == Spec /\ WF_vars(Next)

-----------------------------------------------------------------------------
TypeOK ==
    /\ input \in Inputs
    /\ threads \in ThreadCounts
    /\ debug \in BOOLEAN
    /\ phase \in {"discover", "plan", "cut", "assign", "aggregate", "returned",
                 "panicked"}
    /\ \A p \in DOMAIN parts : {parts[p].lo, parts[p].hi} \subseteq 0 .. MaxKey
    /\ DOMAIN locals \in {{}, DOMAIN parts}

(***************************************************************************)
(* The partitions tile the key range, in order and without gap or overlap, *)
(* unless key_max + 1 wraps, when only the last border is off.             *)
(***************************************************************************)
PartitionsTile ==
    phase \in {"assign", "aggregate"} =>
        /\ parts # <<>>
        /\ parts[1].lo = keyMin
        /\ parts[Len(parts)].hi = u32(keyMax + 1)
        /\ \A i \in 1 .. Len(parts) - 1 :
             parts[i].lo <= parts[i].hi /\ parts[i].hi = parts[i + 1].lo

(***************************************************************************)
(* The rows of a partition have their keys in its [lo, hi), as KeyPartition*)
(* is documented, unless key_max + 1 wraps.                                *)
(***************************************************************************)
RowsInRange ==
    phase = "aggregate" /\ keyMax < MaxKey =>
        \A p \in DOMAIN parts : \A r \in parts[p].rows :
            KeyOf(r) \in parts[p].lo .. parts[p].hi - 1

(***************************************************************************)
(* What the final chaining relies on: no key is in the maps, or among the  *)
(* remaining rows, of two partitions, even where the borders have wrapped. *)
(***************************************************************************)
KeysOfPart(p) == DOMAIN locals[p] \cup KeysIn(parts[p].rows)

DisjointKeys ==
    phase = "aggregate" =>
        \A p, q \in DOMAIN parts : p # q => KeysOfPart(p) \cap KeysOfPart(q) = {}

(***************************************************************************)
(* The stages that the profiled copy reports do not overlap and none is    *)
(* forgotten: they add up to no more than the total, and a stage is zero   *)
(* only if the call returned before it.                                    *)
(***************************************************************************)
StagesWithinTotal ==
    phase = "returned" /\ plan = "profiled" =>
        /\ profile.predicate + profile.partition + profile.aggregate <= profile.total
        /\ profile.predicate > 0
        /\ profile.partition > 0 <=> qualifying # {}
        /\ profile.aggregate > 0 <=> qualifying # {}

Q == INSTANCE Query

(***************************************************************************)
(* The engine returns at most once, and with the query's answer.           *)
(***************************************************************************)
ImplementsQuery == Q!Spec

(***************************************************************************)
(* Every call ends, and as it should.  It returns, unless a qualifying row *)
(* lies beyond the bitmap of its batch, or overflow checks are on and      *)
(* either the largest key is u32::MAX, whose successor is no u32, or the   *)
(* naive engine's sums overflow: that engine adds up each group in the     *)
(* same order.                                                             *)
(***************************************************************************)
Ending ==
    IF Oversized(input) \/ (debug /\ (MaxKey \in Groups(input) \/ Overflows(input)))
    THEN "panicked" ELSE "returned"

EveryCallEnds == <>(phase = Ending)

(***************************************************************************)
(* All engines produce identical results (differential_test.rs): none      *)
(* panics on a table whose sums the naive engine computes.                 *)
(***************************************************************************)
PanicsOnlyLikeNaive == phase = "panicked" => Oversized(input) \/ Overflows(input)
=============================================================================
