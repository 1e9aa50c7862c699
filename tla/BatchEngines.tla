---------------------------- MODULE BatchEngines ----------------------------
(***************************************************************************)
(* The engines that fold whole batches into hash tables: naive::execute,   *)
(* vectorized::execute_early and execute_late on one thread, and           *)
(* parallel::execute, where rayon cuts the batches into contiguous pieces, *)
(* folds each piece into a map of its own, in any interleaving, and        *)
(* merge_maps adds the maps up.  The instrumented module's copies of the   *)
(* first three also record a sample per batch and stage.                   *)
(*                                                                         *)
(* A panic, a worker's too, ends the call: rayon hands it on to the        *)
(* caller, and a build that aborts on panic ends the process.              *)
(***************************************************************************)
EXTENDS GroupBy, LatencyBuffer

CONSTANTS Inputs,
          MaxPieces    \* the most pieces rayon may cut the batches into

ASSUME BatchEnginesAssumption ==
    /\ Inputs \subseteq Seq(Seq([key : Nat, val : Int]))
    /\ MaxPieces \in Nat \ {0}

VARIABLES input, answers,
          engine,    \* the function called
          debug,     \* overflow checks are on
          status,    \* "running", "returned" or "panicked"
          piece,     \* piece[b]: the piece batch b belongs to
          maps,      \* one map per piece
          folded,    \* the batches folded so far
          lat        \* StageLatency; a sample is the number of its batch

call == <<input, engine, debug, piece>>
vars == <<call, answers, status, maps, folded, lat>>

Timed == {"timed naive", "timed early", "timed late"}
Sequential == {"naive", "early", "late"} \cup Timed

\* The engines with a selection bitmap.
WithBitmap == {"late", "parallel", "timed late"}

\* StageLatency::new; what an engine without timers has of it.
StageLatency(n) ==
    [predicate |-> WithCapacity(n), aggregate |-> WithCapacity(n), merge |-> WithCapacity(16)]

NoLatency == StageLatency(0)

Pieces == 1 .. MaxPieces

\* par_iter: contiguous pieces, in the order of the batches.
Splits(n) ==
    {s \in [1 .. n -> Pieces] : \A b, c \in 1 .. n : b <= c => s[b] <= s[c]}

Init ==
    /\ input \in Inputs
    /\ answers = {}
    /\ engine \in Sequential \cup {"parallel"}
    /\ debug \in BOOLEAN
    /\ status = "running"
    /\ piece \in IF engine = "parallel" THEN Splits(Len(input))
                 ELSE {[b \in DOMAIN input |-> 1]}
    /\ maps = [p \in Pieces |-> EmptyMap]
    /\ folded = {}
    /\ lat = IF engine \in Timed THEN StageLatency(Len(input)) ELSE NoLatency

Panic ==
    /\ status' = "panicked"
    /\ UNCHANGED <<call, answers, maps, folded, lat>>

\* The batch that the fold of its piece has come to.
IsNext(b) ==
    /\ status = "running"
    /\ b \notin folded
    /\ \A c \in 1 .. b - 1 : piece[c] = piece[b] => c \in folded

\* With overflow checks one of its sums overflows ...
FoldOverflows(b) ==
    debug /\ AggregatePanics(input[b], EvaluatePredicate(input[b]), maps[piece[b]])

\* ... or, before that, its bitmap is too short.
FoldPanics(b) == (engine \in WithBitmap /\ PredicatePanics(input[b])) \/ FoldOverflows(b)

PanicInFold(b) == IsNext(b) /\ FoldPanics(b) /\ Panic

Fold(b, map) ==
    /\ IsNext(b)
    /\ ~FoldPanics(b)
    /\ maps' = [maps EXCEPT ![piece[b]] = map]
    /\ folded' = folded \cup {b}
    /\ UNCHANGED <<call, answers, status>>

FoldNaive(b) ==
    /\ engine = "naive" /\ UNCHANGED lat
    /\ Fold(b, NaiveBatch(maps[piece[b]], input[b]))

FoldEarly(b) ==
    /\ engine = "early" /\ UNCHANGED lat
    /\ Fold(b, EarlyBatch(maps[piece[b]], input[b]))

\* execute_late's loop body and the closure of parallel::execute's fold.
FoldLate(b) ==
    /\ engine \in {"late", "parallel"} /\ UNCHANGED lat
    /\ Fold(b, LateBatch(maps[piece[b]], input[b]))

\* The time of filtering, then that of aggregating; naive measures both at once.
RecordFilter(b) == lat' = [lat EXCEPT !.predicate = Record(@, b)]

RecordStages(b) ==
    lat' = [lat EXCEPT !.predicate = Record(@, b), !.aggregate = Record(@, b)]

TimedNaive(b) ==
    /\ engine = "timed naive" /\ RecordFilter(b)
    /\ Fold(b, NaiveBatch(maps[piece[b]], input[b]))

TimedEarly(b) ==
    /\ engine = "timed early" /\ RecordStages(b)
    /\ Fold(b, EarlyBatch(maps[piece[b]], input[b]))

TimedLate(b) ==
    /\ engine = "timed late" /\ RecordStages(b)
    /\ Fold(b, LateBatch(maps[piece[b]], input[b]))

Result == IF engine = "parallel" THEN MergeMaps(maps) ELSE maps[1]

CollectEarly ==
    /\ status = "running"
    /\ folded # {}
    /\ status' = "returned"
    /\ answers' = {Result}
    /\ UNCHANGED <<call, maps, folded, lat>>

\* With overflow checks merge_maps may panic.
Collect ==
    /\ status = "running"
    /\ folded = DOMAIN input
    /\ ~(debug /\ engine = "parallel" /\ MergePanics(maps))
    /\ status' = "returned"
    /\ answers' = {Result}
    /\ UNCHANGED <<call, maps, folded, lat>>

PanicInMerge ==
    /\ status = "running"
    /\ folded = DOMAIN input
    /\ debug /\ engine = "parallel" /\ MergePanics(maps)
    /\ Panic

Next ==
    \/ \E b \in DOMAIN input : \/ FoldNaive(b) \/ FoldEarly(b) \/ FoldLate(b)
                              \/ TimedNaive(b) \/ TimedEarly(b) \/ TimedLate(b)
                              \/ PanicInFold(b)
    \/ Collect \/ PanicInMerge

Spec == Init /\ [][Next]_vars

\* The caller's thread, or rayon's workers, run to the end.
FairSpec == Spec /\ WF_vars(Next)

-----------------------------------------------------------------------------
Map == {EmptyMap} \cup
       UNION {[ks -> -IntBound .. IntBound - 1] :
                 ks \in SUBSET Groups(input)}

TypeOK ==
    /\ input \in Inputs
    /\ engine \in Sequential \cup {"parallel"}
    /\ debug \in BOOLEAN
    /\ status \in {"running", "returned", "panicked"}
    /\ piece \in [DOMAIN input -> Pieces]
    /\ folded \subseteq DOMAIN input
    /\ \A p \in Pieces : maps[p] \in Map
    /\ \A stage \in DOMAIN lat : lat[stage] \in Buffers(Nat)

(***************************************************************************)
(* At every moment, and however the batches were split, the maps add up to *)
(* the query's answer for the batches folded so far: partial sums that     *)
(* have wrapped around i64 lose nothing, and a group whose sum is zero     *)
(* stays a group.                                                          *)
(***************************************************************************)
MergedIsAnswer ==
    MergeMaps(maps) =
        Answer([b \in DOMAIN input |-> IF b \in folded THEN input[b] ELSE <<>>])

(***************************************************************************)
(* An instrumented engine reports, for each stage it times, one sample for *)
(* each batch, in the order of the batches and no zero left over from the  *)
(* allocation; and it never allocates between two time stamps.             *)
(***************************************************************************)
OneSamplePerBatch ==
    LET samples == [b \in folded |-> b]
        stages == IF engine = "timed naive" THEN {"predicate"} ELSE {"predicate", "aggregate"}
    IN  engine \in Timed =>
            /\ \A stage \in DOMAIN lat :
                  Finish(lat[stage]) = IF stage \in stages THEN samples ELSE <<>>
            /\ Capacity(lat.predicate) = Len(input) /\ Capacity(lat.aggregate) = Len(input)

Q == INSTANCE Query

(***************************************************************************)
(* Each of the seven engines returns at most once, and with the query's    *)
(* answer.                                                                 *)
(***************************************************************************)
ImplementsQuery == Q!Spec

(***************************************************************************)
(* With overflow checks on, an answer that is returned is exact: no sum    *)
(* has wrapped, neither in a piece nor where the pieces are merged.        *)
(***************************************************************************)
AnswerExact ==
    debug => \A m \in answers : \A k \in DOMAIN m : m[k] = ExactSum(input, k)

(***************************************************************************)
(* Every call ends, and as it should.  A qualifying row beyond the bitmap  *)
(* makes the engines that have one panic.  Otherwise, with overflow checks *)
(* on, the engines on one thread panic on the tables that the naive engine *)
(* panics on; parallel::execute adds in another order, so either may       *)
(* happen, but it returns when no sum of consecutive rows overflows.       *)
(***************************************************************************)
OverflowsSomewhere ==
    \E first, last \in DOMAIN input :
        first <= last /\ Overflows(SubSeq(input, first, last))

Endings ==
    IF engine \in WithBitmap /\ Oversized(input) THEN {"panicked"}
    ELSE IF ~debug THEN {"returned"}
    ELSE IF engine # "parallel" THEN {IF Overflows(input) THEN "panicked" ELSE "returned"}
    ELSE IF OverflowsSomewhere THEN {"returned", "panicked"} ELSE {"returned"}

EveryCallEnds == <>(status \in Endings)
=============================================================================
