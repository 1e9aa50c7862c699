# A TLA+ project for mini-vec-engine

`mini-vec-engine` answers one analytic query,
`SELECT key, SUM(val) FROM t WHERE val > threshold GROUP BY key`, with a dozen
engines that must all agree, and carries the pieces around them: a lock-free
ring buffer, an open-addressing hash table, a filter language with a simplifier
and a pruner, and sort-merge joins. This directory models those pieces in TLA+,
checks them with TLC on small instances and proves with TLAPS, for every
instance, that the ring, the joins, the bitmap, the filter language and each of
the query engines (sequential, rayon, pipelined, partitioned, adaptive, arena) do
what they should. Paths below are those of the repository (`src/…`).

Contents: [1 inventory](#1-the-system) · [2 modules](#2-the-modules-and-the-code) ·
[3 runs](#3-the-runs) · [4 fairness](#4-fairness) · [5 proofs](#5-the-proofs) ·
[6 findings](#6-where-the-code-and-its-documentation-part) ·
[7 what is left out](#7-abstractions-and-what-is-not-modelled) · [8 plan](#8-plan)

## 1. The system

| component | state | operations | interacts with | correct when |
|---|---|---|---|---|
| SPSC ring `spsc.rs` | `buf`, `head`, `tail` | `push`, `pop`, `len`, `is_empty` | the two threads of `execute_pipelined` | it is a bounded FIFO queue; no access to a slot races |
| naive, early, late engines `naive.rs`, `vectorized.rs`, `aggregate.rs`, `mod.rs` | one `HashMap` | `execute`, `execute_early`, `execute_late`, `evaluate_predicate`, `aggregate_selected` | building blocks of all other engines | the answer is one wrapped sum per key with a passing row |
| parallel engine `parallel::execute` | a map per rayon piece | fold, collect, `merge_maps` | rayon | the answer does not depend on the split or the interleaving |
| pipelined engine `execute_pipelined` | ring, consumer's map | producer loop, consumer loop, two joins | SPSC ring, two spawned threads | it returns, with the answer; panics reach the caller |
| partitioned, adaptive engines `execute_partitioned`, `adaptive_execute_partitioned` | key range, partitions, a map per partition | discover, plan, cut, assign, aggregate, chain | pruning, rayon | partitions tile the key range, so that chaining maps loses nothing |
| profiled copy `execute_partitioned_profiled`, `timing.rs` | the same, four timers, `QueryProfile` | the same | the same | as above, and its stages do not overlap |
| instrumented engines `instrumented.rs` | `HashMap`, `StageLatency` | copies of `execute`, `execute_early`, `execute_late` with time stamps | latency buffer | the answer, and a sample per batch and stage |
| latency buffer `latency_buf.rs` | `samples`, `idx` | `record`, `finish`, `reset` | instrumented engines | `finish` lists what was recorded, in order |
| arena hash table `arena_agg.rs` | `keys`, `vals`, `occupied`, `len` | `insert_or_add`, `iter`, `merge_arena_tables` | `aggregate_selected_arena` | a key is found again; probing ends |
| bitmap `bitmap.rs` | words | set, clear, get, and, or, not, shl, shr, lazy iterator | all engines, the evaluator | it behaves as a set of row numbers |
| pruning `pruning.rs` | min/max per column | `from_batch`, `can_prune` | partitioned engines, filters | a pruned batch has no matching row |
| expression evaluator `expr.rs` | – | `evaluate_expr` | bitmaps, bloom filter, simplifier | it selects the rows that satisfy the expression |
| simplifier `simplify.rs` | – | `simplify` | called by `evaluate_expr` | the result is equivalent |
| bloom filter `bloom.rs` | bits | `insert`, `contains` | `In` lists | no false negatives |
| joins `join.rs` | three cursors, output | `sort_merge_join`, `left_outer_join` | – | the relational join, each pair once |
| data generator, histogram, timers, CLI, benches | | | | not modelled, see section 7 |

Behaviour that is hard to test, and what the properties are aimed at
(`PROJECT.json`, "hazards", lists it line by line):

* two threads without locks on the ring, under acquire/release memory, where
  each acts on an old value of the other's index;
* the producer's wait for room and its later push as two steps, and the end of
  the stream encoded as a chunk without keys;
* a panic of one thread while the other waits for it, and a caller that joins
  them in a fixed order; a batch longer than the bitmap that selects from it;
* sums that overflow in one order of the rows and not in another, where overflow is checked;
* shifts that carry between words, and an iterator that must pass zero words;
* partial sums that wrap around `i64`, merged in any order;
* `u32` arithmetic at the top of the key range, and a final chaining of maps
  that is right only if no key is in two of them;
* probe chains around the end of the table, and a table that is full;
* an expression that is rewritten before it is evaluated, by an evaluator in
  which an operator means one thing on a column and another on a bitmap;
* runs of duplicates on both sides of a join, and one side running out first.

Build modes matter: the release profile (`Cargo.toml`) has no overflow checks
and aborts on panic; the dev and test profiles check overflow and
`debug_assert!` and unwind. `ArenaHashTable` has the constant `DebugBuild` for it;
in `BatchEngines`, `Partitioned` and `Pipeline` it is a variable, `debug`, chosen with the call.
In `Pipeline` a panic ends the thread when `debug` holds, and the process
(`mstate = "aborted"`) otherwise; in the other two a panic, of a worker of rayon
too, ends the call in either build, and what becomes of the process is not told apart.

## 2. The modules and the code

`PROJECT.json`, "map", gives the lines of every definition. Each engine module
keeps `input` (the table) and `answers` (what was returned, none or one), and
implements `Query`.

* **`BoundedFifo`** – abstract: `Enqueue`, `Dequeue` over the histories `sent`, `rcvd`.
* **`SpscRing`** – `spsc.rs`. A call of `push` is `PushRefused`, or `PushAdmitted`
  (both loads and the test for full), `PushWrite` (the slot) and `PushPublish`
  (the release store of `tail`); `pop` is `PopRefused`, or `PopAdmitted`,
  `PopRead`, `PopFree`. Memory: `headVis` is what the producer's loads of
  `head` can return (it lags arbitrarily behind `head` and only grows,
  `HeadReachesProducer`), `headAcq` what it has *acquired*; likewise
  `tailVis`, `tailAcq`. `ProducerLen`/`ConsumerLen` are `len()` called by
  either owner. A thread's load of its own index is exact, so it is one step with the
  load of the other's.
* **`Int64`** – wrapping arithmetic on a scaled-down `i64`.
* **`GroupBy`** – `aggregate.rs`, `naive.rs`, `vectorized.rs` as operators by
  folds over rows (`AddTo`, `AggregateSelected`, `MergeMaps`, `Naive`,
  `EarlyBatch`, `LateBatch`), and the query's meaning as sets and sums (`Answer`),
  independent of any order. These say what is computed; where the code panics instead
  is said next to them: `PredicatePanics` (a bit beyond `BatchSize` is set, in every build),
  `AggregatePanics` and `MergePanics` (a sum overflows, with overflow checks); `Oversized` and
  `Overflows` say the same of a table.
* **`Query`** – abstract: one call, at most one answer, and it is `Answer(input)`.
* **`BatchEngines`** – the engines that fold whole batches. The sequential ones have one
  piece; for rayon the initial state chooses any contiguous split into pieces
  and `FoldLate` any interleaving of them; `Collect` merges. `PanicInFold` and `PanicInMerge` end
  the call where a fold or `merge_maps` panics. `TimedNaive`,
  `TimedEarly` and `TimedLate` are the loops of `instrumented.rs`: they fold as
  the engines they copy and record into `lat`, where a sample is known by its batch.
* **`LatencyBuffer`** – `latency_buf.rs` as operators: `Record` overwrites, or
  pushes when the array is full; `Finish` cuts the array at `idx`.
* **`Pipeline`** – `execute_pipelined`, composed with `SpscRing` (instance
  `Ring`, of which every ring access is a step): the producer waits for room
  (`ProducerSeesRoom`), pushes (`ProducerPush`, `ProducerWrites`,
  `ProducerPublishes`) and goes on, with the sentinel last; the consumer pops
  (`ConsumerPops`, `ConsumerTakes`) and stops, panics or aggregates; the caller
  joins the producer and then the consumer. `ProducerPanics` is `PredicatePanics` of
  the next batch; `ConsumerPanics` is a sum that overflows with overflow checks.
* **`Partitioned`** – both partitioned engines and the profiled copy, told apart by `plan`: `Discover`
  (pruning included; `PanicInScan` where a batch that is not pruned is too long), `Plan`, one `CutBucket` per turn of the adaptive loop and
  `CutLast`, `Assign`, an `AggregateRow` per worker and row, `Combine` (chaining).
  A partition's `rows` are the ones still to aggregate, as a set: a worker takes
  them in the order of the scan that assigned them (`Before`).
  Keys are `u32`, `% KeyBound`. In the profiled copy every action takes a cycle
  (`now`); `Lap` is where a stage's timer is read and the next one made.
* **`ArenaHashTable`** – `insert_or_add` probe by probe (`BeginInsert`, then
  `InsertHere`, `Accumulate` or `Collide`) for an arbitrary hash function, inside
  `aggregate_selected_arena` (one table per batch) and `merge_arena_tables`.
* **`BitSet`** – abstract: a set of positions, with union, intersection, complement and moves.
* **`Bitmap`** – `bitmap.rs` word by word: `Set`, `Clear`, `AndWith`, `OrWith`,
  `Negate`, `Shl` and `Shr` with `CarryLeft` and `CarryRight`, and the iterator a step at a
  time (`BeginIteration`, `Yield`, `NextWord`, `Exhaust`, and `Break` for a
  caller that stops early). It implements `BitSet`; the other modules use the set.
* **`Expressions`** – the AST, as the set `Expr` of trees up to a height; `EvaluateImpl` over
  bitmaps with the fast path for a column and a literal and the bloom filter; where it panics
  (`EvaluatePanics`); `Simplify` with `FoldBinary` (which panics where `SimplifyPanics`), De Morgan (`PushNot`),
  flattening (`Flattened`, `Junction`) and `SimplifyIn`; and `EvalRow`, the row-by-row evaluator
  the unit tests of `expr.rs` compare with. What the code computes by recursion over the
  tree is a recursive function on `Expr`, defined by an operator for one level
  (`EvaluateStep`, `PanicsStep`, `SimplifyStep`, `ValueStep`, `RowStep`; in `FilterScan`
  `PruneStep`) that is given the function for the parts.
* **`FilterScan`** – a batch under a filter: `Prune` (statistics and `can_prune`),
  `SimplifyExpr` and `Evaluate` (the two halves of `evaluate_expr`), either of which may panic.
* **`SortMergeJoin`** – both joins, one action per loop turn: the `scan` loop
  (`SkipRight`, `SkipLeft`, `BeginRun`), the nested loops over a run (`Emit`,
  `NextLeft`, `EndRun`), the loop that skips the run in `right` (`SkipRun`,
  `Resume`), `Return`.
* **`GroupBy_proofs`** – theorems about the query itself, used by those of all engines;
  **`SpscRing_proofs`**, **`Bitmap_proofs`**,
  **`BatchEngines_proofs`** (with the latency buffer), **`Pipeline_proofs`** (on top
  of `SpscRing_proofs`), **`Partitioned_proofs`**, **`ArenaHashTable_proofs`** –
  theorems about one module each; **`Operators_proofs`** – theorems about the two operators
  that no engine of the query uses, `SortMergeJoin` and `FilterScan` (with `Expressions`).
* **`MC…`** – values of the constants for TLC.

## 3. The runs

| run | instance | what it shows |
|---|---|---|
| `ring` | CAP 2, 7 pushes of 2 items | `RaceFree`, `UnreadIntact`, `OwnerLenInRange`; it implements `BoundedFifo` with its fairness; everything is delivered |
| `engines` | ≤ 3 of 4 batches, 3 pieces, `i64` = −4..3, bitmap of 3 bits, two batches that are longer; with and without overflow checks | `MergedIsAnswer` at every moment; naive, early, late, rayon and instrumented engines implement `Query`; an answer returned with overflow checks is exact; every call returns or panics as it should; `OneSamplePerBatch` |
| `pipeline` | ring of 2, bitmap of 2 bits; ≤ 4 batches in release, ≤ 3 with overflow checks, and the sentinel | no admitted push is refused, the consumer's map is always the answer of a prefix, an answer returned with overflow checks is exact; it implements `Query`, and every call ends as it should: returned, panicked or aborted |
| `partitioned` | 1 or 2 threads, keys 0..63 with 0, 62 and 63 used, bitmap of 16 bits, batches of 17 rows; with and without overflow checks | tiling, rows in range, disjoint keys, all three functions implement `Query`, wrapping included; they panic on a row beyond the bitmap, an overflowing sum and (overflow checked) key `u32::MAX`, else every call returns; the stages of a profile do not overlap |
| `arena` | 3 keys, all 64 hashes into 4 slots, `EMPTY_KEY` among the keys | probe chains, load, implements `Query` |
| `filter` | ≈ 4 250 expressions × 18 batches | evaluation agrees with row-by-row evaluation, pruning is sound, the selection is respected, evaluating a simplified filter panics only if evaluating it as written would |
| `bitmap` | 3 words of 3 bits, shifts by 0..10 | it implements `BitSet`; the iterator lists the members in order |
| `join` | all pairs of sorted columns, ≤ 3 rows over 3 keys | the output is the join at every moment, in order, and it returns |
| `pipeline_empty_batch`, `pipeline_panic`, `partitioned_max_key`, `simplify` | one counterexample each | section 6 |

Why the bounds are enough. *ring*: with two slots and seven pushes each slot is
rewritten at least twice more, and the ring is full, empty and neither while
either side holds any stale view; CAP beyond that is covered by the proofs.
*pipeline*: five chunks against two slots, so the producer waits for room more
than once; a batch with a row beyond the bitmap comes in a variant whose extra row
passes and one whose does not. With overflow checks the tables are short enough
that the ring holds the chunks after an overflow: longer ones hang, which is the
run `pipeline_panic`. *bitmap*: a word in the middle has both neighbours, so a carry can
come from either side and go to either; every one of the 512 bitmaps is reached, zero words in
all places among them, and the shifts cover zero, parts of a word, whole words and
more than all of them. *engines*: partial sums that wrap in either direction, a group whose
sum is zero and one key in every piece; merging is pairwise, so three pieces exercise an
intermediate result; of the two batches longer than the bitmap one has a qualifying row beyond it and one has not;
sums overflow within a batch, between batches and only between pieces. *partitioned*: two threads give 8 uniform partitions and
32 histogram buckets, of two keys each where the range is wide, one dense enough for the
smallest and one for an intermediate partition size; key 63 = `u32::MAX` makes the last border
wrap. *arena*: a table asked for two or three keys has four slots and takes all
three; chains of length three wrap around its end for some hashes. *filter*: both
passes (push-down of `Not`, flattening) act on one level and its children, so
three levels reach every combination of rewrites; `i64` and `u32` are scaled so that the cast in `In` collides; `f64` has two binary places and saturates, so that quotients are
not whole numbers; batches have `num_rows` below, at and without
the columns' length. *join*: a run needs at most two rows on a side to have a repeated
inner loop, and a third row to stand before or after it.

The passing runs have from a few thousand to some 300 000 distinct states; the slowest takes less than a minute.
Every property of a passing run has a mutant of a mapped definition (a dropped wait,
a relaxed load, a forgotten remainder, a probe by two …) that violates it; the
mutants are the operators defined next to the definition they change.

## 4. Fairness

* *Threads.* Weak fairness of each thread's own actions (`Producer`, `Pop` or
  `Consumer`, `Caller`): the threads are operating system threads that are
  never blocked except in `join`, so each keeps being scheduled while it has
  a step. Both wait in `yield_now` loops: waiting is retrying.
* *Memory.* Weak fairness of `HeadReachesProducer`/`TailReachesConsumer` (in the
  pipeline `IndexPropagates`): the language promises that a store becomes
  visible in a finite time.
* *Engines.* `WF_vars(Next)` where one thread, or rayon's pool, has the work;
  rayon runs every task to its end and `collect` waits for all of them.
* There is no strong fairness, and none on a choice between two outcomes.

## 5. The proofs

Assumptions, all on constants, named where the constant is declared and
evaluated by TLC in every run:

| assumption | says | because |
|---|---|---|
| `CapAssumption`, `PipelineAssumption` | CAP is a power of two; the number of batches is a natural; the inputs are tables | `SpscRing::new` asserts it |
| `UninitAssumption`, `RingAssumption` | uninitialised memory is not an item, or chunk | `MaybeUninit` |
| `MaxPushAssumption` | the number of pushes is a natural | – |
| `JoinAssumption` | keys are integers, columns have a bounded length | – |
| `BitmapAssumption` | at least one word and one bit; masks are bitmaps, shifts are naturals | – |
| `IntBoundAssumption`, `ThresholdAssumption` | the range of an `i64` is not empty, the threshold is one | types |
| `BatchSizeAssumption` | the number of bits of a selection bitmap is a natural | `BATCH_SIZE` |
| `BatchEnginesAssumption` | tables are sequences of sequences of rows, there is at least one piece | types |
| `PartitionedAssumption` | `u32` has a value, there is at least one thread, keys are `u32` and values `i64` | types, rayon |
| `ArenaAssumption` | keys are naturals, `EMPTY_KEY` among them; a table is asked for at least one key | `ArenaHashTable::new` asserts `capacity > 0`; types |
| `SelectionAssumption` | no batch that the arena aggregates has a qualifying row beyond a bitmap | its rows come in a selection, a bitmap that has been made |
| `FloatAssumption` | comparing two `f64` gives a Boolean, computing with them an `f64`; nothing else | types |
| `ExpressionsAssumption` | the height of a tree and the longest list without a bloom filter are naturals, `u32` has a value | the call stack bounds the height; types |
| `FilterAssumption` | a filter is an expression; a batch has columns of `i64`, selected rows and a number of rows, in no relation to each other | types |

Two results have a hypothesis of their own. What `Pipeline` returns is right, and exact, on
tables without an empty batch (`NoEmptyBatch`); that is what the code needs, too: the
finding `pipeline_empty_batch` is the counterexample otherwise. And `LateAnswers` is about tables
that are not `Oversized`, since on the others `execute_late` returns nothing. In `BatchEngines`, `Partitioned` and
`Pipeline` such a table is an input like any other, and the call panics.

**The query** (`GroupBy_proofs`). Everything about the engines rests on
`AnswerOver(t, R)`, the answer over the rows `R` of the table `t`, and on two facts:
one `entry(k).or_insert(0) += v` turns the answer over `R` into that over one
row more (`OneRowMore`), and `MergeInto` turns the answers over two disjoint
sets of rows into that over their union (`TwoMapsMerge`), both also where sums have
wrapped, since wrapping at every step and wrapping once at the end agree (`WrapPlus`,
`WrapSum`). `LateAdds`, `NaiveAdds` and `EarlyAdds` say of the three loops over a
batch, as folds of any length, that they add the batch's passing rows, and
`LateAnswers`, `NaiveAnswers` and `EarlyAnswers` that the loops over all batches compute `Answer`: so
`Naive`, to which the tests compare everything, is the abstract answer (in a build without overflow checks). `MapsMerge` says of `merge_maps` that any number of maps of disjoint rows merge
into the one of all of them. `StaysExact`: a fold that does not panic with overflow
checks leaves no sum wrapped, and `MergeStaysExact` that neither does a `merge_maps` that does not, of maps in which
none is. The folds and sums of the library are functions defined
by recursion over sets; that they exist and unfold is `FoldExists`, `SumFacts`,
`LoopExists`, by a first-order induction (`NatInd`, `UpTo`, `SubsetInd`: the set of
the numbers for which a statement holds takes the place of a predicate).

**Batch engines** (`BatchEngines_proofs`, for every table, split and interleaving). `FoldInv`:
the map of a piece is the answer over the rows of its folded batches, exact with overflow checks, there is an answer
only once all batches are folded, and an engine
without rayon has one piece. Results: `MapsAddUp` (`MergedIsAnswer`), `TypeCorrect`, `Refinement`
(`ImplementsQuery`: nothing but the answer is returned, once, and nothing after a panic) and `ReturnsExact` (`AnswerExact`:
no sum has wrapped on the way, in a fold or where the pieces are merged). For the instrumented
engines `Measured` adds that the batches folded are the first `n` and that the
buffers hold the samples of these: `SamplesInOrder` (`OneSamplePerBatch`). The latency buffer, for
every set of samples and capacity: `StaysInBounds` (the unchecked write and the slice of `finish` are
in bounds), `RecordAppends`, `ResetEmpties`, `RecordStaysInPlace` (no
allocation before the array is full).

**Ring** (`SpscRing_proofs`, for every CAP, item set and number of pushes).
`UnreadIntact` is not inductive: it says nothing of why a thread that is in the
middle of an operation still has the room it saw. The invariant adds
`ViewsOrdered` (a view never passes the index it views, and what is acquired
never passes the view; `tail - headVis <= CAP`), `PushHasRoom` (during a push
the *acquired* head leaves room, and the slot holds the item before it is
published), `PopHasItem` (during a pop the acquired tail is beyond `head`) and
`HistoryMatches`. The step that needs arithmetic is that two indices less
than CAP apart have different slots (`SlotsDistinct`): so a push disturbs no
unread slot. Results: `TypeCorrect`, `NothingLost` (`UnreadIntact`), `LenSafe`
(`OwnerLenInRange`), `NoDataRace` (`RaceFree`: any earlier access of the same
slot by the other thread is at least CAP away, hence below what was acquired) and
`Refinement` (the ring implements `BoundedFifo!Spec`: `PushPublish` is `Enqueue`,
`PopFree` is `Dequeue`, all else stutters).

**Pipeline** (`Pipeline_proofs`, for every ring capacity, table and
interleaving, in both builds). The invariant `PInv` is the ring's own, of `SpscRing_proofs`, with
three parts. `ProducerInv`: what was sent are the first chunks in order, and in
`"push"` there is room by what the producer saw. `ConsumerInv`: what was received is a
prefix of the chunks, the map is the answer over the batches of that prefix but for the chunk in
hand, and exact with overflow checks. `CallerInv`: who has been joined is done, and an answer is
the consumer's map. Results: `RingUsedAsSpecified` (every step of the pipeline is a step
of the ring or none, so all of its theorems hold, `SlotsRaceFree` among
them), `PushAdmitted` (`PushNeverRefused`: the room that `len()` showed is still there
at the `push`, because the consumer only makes more), `PrefixAggregated`
(`AggregatedPrefix`), `TypeCorrect`, and under `NoEmptyBatch` `ReturnsExact` (`AnswerExact`) and
`Refinement` (`ImplementsQuery`).

**Partitioned engines** (`Partitioned_proofs`, for every width of the keys, number of threads and
table, in both builds). The invariant: `Scanned` (the scan found the passing rows, pruned batches have
none, and their keys lie between `keyMin` and `keyMax`), `Cutting` (the adaptive loop has cut
partitions that tile the keys up to `currentLo`, with ascending borders, and `currentLo` is not
beyond the bucket it is at), `Tiled` (the finished partitions tile the whole range; at most the last
border has wrapped to 0), and `Dealt` (some function of the *key* says which partition each
row went to; a worker's map is the answer over the rows of its partition that are done; and where nothing has
wrapped the key lies in `[lo, hi)`). `Dealt` is why nothing is lost although the
binary search may run on an unsorted list: it needs rows of one key to stay together, not where they
go. The arithmetic is in `StubsTile` (n equal stubs and a last one with the remainder tile the
range, also where `key_max - key_min + 1` wraps to 0), `StubOfKey` (the index that is computed is that of the
stub the key lies in) and `SearchFinds` (so is the one found by binary search). Results: `Tiling`
(`PartitionsTile`), `RowsInTheirRange` (`RowsInRange`), `KeysDisjoint` (`DisjointKeys`), `MapsChain` (chaining
maps without a common key is the answer over all their rows), `TypeCorrect`, `Refinement`
(`ImplementsQuery`) and, with an invariant of its own on the timers (`Timing`: the stages
that have ended lie before the running timer's start), `StagesTimed` (`StagesWithinTotal`).

**Arena table** (`ArenaHashTable_proofs`, for every hash function, key set, capacity and
table of rows, in both builds). `ProbeChains` alone does not survive an insertion: one must know that the probe that ended
at a free slot has passed nothing but occupied ones with other keys. The invariant `AInv` adds `Probing`
(exactly that) and `HoldsRows` (a table holds each key of the rows it was given in one slot, with its sum).
That `next_power_of_two` finds a capacity at all is `PowerBetween`.
Results: `ChainsWhole` (`ProbeChains`), `LoadBounded` (`LoadBelowThreeQuarters`: while the rows have no more keys than were asked for,
a probe meets a free slot), `TypeCorrect`, `Refinement` (`Query!Spec`, merging of
the batches' tables included; where an addition panics, in a debug build, no answer is returned).

**Joins** (`Operators_proofs`, for every key set and length). `EmittedSoFar`
alone does not survive skipping a row: one must know that what lies behind the cursor of
`right` cannot match any row of `left` still to come. The invariant adds
`RightBehind` (exactly that), `InRun` (inside a run, `right` has only the run's
key from `dup` to `rj`, smaller keys before, and `left` no smaller key ahead)
and `PastRun` (after it, `left` has moved past its key). Results: `TypeCorrect` (no
cursor leaves its column), `NothingMissed` (`EmittedSoFar`),
`PartialCorrectness` (`ReturnsJoin`, which includes the order) and `InOrder` (`EmittedInOrder` at every moment).

**Filters** (`Operators_proofs`, for every expression of every height, every batch, integer width
and choice of bits in the bloom filter). The scan itself has three steps, and its invariant (`ScanIInv`, lemma `ScanInvariant`) only says
which call has left what behind; the work is in what the calls compute, by induction over the tree.
That induction is proved, not assumed: `NatInd` and `TreesUnfold` give `TreeInduction` (a set of
expressions that has an expression whenever it has its parts has them all) and `Recursion` (a step that
looks at the values of the parts only, `…Local`, and keeps a type, `…Typed`, defines one function),
from which every recursive function of `Expressions` and `FilterScan` unfolds (`EvaluationUnfolds`,
`PanicsUnfolds`, `SimplifyUnfolds`, `CanPruneUnfolds`, `EvalRowUnfolds` …). `SimplifyUnfolds` includes that
no rewrite makes a tree higher. Then, bottom up: `PushNotEvaluates` (De Morgan, relative to the
selection), `FlattenedEvaluates` and `JunctionEvaluates` (flattening, neutral and absorbing parts),
`SimplifiedIn` (an `In` list leaves the rows whose value it has, whatever the bloom filter says and though duplicates are
gone), `FlippedHolds` (operands exchanged, `WrapZero` for the subtraction), `FoldedLiterals`; and
`JunctionPanics`, `PushNotPanics`: what is read after simplification was read before. Nothing is
used of `f64` but `FloatAssumption`. Results: `RowByRow`
(`MatchesRowByRow`), `SelectionKept` (`SelectionRespected`), `NoNewPanics` (`PanicsOnlyAsWritten`: about
evaluating the simplified filter; that folding itself brings no panic is false, see section 6) and
`PruningSound` (`PruneSound`). The last holds of every expression, filter or not, and needs two facts more. One is `StatsBound`:
the minimum and maximum bound what can be read, although a column may be shorter or longer than the batch. The
other is a normal form, `SimplifyClean` (no junction of a simplified expression has a part TRUE or FALSE): an `Or`
may be pruned because all its parts are, although simplification has dropped one of them that would panic and
never evaluates it; that can only be because another part is TRUE, which cannot be pruned.

**Bitmap** (`Bitmap_proofs`, for every number of words and of bits in a word). A
position is `word * B + bit` in exactly one way (`Compose`, `Division`,
`PositionOf`, `MemberAt`), so a statement about words becomes one about
members. `ShlMoves` and `ShrMoves` then say that the two terms of a shifted word, the bits
of the source word and the carry of its neighbour, are the members moved by
the shift, no more and no less. The iterator's invariant adds to `ListsMembers`
that what remains of the word is part of it and lies above all that was
listed. Results: `TypeCorrect`, `IteratorComplete` (`ListsMembers`), `Refinement`
(`ImplementsBitSet`).

Only model-checked, and why:

* liveness and `ENABLED`, which the prover does not handle: `AllDelivered`, `ImplementsFairFifo`, `Returns`,
  `EveryCallEnds` of the pipeline, the batch and the partitioned engines, `ConsumerPanicReported`, and of the arena
  table's `ImplementsQuery` that the aggregation does return (its `Refinement` is the safety half; in the other
  engines, which may panic, `ImplementsQuery` is safety and `EveryCallEnds` the rest);
* the findings of section 6, which are counterexamples.

## 6. Where the code and its documentation part

Runs that end in a violation:

1. `pipeline_empty_batch` – a batch without rows is taken for the sentinel
   (`parallel.rs:160-163`): later batches are lost. If more chunks follow than
   the ring holds, the producer also waits for ever.
2. `pipeline_panic` – if the consumer panics and more chunks follow than the
   ring holds, the caller waits for ever in `producer.join()` and never reports it.
3. `partitioned_max_key` – with overflow checks a qualifying key `u32::MAX`
   panics both partitioned engines on `key_max + 1`. (Without them the answer is right:
   `partitioned` covers it.)
4. `simplify` – removing a double negation turns a comparison of
   bitmaps into one of values: `Not(Not(col)) > 0` becomes `col > 0`. With `Exprs <- MinByMinusOne` the same
   property fails for another reason: `i64::MIN / -1` of two literals panics while it is folded (`simplify.rs:166`), in
   every build; as written it is evaluated by combining two truth bitmaps (`expr.rs:141-144`) and does not.

Noticed while modelling, without a run:

* With overflow checks `parallel::execute` may panic where the naive engine returns (`aggregate.rs:30`, called
  at `parallel.rs:75`), because a piece adds up its rows from zero: with `i64` = −4..3, a group that is 3 in the
  first batch and −3, −3 in two batches of another piece. `EveryCallEnds` of `BatchEngines` allows it where
  consecutive batches overflow by themselves (`OverflowsSomewhere`) and nowhere else; what is returned is
  exact (`AnswerExact`, proved).
* `evaluate_expr` may leave bits beyond `num_rows` set (a true literal, `And([])`,
  `Not`), where its comment (`expr.rs:74-75`) says they are clear; so `MatchesRowByRow` and
  `PruneSound` speak of rows up to `num_rows`.
* `ArenaHashTable::insert_or_add` probes for ever when the table is full and the
  key is not in it; no caller fills it beyond what it asked for.
* A division of a literal by a column is evaluated as column by literal; `IsFilter` in `FilterScan`
  excludes it from the comparison with the row-by-row evaluator.
* A batch longer than `BATCH_SIZE` with a qualifying row beyond it panics the
  engines that go through a bitmap, where naive and early return (`EveryCallEnds` of each engine says which); `data_gen`
  makes no such batch. In the pipelined engine it is the producer that panics; the caller
  learns of it, but the detached consumer spins on the empty ring for the life of the process.
* The doc comment of `LatencyBuffer::record` (`latency_buf.rs:17`) promises "no branch"; the code
  branches on the capacity.

## 7. Abstractions, and what is not modelled

* A `HashMap` is a function; `sorted_results` fixes the order of its listing and is left out. A
  bitmap is the set of its one bits everywhere but in `Bitmap`, which shows
  that this is what it is; there a word is the set of its one bits.
* `usize` indices of the ring do not wrap (2^64 pushes). `len()` is modelled for
  the two owners, not for a third thread, which no code in `src/` is. The
  aliasing of `&mut *buf.get()` by both threads is outside the model.
* In the query engines the columns have `num_rows` entries, as `data_gen`
  builds them; in `FilterScan` `num_rows` and the columns' length differ.
* A `binary_search` among borders that are not sorted gives any result, the same for the same key.
* The `f64` arithmetic of `adaptive_partition_size` is exact. The `f64` of expressions and its
  comparisons and operators are arbitrary constants (`FloatCompare`, `FloatCompute`). A bloom filter's size and hash are an arbitrary fixed choice of bits
  per key.
* A payload of a join is known by its row.
* `next_power_of_two` does not overflow: a table is asked for less than 2^62 keys.
* A turn of a wait loop that changes nothing is a stuttering step.

* The clock of the profiled copy counts one cycle per action; that the hardware's
  counter never goes back is taken for granted.

Not modelled: `popcount` and the raw word accessors, which only tests call; `reset` of
the latency buffer in a run (it is proved about), which only tests call; the
reports the instrumented engines and profiles print; `expr_to_string`; the sizing of a
bloom filter by `f64` formulas; the data generator (the models take any
table instead, and it makes no batch that is empty or too long); histogram, TSC
calibration, environment, command line and benches, which are measurement and I/O.

## 8. Plan

Done, in this order: ring (model, proofs) → query semantics and batch
engines → pipeline on the ring → partitioned engines → arena table →
expressions, simplifier, pruning → joins (model, proofs) → bitmap (model,
proofs) → latency buffer and instrumented engines (model, proofs) → panics and both builds in the pipeline,
the batch engines and the partitioned engines → profiled copy → the query's
algebra, batch engines, pipeline, arena table and partitioned engines (proofs) → expressions as
functions over trees, filters (proofs) → the
loops over whole tables and the arena's capacity (proofs).

Left: nothing of the inventory that has a state to model. What could be added is the third
reader of the ring's `len()` (section 7) and the bloom filter's sizing.
