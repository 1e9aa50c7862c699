------------------------------ MODULE GroupBy ------------------------------
(***************************************************************************)
(* The query  SELECT key, SUM(val) FROM t WHERE val > threshold            *)
(* GROUP BY key  and the building blocks its engines share                 *)
(* (src/engine/aggregate.rs, naive.rs, vectorized.rs).                     *)
(*                                                                         *)
(* A table is a sequence of batches and a batch is a sequence of rows      *)
(* [key, val]: the columns keys and vals have num_rows entries each, as    *)
(* data_gen builds them.  A HashMap<u32, i64> is a function whose domain   *)
(* is the set of keys present; sorted_results only fixes the order in      *)
(* which its entries are listed and is the identity here.                  *)
(***************************************************************************)
EXTENDS Int64, SequencesExt

CONSTANTS Threshold,   \* QueryParams.threshold
          BatchSize    \* BATCH_SIZE, the bits of a selection bitmap

ASSUME ThresholdAssumption == InRange(Threshold)
ASSUME BatchSizeAssumption == BatchSize \in Nat

EmptyMap == <<>>

ValueAt(map, k) == IF k \in DOMAIN map THEN map[k] ELSE 0

\* *map.entry(k).or_insert(0) += v
AddTo(map, k, v) ==
    [x \in DOMAIN map \cup {k} |->
        IF x = k THEN Wrap(ValueAt(map, k) + v) ELSE map[x]]

-----------------------------------------------------------------------------
Passes(row) == row.val > Threshold

\* evaluate_predicate: the selection bitmap, as the set of its one bits ...
EvaluatePredicate(batch) == {i \in DOMAIN batch : Passes(batch[i])}

\* ... unless it sets a bit that the bitmap does not have: set panics.
PredicatePanics(batch) == \E i \in EvaluatePredicate(batch) : i > BatchSize

Oversized(batches) == \E b \in DOMAIN batches : PredicatePanics(batches[b])

\* The first n rows of aggregate_selected's scan.
AggregateFirst(batch, sel, n, map) ==
    FoldLeft(LAMBDA m, i : IF i \in sel
                           THEN AddTo(m, batch[i].key, batch[i].val)
                           ELSE m,
             map, [i \in 1 .. n |-> i])

AggregateSelected(batch, sel, map) == AggregateFirst(batch, sel, Len(batch), map)

AggregateNeverPanics(batch, sel, map) == FALSE

\* With overflow checks, some addition of aggregate_selected panics.
AggregatePanics(batch, sel, map) ==
    \E i \in sel :
        ~InRange(ValueAt(AggregateFirst(batch, sel, i - 1, map), batch[i].key)
                    + batch[i].val)

MergeOverwrites(global, map) ==
    [k \in DOMAIN global \cup DOMAIN map |->
        IF k \in DOMAIN map THEN map[k] ELSE global[k]]

\* merge_maps: every entry of every map is added into one map.
MergeInto(global, map) ==
    [k \in DOMAIN global \cup DOMAIN map |->
        Wrap(ValueAt(global, k) + ValueAt(map, k))]

MergeMaps(maps) == FoldLeft(MergeInto, EmptyMap, maps)

MergeNeverPanics(maps) == FALSE

\* With overflow checks, some addition of merge_maps panics.
MergePanics(maps) ==
    \E p \in DOMAIN maps : \E k \in DOMAIN maps[p] :
        ~InRange(ValueAt(MergeMaps(SubSeq(maps, 1, p - 1)), k) + maps[p][k])

-----------------------------------------------------------------------------
(***************************************************************************)
(* naive::execute, row by row: what every other engine is tested against.  *)
(***************************************************************************)
NaiveBatch(map, batch) ==
    FoldLeft(LAMBDA m, row : IF Passes(row) THEN AddTo(m, row.key, row.val) ELSE m,
             map, batch)

Naive(batches) == FoldLeft(NaiveBatch, EmptyMap, batches)

\* With overflow checks, some addition of naive::execute panics.
Overflows(batches) ==
    \E b \in DOMAIN batches :
        AggregatePanics(batches[b], EvaluatePredicate(batches[b]),
                        Naive(SubSeq(batches, 1, b - 1)))

\* filtered_keys and filtered_vals.
Filtered(batch) ==
    FoldLeft(LAMBDA rows, row : IF Passes(row) THEN Append(rows, row) ELSE rows,
             <<>>, batch)

\* vectorized::execute_early: copy the passing rows, then aggregate the copy.
EarlyBatch(map, batch) ==
    FoldLeft(LAMBDA m, row : AddTo(m, row.key, row.val),
             map, Filtered(batch))

ExecuteEarly(batches) == FoldLeft(EarlyBatch, EmptyMap, batches)

\* vectorized::execute_late: a selection bitmap, then only the selected rows.
\* What it returns when it does: it panics on an Oversized table.
LateBatch(map, batch) == AggregateSelected(batch, EvaluatePredicate(batch), map)

ExecuteLate(batches) == FoldLeft(LateBatch, EmptyMap, batches)

-----------------------------------------------------------------------------
(***************************************************************************)
(* The query's meaning, independent of any order: one group per key with a *)
(* passing row, and the sum of the values of its passing rows.             *)
(***************************************************************************)
Rows(batches) == UNION {{b} \X DOMAIN batches[b] : b \in DOMAIN batches}

RowAt(batches, p) == batches[p[1]][p[2]]

PassingRows(batches) == {p \in Rows(batches) : Passes(RowAt(batches, p))}

Groups(batches) == {RowAt(batches, p).key : p \in PassingRows(batches)}

ExactSum(batches, k) ==
    SumFunctionOnSet([p \in Rows(batches) |-> RowAt(batches, p).val],
                     {p \in PassingRows(batches) : RowAt(batches, p).key = k})

Answer(batches) == [k \in Groups(batches) |-> Wrap(ExactSum(batches, k))]
=============================================================================
