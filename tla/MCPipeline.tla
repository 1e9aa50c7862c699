----------------------------- MODULE MCPipeline -----------------------------
(***************************************************************************)
(* Inputs for TLC.  i64 is -4 .. 3, so 3 + 3 wraps; value 0 does not pass  *)
(* the predicate val > 0.  The ring has two slots instead of 64, fewer     *)
(* than the longest table has chunks, and a bitmap two bits.               *)
(***************************************************************************)
EXTENDS Pipeline

Row(k, v) == [key |-> k, val |-> v]

TwoKeys == <<Row(1, 3), Row(2, 1)>>
OneKey == <<Row(1, 3)>>
NonePass == <<Row(2, 0)>>

\* Batches longer than the bitmap: the third row passes, or does not.
TooLong == <<Row(1, 1), Row(2, 1), Row(2, 1)>>
LongEnough == <<Row(1, 1), Row(2, 1), Row(2, 0)>>

Tables(batch, n) == UNION {[1 .. m -> batch] : m \in 0 .. n}

In(build, tables) == [table : tables, debug : {build = "debug"}]

\* With overflow checks the tables are short enough that the ring holds all
\* that follows a panic of the consumer.
MCCalls ==
    In("release", Tables({TwoKeys, OneKey, NonePass}, 4) \cup Tables({OneKey, TooLong}, 3))
    \cup In("debug", Tables({TwoKeys, OneKey, TooLong, LongEnough}, 3))

\* A first batch without rows, alone in front of one other batch.
EmptyBatchFirst == In("release", {<< <<>>, OneKey>>})

\* The sums of the first two batches overflow; more chunks follow.
OverflowThenMany == In("debug", {<<OneKey, OneKey, OneKey, OneKey, OneKey>>})
=============================================================================
