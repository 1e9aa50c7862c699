--------------------------- MODULE MCBatchEngines ---------------------------
(***************************************************************************)
(* Bounds for TLC.  i64 is -4 .. 3 and every value but i64::MIN passes the *)
(* predicate.  The four batches have, between them, no rows, a sum that    *)
(* wraps in either direction with its neighbours, a row that does not      *)
(* pass, and a key whose sum is zero; three batches in three pieces give   *)
(* every way of splitting a key over workers.  A bitmap has three bits:    *)
(* of the two batches of four rows one has a qualifying row beyond it.     *)
(***************************************************************************)
EXTENDS BatchEngines

Row(k, v) == [key |-> k, val |-> v]

MCThreshold == -4

Batches == {<<>>,
            <<Row(1, 3)>>,
            <<Row(1, -3), Row(2, -4)>>,
            <<Row(2, 2), Row(1, 3), Row(2, -2)>>}

LongBatches == {<<Row(2, -4), Row(1, 1), Row(1, -4), Row(2, 1)>>,
                <<Row(2, 1), Row(1, 1), Row(1, -4), Row(2, -4)>>}

Tables ==
    UNION {[1 .. n -> Batches] : n \in 0 .. 3}
      \cup [1 .. 1 -> LongBatches]
      \cup {<<b, c>> : b \in Batches \cup LongBatches, c \in LongBatches}
=============================================================================
