--------------------------- MODULE MCPartitioned ---------------------------
(***************************************************************************)
(* u32 is 0 .. 63.  With one or two threads the uniform plan makes up to 8 *)
(* partitions and the adaptive one a histogram of up to 32 buckets, of two *)
(* keys where the range is wide.  The Dense tables have a bucket dense     *)
(* enough to get the smallest and an intermediate partition size; a batch  *)
(* of 16 rows is as long as a bitmap, and the Long ones are longer.        *)
(***************************************************************************)
EXTENDS Partitioned

Row(k, v) == [key |-> k, val |-> v]

Times(n, row) == [i \in 1 .. n |-> row]

SmallBatch(keys) == UNION {[1 .. n -> {Row(k, 3) : k \in keys}] : n \in 1 .. 2}

NoRows == <<>>
NonePass == <<Row(63, 0), Row(0, 0)>>
SomePass == <<Row(0, 0), Row(7, 3), Row(63, 0)>>

Tables(keys) ==
    {<<b>> : b \in SmallBatch(keys)}
      \cup {<<NonePass, b, SomePass, NoRows>> : b \in SmallBatch(keys)}
      \cup {<<>>, <<NonePass, NoRows>>}

Dense(n, top) == {<<Times(n, Row(1, 1)), <<Row(0, 1), Row(20, 2), Row(top, 3)>>>>}

\* Row 17 passes or not; in the last batch no row does, and it is skipped.
Long ==
    LET long(key, last) == Append(Times(16, Row(key, 0)), last)
    IN  {<<SomePass, long(1, Row(7, 3))>>, <<SomePass, long(1, Row(7, 0))>>,
         <<long(1, Row(7, -1)), SomePass>>}

WrapTables ==
    Tables({0, 1, 40, 62, 63}) \cup Dense(16, 62) \cup Dense(3, 62) \cup Long

MaxKeyTable == {<<<<Row(5, 1), Row(63, 1)>>>>}
=============================================================================
