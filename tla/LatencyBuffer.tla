---------------------------- MODULE LatencyBuffer ----------------------------
(***************************************************************************)
(* bench_infra::LatencyBuffer: a flat array of samples, allocated before   *)
(* the hot path, and the index of the next one.  Past the end of the array *)
(* record falls back to a push.                                            *)
(***************************************************************************)
EXTENDS Integers, Sequences

WithCapacity(n) == [samples |-> [i \in 1 .. n |-> 0], idx |-> 0]

RecordAlwaysPushes(buf, cycles) ==
    [samples |-> Append(buf.samples, cycles), idx |-> buf.idx + 1]

Record(buf, cycles) ==
    [samples |-> IF buf.idx < Len(buf.samples)
                 THEN [buf.samples EXCEPT ![buf.idx + 1] = cycles]
                 ELSE Append(buf.samples, cycles),
     idx |-> buf.idx + 1]

Reset(buf) == [buf EXCEPT !.idx = 0]

\* What has been recorded since the last reset, in order.
Finish(buf) == SubSeq(buf.samples, 1, buf.idx)

Capacity(buf) == Len(buf.samples)

-----------------------------------------------------------------------------
\* The buffers of samples in Cycles; idx stays within the array.
Buffers(Cycles) ==
    {buf \in [samples : Seq(Cycles), idx : Nat] : buf.idx <= Len(buf.samples)}
=============================================================================
