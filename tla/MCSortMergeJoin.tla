-------------------------- MODULE MCSortMergeJoin --------------------------
(***************************************************************************)
(* Every pair of sorted columns of up to three rows over three keys: empty *)
(* columns, runs of any length on both sides, and keys of either side      *)
(* before, between and after those of the other.                           *)
(***************************************************************************)
EXTENDS SortMergeJoin

MCKey == -1 .. 1
=============================================================================
