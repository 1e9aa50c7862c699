----------------------------- MODULE MCSpscRing -----------------------------
(***************************************************************************)
(* Bounds for TLC: a ring of two slots and seven pushes, so that every slot*)
(* is written at least three times and the ring fills and drains while     *)
(* either thread holds a stale index.                                      *)
(***************************************************************************)
EXTENDS SpscRing

CONSTANTS a, b

MCItem == {a, b}
=============================================================================
