------------------------------- MODULE Int64 -------------------------------
(***************************************************************************)
(* i64, scaled down: -IntBound .. IntBound - 1 stands for -2^63 .. 2^63-1. *)
(***************************************************************************)
EXTENDS Integers

CONSTANT IntBound

ASSUME IntBoundAssumption == IntBound \in Nat \ {0}

InRange(x) == x \in -IntBound .. IntBound - 1

WrapNothing(x) == x

\* The i64 that x wraps around to: wrapping_add and its like, and + in a
\* build without overflow checks.
Wrap(x) == ((x + IntBound) % (2 * IntBound)) - IntBound
=============================================================================
