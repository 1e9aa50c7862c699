------------------------------- MODULE BitSet -------------------------------
(***************************************************************************)
(* What a bitmap of N bits promises: it is a set of positions below N.     *)
(* Listing the positions changes nothing, so it is a stuttering step.      *)
(***************************************************************************)
EXTENDS Integers

CONSTANTS N, Masks, Shifts  \* as in Bitmap, the masks as sets of positions

VARIABLE bits

Position == 0 .. N - 1

\* zeroed() or all_ones().
Init == bits = {} \/ bits = Position

Add(p) == bits' = bits \cup {p}
Remove(p) == bits' = bits \ {p}

Meet(others) == bits' = bits \cap others
Join(others) == bits' = bits \cup others
Complement == bits' = Position \ bits

\* Move every position up or down by n; what leaves 0 .. N - 1 is lost.
MoveUp(n) == bits' = {p + n : p \in bits} \cap Position
MoveDown(n) == bits' = {p - n : p \in bits} \cap Position

Next ==
    \/ \E p \in Position : Add(p) \/ Remove(p)
    \/ \E others \in Masks : Meet(others) \/ Join(others)
    \/ Complement
    \/ \E n \in Shifts : MoveUp(n) \/ MoveDown(n)

Spec == Init /\ [][Next]_bits
=============================================================================
