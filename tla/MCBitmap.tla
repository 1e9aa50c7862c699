------------------------------ MODULE MCBitmap ------------------------------
(***************************************************************************)
(* Three words of three bits, so that a shift carries into and out of a    *)
(* word in the middle, and shifts by every amount up to more than all of   *)
(* them.  Any of the 512 bitmaps is reached.                               *)
(***************************************************************************)
EXTENDS Bitmap

MCMasks == {<<{0, 2}, {}, {1}>>, <<{}, {0, 1, 2}, {0}>>}

MCWords == {[i \in Word |-> m[i + 1]] : m \in MCMasks}

MCShifts == 0 .. 10
=============================================================================
