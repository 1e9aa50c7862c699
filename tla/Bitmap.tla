------------------------------- MODULE Bitmap -------------------------------
(***************************************************************************)
(* Bitmap<W> of src/bitmap.rs, word by word: single bits, the bitwise      *)
(* operations, the shifts with their carries between words, and the lazy   *)
(* iterator over the set bits.  A u64 is the set of its one bits.          *)
(*                                                                         *)
(* The operations that return a new bitmap replace the one at hand here.   *)
(* The iterator borrows the bitmap, so nothing changes it meanwhile.       *)
(***************************************************************************)
EXTENDS Integers, Sequences, FiniteSetsExt

CONSTANTS W,        \* the const generic W
          B,        \* bits of a word: 64
          Masks,    \* the other operands of and, or
          Shifts    \* the arguments of shl, shr

Word == 0 .. W - 1
Bit == 0 .. B - 1
Position == 0 .. W * B - 1

ASSUME BitmapAssumption ==
    /\ W \in Nat \ {0} /\ B \in Nat \ {0}
    /\ Masks \subseteq [Word -> SUBSET Bit]
    /\ Shifts \subseteq Nat

VARIABLES words,
          mode,    \* "idle", "iterating" or "exhausted"
          at,      \* the iterator's word
          rest,    \* the bits of it still to come
          listed   \* the positions yielded so far

iterVars == <<mode, at, rest, listed>>
vars == <<words, iterVars>>

-----------------------------------------------------------------------------
\* The u64 operators << and >> by n < 64; bits shifted out are lost.
ShiftedLeft(word, n) == {b + n : b \in word} \cap Bit
ShiftedRight(word, n) == {b - n : b \in word} \cap Bit

Zeroed == [i \in Word |-> {}]
AllOnes == [i \in Word |-> Bit]

\* get, of the bitmap with the words w.
Get(w, p) == p % B \in w[p \div B]

(***************************************************************************)
(* shl and shr: word_off whole words and bit_off bits, with a carry from   *)
(* the neighbouring word unless bit_off is zero.                           *)
(***************************************************************************)
CarryLeftLost(i, off, n) == {}

CarryLeft(i, off, n) ==
    IF n = 0 \/ i = off THEN {} ELSE ShiftedRight(words[i - off - 1], B - n)

CarryRight(i, off, n) ==
    IF n = 0 \/ i + off + 1 >= W THEN {} ELSE ShiftedLeft(words[i + off + 1], B - n)

ShlWords(n) ==
    [i \in Word |-> IF i < n \div B THEN {}
                    ELSE ShiftedLeft(words[i - n \div B], n % B)
                            \cup CarryLeft(i, n \div B, n % B)]

ShrWords(n) ==
    [i \in Word |-> IF i + n \div B >= W THEN {}
                    ELSE ShiftedRight(words[i + n \div B], n % B)
                            \cup CarryRight(i, n \div B, n % B)]

-----------------------------------------------------------------------------
Init ==
    /\ words \in {Zeroed, AllOnes}
    /\ mode = "idle"
    /\ at = 0 /\ rest = {} /\ listed = <<>>

\* The bitmap is not borrowed; an earlier iterator is gone.
Change ==
    /\ mode # "iterating"
    /\ mode' = "idle" /\ at' = 0 /\ rest' = {} /\ listed' = <<>>

SetFromOne(p) ==
    /\ Change
    /\ words' = [words EXCEPT ![p \div B] = @ \cup {(p % B) + 1}]

Set(p) ==
    /\ Change
    /\ words' = [words EXCEPT ![p \div B] = @ \cup {p % B}]

Clear(p) ==
    /\ Change
    /\ words' = [words EXCEPT ![p \div B] = @ \ {p % B}]

AndWith(other) ==
    /\ Change
    /\ words' = [i \in Word |-> words[i] \cap other[i]]

OrWith(other) ==
    /\ Change
    /\ words' = [i \in Word |-> words[i] \cup other[i]]

Negate ==
    /\ Change
    /\ words' = [i \in Word |-> Bit \ words[i]]

Shl(n) ==
    /\ Change
    /\ words' = IF n = 0 THEN words
                ELSE IF n >= W * B THEN Zeroed ELSE ShlWords(n)

Shr(n) ==
    /\ Change
    /\ words' = IF n = 0 THEN words
                ELSE IF n >= W * B THEN Zeroed ELSE ShrWords(n)

(***************************************************************************)
(* iter_set_bits: the bits of a word by trailing_zeros, each removed by    *)
(* w & (w - 1), then the next word that is not zero.                       *)
(***************************************************************************)
Lowest == Min(rest)

BeginIteration ==
    /\ mode # "iterating"
    /\ mode' = "iterating"
    /\ at' = 0 /\ rest' = words[0] /\ listed' = <<>>
    /\ UNCHANGED words

Yield ==
    /\ mode = "iterating"
    /\ rest # {}
    /\ listed' = Append(listed, at * B + Lowest)
    /\ rest' = rest \ {Lowest}
    /\ UNCHANGED <<words, mode, at>>

\* Before the filter, a zero word yielded its trailing_zeros, B.
NextWordUnfiltered ==
    /\ mode = "iterating"
    /\ rest = {} /\ at + 1 < W
    /\ at' = at + 1
    /\ rest' = IF words[at + 1] = {} THEN {B} ELSE words[at + 1]
    /\ UNCHANGED <<words, mode, listed>>

NextWord ==
    /\ mode = "iterating"
    /\ rest = {} /\ at + 1 < W
    /\ at' = at + 1
    /\ rest' = words[at + 1]
    /\ UNCHANGED <<words, mode, listed>>

Exhaust ==
    /\ mode = "iterating"
    /\ rest = {} /\ at + 1 = W
    /\ mode' = "exhausted"
    /\ UNCHANGED <<words, at, rest, listed>>

\* The loop around the iterator breaks, as aggregate_selected does at num_rows.
Break ==
    /\ mode = "iterating"
    /\ mode' = "idle" /\ at' = 0 /\ rest' = {} /\ listed' = <<>>
    /\ UNCHANGED words

Iterate == BeginIteration \/ Yield \/ NextWord \/ Exhaust \/ Break

Next ==
    \/ \E p \in Position : Set(p) \/ Clear(p)
    \/ \E other \in Masks : AndWith(other) \/ OrWith(other)
    \/ Negate
    \/ \E n \in Shifts : Shl(n) \/ Shr(n)
    \/ Iterate

Spec == Init /\ [][Next]_vars

-----------------------------------------------------------------------------
TypeOK ==
    /\ words \in [Word -> SUBSET Bit]
    /\ mode \in {"idle", "iterating", "exhausted"}
    /\ at \in Word
    /\ rest \subseteq Bit
    /\ listed \in Seq(Position)

\* The positions whose bit is one.
MembersOf(w) == {p \in Position : Get(w, p)}

Members == MembersOf(words)

Abstract == INSTANCE BitSet WITH N <- W * B,
                                 Masks <- {MembersOf(other) : other \in Masks},
                                 bits <- Members

(***************************************************************************)
(* Any sequence of operations does to the words what it should do to the   *)
(* set of positions: no carry is lost or doubled, whatever the shift, and  *)
(* not sets no bit that is not there.                                      *)
(***************************************************************************)
ImplementsBitSet == Abstract!Spec

\* The positions that the iterator has come past.
Passed(p) == p \div B < at \/ (p \div B = at /\ p % B \notin rest)

(***************************************************************************)
(* The iterator yields the set bits in ascending order, each once: at any  *)
(* time exactly those it has come past, and when it ends all of them,      *)
(* whatever words are zero.                                                *)
(***************************************************************************)
Ascending == \A m, n \in DOMAIN listed : m < n => listed[m] < listed[n]

Listed == {listed[n] : n \in DOMAIN listed}

ListsMembers ==
    /\ Ascending
    /\ mode = "iterating" => Listed = {p \in Members : Passed(p)}
    /\ mode = "exhausted" => Listed = Members
=============================================================================
