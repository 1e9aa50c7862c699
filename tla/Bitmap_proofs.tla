--------------------------- MODULE Bitmap_proofs ---------------------------
(***************************************************************************)
(* Theorems about the bitmap, for every number of words and of bits in a   *)
(* word: its operations are those of the set of its positions, and its     *)
(* iterator lists that set.                                                *)
(***************************************************************************)
EXTENDS Bitmap, TLAPS, WellFoundedInduction

-----------------------------------------------------------------------------
(***************************************************************************)
(* A position is a word and a bit in it, and the two determine it.         *)
(***************************************************************************)
\* A word and a bit make a position, and no other pair makes the same one.
LEMMA Compose ==
    ASSUME NEW a \in Int, NEW b \in Bit
    PROVE  (a * B + b) \div B = a /\ (a * B + b) % B = b
<1> DEFINE p == a * B + b
           q == p \div B
           r == p % B
<1>1. B \in Nat /\ B > 0 /\ b \in Int /\ 0 <= b /\ b < B
  BY BitmapAssumption DEF Bit
<1>2. p \in Int
  BY <1>1
<1>3. q \in Int /\ r \in 0 .. B - 1 /\ p = B * q + r
  BY <1>1, <1>2
<1> HIDE DEF q, r
<1>4. B * (a - q) = r - b
  BY <1>1, <1>3
<1>5. ~(a - q >= 1)
  <2>1. a - q >= 1 => B * (a - q) >= B
    BY <1>1, <1>3
  <2> QED
    BY <2>1, <1>1, <1>3, <1>4
<1>6. ~(a - q <= -1)
  <2>1. a - q <= -1 => B * (a - q) <= -B
    BY <1>1, <1>3
  <2> QED
    BY <2>1, <1>1, <1>3, <1>4
<1>7. a = q
  BY <1>3, <1>5, <1>6
<1> QED
  BY <1>1, <1>3, <1>7 DEF q, r

\* A position's quotient is a word and its remainder a bit, and they make it.
LEMMA Division ==
    ASSUME NEW p \in Position
    PROVE  /\ p \div B \in Word /\ p % B \in Bit
           /\ p = (p \div B) * B + (p % B)
<1> DEFINE q == p \div B
           r == p % B
<1>1. B \in Nat /\ B > 0 /\ W \in Nat /\ p \in Int /\ 0 <= p /\ p < W * B
  BY BitmapAssumption DEF Position
<1>2. q \in Int /\ r \in 0 .. B - 1 /\ p = q * B + r
  BY <1>1
<1> HIDE DEF q, r
<1>3. q >= 0
  <2>1. q <= -1 => q * B <= -B
    BY <1>1, <1>2
  <2> QED
    BY <1>1, <1>2, <2>1
<1>4. q < W
  <2>1. q >= W => q * B >= W * B
    BY <1>1, <1>2
  <2> QED
    BY <1>1, <1>2, <2>1
<1> QED
  BY <1>1, <1>2, <1>3, <1>4 DEF q, r, Word, Bit

\* A bit of a word is a position.
LEMMA PositionOf ==
    ASSUME NEW i \in Word, NEW b \in Bit
    PROVE  i * B + b \in Position
<1>1. B \in Nat /\ W \in Nat /\ i \in Nat /\ i <= W - 1 /\ b \in Nat /\ b <= B - 1
  BY BitmapAssumption DEF Word, Bit
<1>2. i * B <= (W - 1) * B
  BY <1>1
<1>3. (W - 1) * B = W * B - B
  BY <1>1
<1> QED
  BY <1>1, <1>2, <1>3 DEF Position

\* Bit b of word a, for an a that may lie outside of the bitmap.
LEMMA MemberAt ==
    ASSUME words \in [Word -> SUBSET Bit], NEW a \in Int, NEW b \in Bit
    PROVE  a * B + b \in Members <=> a \in Word /\ b \in words[a]
<1>1. (a * B + b) \div B = a /\ (a * B + b) % B = b
  BY Compose
<1>2. ASSUME a \in Word
      PROVE  a * B + b \in Position
  BY <1>2, PositionOf
<1>3. ASSUME a * B + b \in Position
      PROVE  a \in Word
  BY <1>1, <1>3, Division
<1> QED
  BY <1>1, <1>2, <1>3 DEF Members, MembersOf, Get

-----------------------------------------------------------------------------
(***************************************************************************)
(* shl: bit j of word i comes from the position n below it, which lies in  *)
(* word i - off, or below it in word i - off - 1.                          *)
(***************************************************************************)
\* After shl the members are the old ones moved up by n, as far as they fit.
LEMMA ShlMoves ==
    ASSUME words \in [Word -> SUBSET Bit], NEW n \in Nat
    PROVE  MembersOf(ShlWords(n)) = {p + n : p \in Members} \cap Position
<1> DEFINE off == n \div B
           r == n % B
<1>1. B \in Nat /\ B > 0 /\ W \in Nat
  BY BitmapAssumption
<1>2. off \in Nat /\ r \in 0 .. B - 1 /\ n = off * B + r
  BY <1>1
<1> HIDE DEF off, r
<1>3. ASSUME NEW q \in Position
      PROVE  q \in MembersOf(ShlWords(n)) <=> q - n \in Members
  <2> DEFINE i == q \div B
             j == q % B
  <2>1. i \in Word /\ j \in Bit /\ q = i * B + j
    BY Division
  <2> HIDE DEF i, j
  <2>2. i \in Nat /\ i < W /\ j \in Nat /\ j < B
    BY <2>1, <1>1 DEF Word, Bit
  <2>3. q \in MembersOf(ShlWords(n)) <=>
          /\ i >= off
          /\ \/ j \in ShiftedLeft(words[i - off], r)
             \/ j \in CarryLeft(i, off, r)
    BY <2>1, <2>2, <1>2 DEF MembersOf, Get, ShlWords, i, j, off, r
  <2>4. i >= off => words[i - off] \subseteq Bit
    BY <2>2, <1>2, <1>1 DEF Word
  <2>5. i > off => words[i - off - 1] \subseteq Bit
    BY <2>2, <1>2, <1>1 DEF Word
  <2>6. CASE r <= j
    <3>1. j - r \in Bit
      BY <2>2, <1>2, <1>1, <2>6 DEF Bit
    <3>2. q - n = (i - off) * B + (j - r)
      BY <2>1, <2>2, <1>1, <1>2
    <3>3. q - n \in Members <=> i - off \in Word /\ j - r \in words[i - off]
      BY <3>1, <3>2, <2>2, <1>2, MemberAt
    <3>4. i >= off => (j \in ShiftedLeft(words[i - off], r) <=> j - r \in words[i - off])
      BY <3>1, <2>1, <2>2, <1>2, <2>4, <1>1 DEF ShiftedLeft, Bit
    <3>5. i >= off => j \notin CarryLeft(i, off, r)
      BY <2>2, <2>5, <2>6, <1>2, <1>1 DEF CarryLeft, ShiftedRight, Bit
    <3>6. i - off \in Word <=> i >= off
      BY <2>2, <1>2, <1>1 DEF Word
    <3> QED
      BY <2>3, <3>3, <3>4, <3>5, <3>6
  <2>7. CASE j < r
    <3>1. j - r + B \in Bit
      BY <2>2, <1>2, <1>1, <2>7 DEF Bit
    <3>2. q - n = (i - off - 1) * B + (j - r + B)
      BY <2>1, <2>2, <1>1, <1>2
    <3>3. q - n \in Members <=> i - off - 1 \in Word /\ j - r + B \in words[i - off - 1]
      BY <3>1, <3>2, <2>2, <1>2, MemberAt
    <3>4. i >= off => j \notin ShiftedLeft(words[i - off], r)
      BY <2>2, <1>2, <2>4, <2>7, <1>1 DEF ShiftedLeft, Bit
    <3>5. i > off => (j \in CarryLeft(i, off, r) <=> j - r + B \in words[i - off - 1])
      BY <3>1, <2>1, <2>2, <2>5, <2>7, <1>2, <1>1 DEF CarryLeft, ShiftedRight, Bit
    <3>6. i = off => j \notin CarryLeft(i, off, r)
      BY DEF CarryLeft
    <3>7. i - off - 1 \in Word <=> i > off
      BY <2>2, <1>2, <1>1 DEF Word
    <3> QED
      BY <2>2, <2>3, <1>2, <3>3, <3>4, <3>5, <3>6, <3>7
  <2> QED
    BY <2>2, <1>2, <2>6, <2>7
<1>4. ASSUME NEW q \in Position
      PROVE  q \in {p + n : p \in Members} <=> q - n \in Members
  BY <1>1, \A p \in Members : p \in Int DEF Position, Members, MembersOf
<1>5. MembersOf(ShlWords(n)) \subseteq Position
  BY DEF MembersOf
<1> QED
  BY <1>3, <1>4, <1>5

(***************************************************************************)
(* shr, likewise, from the position n above.                               *)
(***************************************************************************)
LEMMA ShrMoves ==
    ASSUME words \in [Word -> SUBSET Bit], NEW n \in Nat
    PROVE  MembersOf(ShrWords(n)) = {p - n : p \in Members} \cap Position
<1> DEFINE off == n \div B
           r == n % B
<1>1. B \in Nat /\ B > 0 /\ W \in Nat
  BY BitmapAssumption
<1>2. off \in Nat /\ r \in 0 .. B - 1 /\ n = off * B + r
  BY <1>1
<1> HIDE DEF off, r
<1>3. ASSUME NEW q \in Position
      PROVE  q \in MembersOf(ShrWords(n)) <=> q + n \in Members
  <2> DEFINE i == q \div B
             j == q % B
  <2>1. i \in Word /\ j \in Bit /\ q = i * B + j
    BY Division
  <2> HIDE DEF i, j
  <2>2. i \in Nat /\ i < W /\ j \in Nat /\ j < B
    BY <2>1, <1>1 DEF Word, Bit
  <2>3. q \in MembersOf(ShrWords(n)) <=>
          /\ i + off < W
          /\ \/ j \in ShiftedRight(words[i + off], r)
             \/ j \in CarryRight(i, off, r)
    BY <2>1, <2>2, <1>1, <1>2 DEF MembersOf, Get, ShrWords, i, j, off, r
  <2>4. i + off < W => words[i + off] \subseteq Bit
    BY <2>2, <1>1, <1>2 DEF Word
  <2>5. i + off + 1 < W => words[i + off + 1] \subseteq Bit
    BY <2>2, <1>1, <1>2 DEF Word
  <2>6. CASE j + r < B
    <3>1. j + r \in Bit
      BY <2>2, <1>2, <1>1, <2>6 DEF Bit
    <3>2. q + n = (i + off) * B + (j + r)
      BY <2>1, <2>2, <1>1, <1>2
    <3>3. q + n \in Members <=> i + off \in Word /\ j + r \in words[i + off]
      BY <3>1, <3>2, <2>2, <1>2, MemberAt
    <3>4. i + off < W => (j \in ShiftedRight(words[i + off], r) <=> j + r \in words[i + off])
      BY <3>1, <2>1, <2>2, <1>2, <2>4, <1>1 DEF ShiftedRight, Bit
    <3>5. i + off < W => j \notin CarryRight(i, off, r)
      BY <2>2, <2>5, <2>6, <1>2, <1>1 DEF CarryRight, ShiftedLeft, Bit
    <3>6. i + off \in Word <=> i + off < W
      BY <2>2, <1>2, <1>1 DEF Word
    <3> QED
      BY <2>3, <3>3, <3>4, <3>5, <3>6
  <2>7. CASE j + r >= B
    <3>1. j + r - B \in Bit
      BY <2>2, <1>2, <1>1, <2>7 DEF Bit
    <3>2. q + n = (i + off + 1) * B + (j + r - B)
      BY <2>1, <2>2, <1>1, <1>2
    <3>3. q + n \in Members <=> i + off + 1 \in Word /\ j + r - B \in words[i + off + 1]
      BY <3>1, <3>2, <2>2, <1>2, MemberAt
    <3>4. i + off < W => j \notin ShiftedRight(words[i + off], r)
      BY <2>2, <1>2, <2>4, <2>7, <1>1 DEF ShiftedRight, Bit
    <3>5. i + off + 1 < W => (j \in CarryRight(i, off, r) <=> j + r - B \in words[i + off + 1])
      BY <3>1, <2>1, <2>2, <2>5, <2>7, <1>2, <1>1 DEF CarryRight, ShiftedLeft, Bit
    <3>6. i + off + 1 >= W => j \notin CarryRight(i, off, r)
      BY DEF CarryRight
    <3>7. i + off + 1 \in Word <=> i + off + 1 < W
      BY <2>2, <1>2, <1>1 DEF Word
    <3> QED
      BY <2>2, <2>3, <1>2, <1>1, <3>3, <3>4, <3>5, <3>6, <3>7
  <2> QED
    BY <2>2, <1>1, <1>2, <2>6, <2>7
<1>4. ASSUME NEW q \in Position
      PROVE  q \in {p - n : p \in Members} <=> q + n \in Members
  BY <1>1, \A p \in Members : p \in Int DEF Position, Members, MembersOf
<1>5. MembersOf(ShrWords(n)) \subseteq Position
  BY DEF MembersOf
<1> QED
  BY <1>3, <1>4, <1>5

-----------------------------------------------------------------------------
\* A set of bits has a least one: trailing_zeros.
LEMMA LeastBit ==
    ASSUME NEW S \in SUBSET Bit, S # {}
    PROVE  Min(S) \in S /\ \A b \in S : Min(S) <= b
<1>1. S \subseteq Nat
  BY BitmapAssumption DEF Bit
<1>2. \E x \in S : \A y \in S : ~(<<y, x>> \in OpToRel(<, Nat))
  BY <1>1, WFMin, NatLessThanWellFounded, Zenon
<1>3. PICK x \in S : \A y \in S : ~(<<y, x>> \in OpToRel(<, Nat))
  BY <1>2
<1>4. ASSUME NEW y \in S
      PROVE  x =< y
  <2>1. x \in Nat /\ y \in Nat
    BY <1>1
  <2>2. <<y, x>> \in OpToRel(<, Nat) <=> y < x
    BY <2>1 DEF OpToRel
  <2>3. ~(<<y, x>> \in OpToRel(<, Nat))
    BY <1>3, Zenon
  <2>4. ~(y < x)
    BY <2>2, <2>3, Zenon
  <2> QED
    BY <2>1, <2>4
<1> QED
  BY <1>4 DEF Min

\* The other operations, on the words and on the set.
LEMMA ChangedWords ==
    ASSUME TypeOK
    PROVE  /\ \A p \in Position :
                 /\ Set(p) => Abstract!Add(p) /\ TypeOK'
                 /\ Clear(p) => Abstract!Remove(p) /\ TypeOK'
           /\ \A other \in Masks :
                 /\ AndWith(other) => Abstract!Meet(MembersOf(other)) /\ TypeOK'
                 /\ OrWith(other) => Abstract!Join(MembersOf(other)) /\ TypeOK'
           /\ Negate => Abstract!Complement /\ TypeOK'
<1>1. 0 \in Word /\ Masks \subseteq [Word -> SUBSET Bit]
  BY BitmapAssumption DEF Word
<1>2. \A q \in Position : q \div B \in Word /\ q % B \in Bit
  BY Division
<1>3. ASSUME NEW p \in Position, NEW q \in Position
      PROVE  q \div B = p \div B /\ q % B = p % B => q = p
  BY Division
<1>4. ASSUME Change, words' \in [Word -> SUBSET Bit]
      PROVE  TypeOK'
  BY <1>1, <1>4 DEF Change, TypeOK
<1>5. Position = 0 .. (W * B) - 1
  BY DEF Position
<1> USE <1>1, <1>2, <1>3 DEF TypeOK
<1>6. ASSUME NEW p \in Position, Set(p)
      PROVE  Abstract!Add(p) /\ TypeOK'
  <2>1. words' = [words EXCEPT ![p \div B] = @ \cup {p % B}]
    BY <1>6 DEF Set
  <2>2. words' \in [Word -> SUBSET Bit]
    BY <2>1
  <2>3. Members' = Members \cup {p}
    BY <2>1 DEF Members, MembersOf, Get
  <2> QED
    BY <1>4, <1>6, <2>2, <2>3 DEF Set, Abstract!Add
<1>7. ASSUME NEW p \in Position, Clear(p)
      PROVE  Abstract!Remove(p) /\ TypeOK'
  <2>1. words' = [words EXCEPT ![p \div B] = @ \ {p % B}]
    BY <1>7 DEF Clear
  <2>2. words' \in [Word -> SUBSET Bit]
    BY <2>1
  <2>3. Members' = Members \ {p}
    BY <2>1 DEF Members, MembersOf, Get
  <2> QED
    BY <1>4, <1>7, <2>2, <2>3 DEF Clear, Abstract!Remove
<1>8. ASSUME NEW other \in Masks, AndWith(other)
      PROVE  Abstract!Meet(MembersOf(other)) /\ TypeOK'
  <2>1. Members' = Members \cap MembersOf(other)
    BY <1>8 DEF AndWith, Members, MembersOf, Get
  <2> QED
    BY <1>4, <1>8, <2>1 DEF AndWith, Abstract!Meet
<1>9. ASSUME NEW other \in Masks, OrWith(other)
      PROVE  Abstract!Join(MembersOf(other)) /\ TypeOK'
  <2>1. Members' = Members \cup MembersOf(other)
    BY <1>9 DEF OrWith, Members, MembersOf, Get
  <2> QED
    BY <1>4, <1>9, <2>1 DEF OrWith, Abstract!Join
<1>10. ASSUME Negate
       PROVE  Abstract!Complement /\ TypeOK'
  <2>1. Members' = Position \ Members
    BY <1>10 DEF Negate, Members, MembersOf, Get
  <2> QED
    BY <1>4, <1>5, <1>10, <2>1 DEF Negate, Abstract!Complement, Abstract!Position
<1> QED
  BY <1>6, <1>7, <1>8, <1>9, <1>10

\* A shift by n, with the early returns for 0 and for all bits and more.
LEMMA ShiftedWords ==
    ASSUME TypeOK, NEW n \in Shifts
    PROVE  /\ Shl(n) => Abstract!MoveUp(n) /\ TypeOK'
           /\ Shr(n) => Abstract!MoveDown(n) /\ TypeOK'
<1>1. n \in Nat /\ W * B \in Nat /\ W * B > 0 /\ 0 \in Word
  BY BitmapAssumption DEF Word
<1>2. words \in [Word -> SUBSET Bit] /\ Members \subseteq Position
  BY DEF TypeOK, Members, MembersOf
<1>3. Position = 0 .. (W * B) - 1 /\ Position \subseteq Int
  BY DEF Position
<1>4. ASSUME Change, words' \in [Word -> SUBSET Bit]
      PROVE  TypeOK'
  BY <1>1, <1>4 DEF Change, TypeOK
<1>5. Zeroed \in [Word -> SUBSET Bit] /\ MembersOf(Zeroed) = {}
  BY Division DEF Zeroed, MembersOf, Get
<1>6. ASSUME Shl(n)
      PROVE  Abstract!MoveUp(n) /\ TypeOK'
  <2>1. Members' = MembersOf(words')
    BY DEF Members
  <2>2. ShlWords(n) \in [Word -> SUBSET Bit]
    BY DEF ShlWords, CarryLeft, ShiftedLeft, ShiftedRight
  <2>3. MembersOf(words') = {p + n : p \in Members} \cap Position
    <3>1. CASE n = 0
      BY <1>2, <1>3, <1>6, <3>1 DEF Shl, Members
    <3>2. CASE n >= W * B
      <4>1. MembersOf(words') = {}
        <5>1. n # 0
          BY <1>1, <3>2
        <5>2. words' = Zeroed
          BY <1>6, <3>2, <5>1 DEF Shl
        <5> QED
          BY <1>5, <5>2
      <4>2. \A p \in Members : p + n \notin Position
        BY <1>1, <1>2, <1>3, <3>2
      <4> QED
        BY <4>1, <4>2
    <3>3. CASE n # 0 /\ ~(n >= W * B)
      BY <1>1, <1>2, <1>6, <3>3, ShlMoves DEF Shl
    <3> QED
      BY <3>1, <3>2, <3>3
  <2>4. words' \in [Word -> SUBSET Bit]
    BY <1>2, <1>5, <1>6, <2>2 DEF Shl
  <2> QED
    BY <1>3, <1>4, <1>6, <2>1, <2>3, <2>4 DEF Shl, Abstract!MoveUp, Abstract!Position
<1>7. ASSUME Shr(n)
      PROVE  Abstract!MoveDown(n) /\ TypeOK'
  <2>1. Members' = MembersOf(words')
    BY DEF Members
  <2>2. ShrWords(n) \in [Word -> SUBSET Bit]
    BY DEF ShrWords, CarryRight, ShiftedLeft, ShiftedRight
  <2>3. MembersOf(words') = {p - n : p \in Members} \cap Position
    <3>1. CASE n = 0
      BY <1>2, <1>3, <1>7, <3>1 DEF Shr, Members
    <3>2. CASE n >= W * B
      <4>1. MembersOf(words') = {}
        <5>1. n # 0
          BY <1>1, <3>2
        <5>2. words' = Zeroed
          BY <1>7, <3>2, <5>1 DEF Shr
        <5> QED
          BY <1>5, <5>2
      <4>2. \A p \in Members : p - n \notin Position
        BY <1>1, <1>2, <1>3, <3>2
      <4> QED
        BY <4>1, <4>2
    <3>3. CASE n # 0 /\ ~(n >= W * B)
      BY <1>1, <1>2, <1>7, <3>3, ShrMoves DEF Shr
    <3> QED
      BY <3>1, <3>2, <3>3
  <2>4. words' \in [Word -> SUBSET Bit]
    BY <1>2, <1>5, <1>7, <2>2 DEF Shr
  <2> QED
    BY <1>3, <1>4, <1>7, <2>1, <2>3, <2>4 DEF Shr, Abstract!MoveDown, Abstract!Position
<1> QED
  BY <1>6, <1>7

-----------------------------------------------------------------------------
(***************************************************************************)
(* The inductive invariant adds to the properties that what is left of the *)
(* iterator's word lies above what it has come past in it.                 *)
(***************************************************************************)
RestAbove ==
    mode = "iterating" =>
        /\ rest \subseteq words[at]
        /\ \A b \in words[at] \ rest, c \in rest : b < c

IInv == TypeOK /\ RestAbove /\ ListsMembers

\* The invariant holds initially.
LEMMA Initially == Init => IInv
<1> SUFFICES ASSUME Init PROVE IInv
  OBVIOUS
<1>1. 0 \in Word
  BY BitmapAssumption DEF Word
<1>2. TypeOK
  BY <1>1 DEF Init, TypeOK, Zeroed, AllOnes
<1>3. RestAbove /\ ListsMembers
  BY DEF Init, RestAbove, ListsMembers, Ascending, Listed
<1> QED
  BY <1>2, <1>3 DEF IInv

\* No operation that changes the bitmap leaves an iterator behind.
LEMMA NotIterating ==
    ASSUME Change
    PROVE  RestAbove' /\ ListsMembers'
  BY DEF Change, RestAbove, ListsMembers, Ascending, Listed

\* iter_set_bits starts at the first word, with nothing listed.
LEMMA Begins ==
    ASSUME IInv, BeginIteration
    PROVE  IInv'
<1> USE DEF IInv, TypeOK, BeginIteration
<1>1. 0 \in Word
  BY BitmapAssumption DEF Word
<1>2. TypeOK'
  BY <1>1
<1>3. RestAbove'
  BY DEF RestAbove
<1>4. Members' = Members
  BY DEF Members
<1>5. \A p \in Members : ~Passed(p)'
  <2>1. ASSUME NEW p \in Members
        PROVE  p \div B \in Word /\ p % B \in words[p \div B]
    BY Division DEF Members, MembersOf, Get
  <2>2. \A i \in Word : i >= 0 /\ i \in Int
    BY BitmapAssumption DEF Word
  <2> QED
    BY <2>1, <2>2 DEF Passed
<1>6. Ascending' /\ Listed' = {}
  BY DEF Ascending, Listed
<1> QED
  BY <1>2, <1>3, <1>4, <1>5, <1>6 DEF ListsMembers

\* next() yields the least remaining bit, above all that were listed.
LEMMA Yields ==
    ASSUME IInv, Yield
    PROVE  IInv'
<1> DEFINE new == at * B + Lowest
<1> USE DEF IInv, TypeOK, Yield
<1>1. Lowest \in rest /\ \A c \in rest : Lowest <= c
  BY LeastBit DEF Lowest
<1>2. at \in Word /\ Lowest \in Bit /\ Lowest \in words[at]
  BY <1>1 DEF RestAbove
<1>3. new \in Position /\ new \div B = at /\ new % B = Lowest
  BY <1>2, PositionOf, Compose, at \in Int DEF Word
<1>4. new \in Members
  BY <1>2, <1>3 DEF Members, MembersOf, Get
<1> HIDE DEF new
<1>5. listed' = Append(listed, new)
  BY DEF new
<1>6. TypeOK'
  BY <1>3, <1>5
<1>7. RestAbove'
  <2>1. rest' \subseteq words'[at']
    BY DEF RestAbove
  <2>2. ASSUME NEW b \in words'[at'] \ rest', NEW c \in rest'
        PROVE  b < c
    <3>1. c \in rest /\ c # Lowest /\ c \in Int /\ Lowest \in Int
      BY <1>1 DEF Bit
    <3>2. CASE b = Lowest
      BY <1>1, <3>1, <3>2
    <3>3. CASE b # Lowest
      BY <3>1, <3>3 DEF RestAbove
    <3> QED
      BY <3>2, <3>3
  <2> QED
    BY <2>1, <2>2 DEF RestAbove
<1>8. Listed' = Listed \cup {new}
  BY <1>3, <1>5 DEF Listed
<1>9. ASSUME NEW p \in Position
      PROVE  Passed(p)' <=> Passed(p) \/ p = new
  BY <1>1, <1>2, <1>3, Division DEF Passed
<1>10. Members' = Members
  BY DEF Members
<1>11. Listed' = {p \in Members' : Passed(p)'}
  BY <1>4, <1>8, <1>9, <1>10 DEF ListsMembers, Members, MembersOf
<1>12. ASSUME NEW p \in Listed
       PROVE  p < new
  <2>1. p \in Members /\ Passed(p) /\ p \in Position
    BY DEF ListsMembers, Members, MembersOf
  <2> DEFINE q == p \div B
             r == p % B
  <2>2. q \in Word /\ r \in Bit /\ p = q * B + r /\ r \in words[q]
    BY <2>1, Division DEF Members, MembersOf, Get
  <2>3. q < at \/ (q = at /\ r \notin rest)
    BY <2>1 DEF Passed
  <2> HIDE DEF q, r
  <2>4. B \in Nat /\ q \in Nat /\ at \in Nat /\ r \in Nat /\ r < B /\ Lowest \in Nat
    BY <1>2, <2>2, BitmapAssumption DEF Word, Bit
  <2>5. CASE q < at
    <3>1. q + 1 <= at => (q + 1) * B <= at * B
      BY <2>4
    <3>2. (q + 1) * B = q * B + B
      BY <2>4
    <3>3. q * B + B <= at * B /\ q * B \in Int /\ at * B \in Int
      BY <2>4, <2>5, <3>1, <3>2
    <3>4. p = q * B + r
      BY <2>2
    <3>5. p < at * B
      <4> DEFINE x == q * B
                 y == at * B
      <4> HIDE DEF x, y
      <4>1. x + B <= y /\ x \in Int /\ y \in Int /\ p = x + r
        BY <3>3, <3>4 DEF x, y
      <4>2. p < y
        BY <4>1, <2>4
      <4> QED
        BY <4>2 DEF y
    <3> QED
      BY <2>4, <3>3, <3>4, <3>5 DEF new
  <2>6. CASE q = at /\ r \notin rest
    <3>1. r < Lowest
      BY <1>1, <2>2, <2>6 DEF RestAbove
    <3> QED
      BY <2>2, <2>4, <2>6, <3>1 DEF new
  <2> QED
    BY <2>3, <2>5, <2>6
<1>13. Ascending'
  BY <1>3, <1>5, <1>12 DEF ListsMembers, Ascending, Listed
<1> QED
  BY <1>6, <1>7, <1>11, <1>13 DEF ListsMembers

\* A used-up word is left for the next one.
LEMMA EntersNextWord ==
    ASSUME IInv, NextWord
    PROVE  IInv'
<1> USE DEF IInv, TypeOK, NextWord
<1>1. at \in Nat /\ at + 1 \in Word
  BY BitmapAssumption DEF Word
<1>2. TypeOK'
  BY <1>1
<1>3. RestAbove'
  BY DEF RestAbove
<1>4. Members' = Members /\ Listed' = Listed /\ Ascending' = Ascending
  BY DEF Members, Listed, Ascending
<1>5. ASSUME NEW p \in Members
      PROVE  Passed(p)' <=> Passed(p)
  <2>1. p \div B \in Word /\ p % B \in words[p \div B]
    BY Division DEF Members, MembersOf, Get
  <2>2. p \div B \in Nat
    BY <2>1, BitmapAssumption DEF Word
  <2> QED
    BY <1>1, <2>1, <2>2 DEF Passed
<1> QED
  BY <1>2, <1>3, <1>4, <1>5 DEF ListsMembers

\* Past the last word everything has been listed.
LEMMA Ends ==
    ASSUME IInv, Exhaust
    PROVE  IInv'
<1> USE DEF IInv, TypeOK, Exhaust
<1>1. TypeOK' /\ RestAbove'
  BY DEF RestAbove
<1>2. Members' = Members /\ Listed' = Listed /\ Ascending' = Ascending
  BY DEF Members, Listed, Ascending
<1>3. ASSUME NEW p \in Members
      PROVE  Passed(p)
  <2>1. p \div B \in Word
    BY Division DEF Members, MembersOf
  <2>2. p \div B \in Nat /\ p \div B <= at /\ at \in Nat
    BY <2>1, BitmapAssumption DEF Word
  <2> QED
    BY <2>2 DEF Passed
<1> QED
  BY <1>1, <1>2, <1>3 DEF ListsMembers

\* Every step preserves the invariant.
LEMMA Step == IInv /\ [Next]_vars => IInv'
<1> SUFFICES ASSUME IInv, [Next]_vars PROVE IInv'
  OBVIOUS
<1>1. ASSUME NEW p \in Position, Set(p) \/ Clear(p)
      PROVE  IInv'
  BY <1>1, ChangedWords, NotIterating DEF IInv, Set, Clear
<1>2. ASSUME NEW other \in Masks, AndWith(other) \/ OrWith(other)
      PROVE  IInv'
  BY <1>2, ChangedWords, NotIterating DEF IInv, AndWith, OrWith
<1>3. CASE Negate
  BY <1>3, ChangedWords, NotIterating DEF IInv, Negate
<1>4. ASSUME NEW n \in Shifts, Shl(n) \/ Shr(n)
      PROVE  IInv'
  BY <1>4, ShiftedWords, NotIterating DEF IInv, Shl, Shr
<1>5. CASE Iterate
  <2>1. CASE Break
    <3>1. TypeOK'
      BY <2>1, BitmapAssumption DEF IInv, TypeOK, Break, Word
    <3> QED
      BY <2>1, <3>1 DEF IInv, Break, RestAbove, ListsMembers, Ascending, Listed
  <2> QED
    BY <1>5, <2>1, Begins, Yields, EntersNextWord, Ends DEF Iterate
<1>6. CASE UNCHANGED vars
  BY <1>6 DEF vars, iterVars, IInv, TypeOK, RestAbove, ListsMembers, Ascending,
     Listed, Passed, Members
<1> QED
  BY <1>1, <1>2, <1>3, <1>4, <1>5, <1>6 DEF Next

\* The inductive invariant holds throughout.
LEMMA Inductive == Spec => []IInv
  BY Initially, Step, PTL DEF Spec

-----------------------------------------------------------------------------
(***************************************************************************)
(* No operation leaves a bit outside of a word or takes the iterator       *)
(* outside of the bitmap.                                                  *)
(***************************************************************************)
\* No operation leaves a bit outside of a word.
THEOREM TypeCorrect == Spec => []TypeOK
<1>1. IInv => TypeOK
  BY DEF IInv
<1> QED
  BY <1>1, Inductive, PTL

(***************************************************************************)
(* iter_set_bits yields exactly the set bits, in ascending order.          *)
(***************************************************************************)
THEOREM IteratorComplete == Spec => []ListsMembers
<1>1. IInv => ListsMembers
  BY DEF IInv
<1> QED
  BY <1>1, Inductive, PTL

(***************************************************************************)
(* The words implement the set of positions: every operation, every shift  *)
(* among them, does to the set what it should.                             *)
(***************************************************************************)
THEOREM Refinement == Spec => ImplementsBitSet
<1>1. Init => Abstract!Init
  <2>1. \A p \in Position : p \div B \in Word /\ p % B \in Bit
    BY Division
  <2> QED
    BY <2>1 DEF Init, Zeroed, AllOnes, Members, MembersOf, Get, Abstract!Init,
       Abstract!Position, Position
<1>2. IInv /\ [Next]_vars => [Abstract!Next]_Members
  <2> SUFFICES ASSUME IInv, [Next]_vars
               PROVE  Abstract!Next \/ UNCHANGED Members
    OBVIOUS
  <2> USE DEF IInv
  <2>0. Abstract!Position = Position
    BY DEF Abstract!Position, Position
  <2>1. ASSUME NEW p \in Position, Set(p) \/ Clear(p)
        PROVE  Abstract!Next
    BY <2>0, <2>1, ChangedWords DEF Abstract!Next
  <2>2. ASSUME NEW other \in Masks, AndWith(other) \/ OrWith(other)
        PROVE  Abstract!Next
    <3> DEFINE others == MembersOf(other)
    <3>1. others \in {MembersOf(m) : m \in Masks}
      OBVIOUS
    <3>2. Abstract!Meet(others) \/ Abstract!Join(others)
      BY <2>2, ChangedWords
    <3> QED
      BY <3>1, <3>2 DEF Abstract!Next
  <2>3. CASE Negate
    BY <2>3, ChangedWords DEF Abstract!Next
  <2>4. ASSUME NEW n \in Shifts, Shl(n) \/ Shr(n)
        PROVE  Abstract!Next
    BY <2>4, ShiftedWords DEF Abstract!Next
  <2>5. CASE Iterate
    BY <2>5 DEF Iterate, BeginIteration, Yield, NextWord, Exhaust, Break, Members
  <2>6. CASE UNCHANGED vars
    BY <2>6 DEF vars, Members
  <2> QED
    BY <2>1, <2>2, <2>3, <2>4, <2>5, <2>6 DEF Next
<1> QED
  BY <1>1, <1>2, Inductive, PTL DEF Spec, ImplementsBitSet, Abstract!Spec
=============================================================================
