-------------------------- MODULE Operators_proofs --------------------------
(***************************************************************************)
(* Theorems about the operators that no engine of the query uses.  The     *)
(* joins of SortMergeJoin, for every set of keys and inputs of every       *)
(* length; then filtered scans: expressions of every height, of columns    *)
(* and literals of every width, on batches of every size.                  *)
(*                                                                         *)
(* What the filters are made of is defined by recursion over the tree, and *)
(* what is proved of them is proved by induction over it: TreeInduction    *)
(* and Recursion below come from the well-foundedness of < on Nat.         *)
(***************************************************************************)
EXTENDS SortMergeJoin, FilterScan, TLAPS, FiniteSetTheorems, WellFoundedInduction

-----------------------------------------------------------------------------
(***************************************************************************)
(* Joins.                                                                  *)
(***************************************************************************)
(***************************************************************************)
(* The inductive invariant.  What lies before the cursor of right is too   *)
(* small for every row of left still to come; inside a run, right has only *)
(* the run's key from dup up to rj; after it, left has moved past the key. *)
(***************************************************************************)
RightBehind ==
    pc # "returned" =>
        \A j \in 1 .. ri - 1, i \in li .. Len(left) : right[j] < left[i]

InRun ==
    pc = "run" =>
        /\ ri = dup /\ dup <= rj
        /\ AtRight(dup, lk)
        /\ \A j \in dup .. rj - 1 : right[j] = lk
        /\ \A j \in 1 .. dup - 1 : right[j] < lk
        /\ \A i \in li .. Len(left) : lk <= left[i]
        /\ ~AtLeft(lk) => rj = dup

PastRun == pc = "skip" => \A i \in li .. Len(left) : lk < left[i]

IInv ==
    /\ TypeOK
    /\ RightBehind
    /\ InRun
    /\ PastRun
    /\ EmittedSoFar
    /\ AllEmitted
    /\ EmittedInOrder

-----------------------------------------------------------------------------
\* A column is a sorted sequence of keys.
LEMMA ColumnFacts ==
    ASSUME NEW s \in Columns
    PROVE  /\ s \in Seq(Int)
           /\ Len(s) \in Nat
           /\ DOMAIN s = 1 .. Len(s)
           /\ \A i \in 1 .. Len(s) : s[i] \in Int
           /\ \A i \in 1 .. Len(s) : s[i] \in Key
           /\ \A i, j \in 1 .. Len(s) : i <= j => s[i] <= s[j]
<1>1. PICK n \in 0 .. MaxLen : s \in [1 .. n -> Key]
  BY DEF Columns
<1>2. n \in Nat /\ Key \subseteq Int
  BY JoinAssumption
<1>3. s \in [1 .. n -> Int]
  BY <1>1, <1>2
<1>4. s \in Seq(Int) /\ Len(s) = n /\ DOMAIN s = 1 .. n
  BY <1>2, <1>3
<1>5. Sorted(s)
  BY DEF Columns
<1> QED
  BY <1>1, <1>2, <1>4, <1>5 DEF Sorted

\* The join grows by one row of left at a time.
LEMMA JoinedStep ==
    ASSUME NEW n \in Nat
    PROVE  Joined(n + 1) = Joined(n) \cup RowsOf(n + 1)
<1>1. 1 .. n + 1 = (1 .. n) \cup {n + 1}
  OBVIOUS
<1> QED
  BY <1>1 DEF Joined

\* The join of the columns does not change.
LEMMA JoinedUnchanged ==
    ASSUME UNCHANGED inputs, NEW n \in Int
    PROVE  Joined(n)' = Joined(n)
BY DEF Joined, RowsOf, Matching, inputs

\* Rows of left without a match add nothing to the inner join.
LEMMA JoinedEmptyTail ==
    ASSUME NEW n \in Nat, NEW m \in Nat, n <= m,
           \A i \in n + 1 .. m : RowsOf(i) = {}
    PROVE  Joined(m) = Joined(n)
<1>1. \A i \in 1 .. m : i \in 1 .. n \/ RowsOf(i) = {}
  OBVIOUS
<1>2. 1 .. n \subseteq 1 .. m
  OBVIOUS
<1> QED
  BY <1>1, <1>2 DEF Joined

\* Every pair emitted so far is before the one at the cursors.
LEMMA EmittedBefore ==
    ASSUME TypeOK, EmittedSoFar, pc # "returned", NEW n \in DOMAIN result
    PROVE  \/ result[n][1] \in 1 .. li - 1
           \/ pc = "run" /\ result[n][1] = li /\ result[n][2] \in dup .. rj - 1
<1>1. result[n] \in Emitted
  BY DEF Emitted
<1>2. CASE result[n] \in Joined(li - 1)
  <2>1. PICK i \in 1 .. li - 1 : result[n] \in RowsOf(i)
    BY <1>2 DEF Joined
  <2>2. result[n][1] = i
    BY <2>1 DEF RowsOf
  <2> QED
    BY <2>2
<1>3. CASE pc = "run" /\ result[n] \in {<<li, j>> : j \in dup .. rj - 1}
  BY <1>3
<1> QED
  BY <1>1, <1>2, <1>3 DEF EmittedSoFar

\* One more pair, after all that were emitted.
LEMMA AppendInOrder ==
    ASSUME EmittedInOrder, NEW p,
           NEW S, result \in Seq(S),
           \A n \in DOMAIN result : Before(result[n], p),
           result' = Append(result, p)
    PROVE  EmittedInOrder' /\ Emitted' = Emitted \cup {p}
<1> DEFINE N == Len(result)
<1>1. N \in Nat /\ DOMAIN result = 1 .. N
  OBVIOUS
<1>2. /\ DOMAIN result' = 1 .. N + 1
      /\ \A n \in 1 .. N : result'[n] = result[n]
      /\ result'[N + 1] = p
  OBVIOUS
<1> HIDE DEF N
<1>3. EmittedInOrder'
  <2> SUFFICES ASSUME NEW m \in 1 .. N + 1, NEW n \in 1 .. N + 1, m < n
               PROVE  Before(result'[m], result'[n])
    BY <1>2 DEF EmittedInOrder, Before
  <2>1. m \in 1 .. N
    BY <1>1
  <2>2. CASE n \in 1 .. N
    BY <1>1, <1>2, <2>1, <2>2 DEF EmittedInOrder
  <2>3. CASE n = N + 1
    BY <1>1, <1>2, <2>1, <2>3
  <2> QED
    BY <1>1, <2>2, <2>3
<1>4. Emitted' = Emitted \cup {p}
  <2>1. 1 .. N + 1 = (1 .. N) \cup {N + 1}
    BY <1>1
  <2> QED
    BY <1>1, <1>2, <2>1 DEF Emitted
<1> QED
  BY <1>3, <1>4

(***************************************************************************)
(* What the types say of the inputs and the cursors.                       *)
(***************************************************************************)
SortedInputs ==
    /\ Len(left) \in Nat /\ Len(right) \in Nat
    /\ DOMAIN left = 1 .. Len(left) /\ DOMAIN right = 1 .. Len(right)
    /\ \A i \in 1 .. Len(left) : left[i] \in Int /\ left[i] \in Key
    /\ \A j \in 1 .. Len(right) : right[j] \in Int
    /\ \A i, j \in 1 .. Len(left) : i <= j => left[i] <= left[j]
    /\ \A i, j \in 1 .. Len(right) : i <= j => right[i] <= right[j]
    /\ li \in 1 .. Len(left) + 1
    /\ {ri, dup, rj} \subseteq 1 .. Len(right) + 1
    /\ lk \in Int

\* Both columns are sorted.
LEMMA InputFacts == TypeOK => SortedInputs
<1> SUFFICES ASSUME TypeOK
             PROVE  SortedInputs
  OBVIOUS
<1>1. left \in Columns /\ right \in Columns
  BY DEF TypeOK
<1>2. Key \subseteq Int
  BY JoinAssumption
<1> QED
  BY <1>1, <1>2, ColumnFacts DEF TypeOK, SortedInputs

-----------------------------------------------------------------------------
\* The invariant holds initially.
LEMMA InitIInv == Init => IInv
<1> SUFFICES ASSUME Init
             PROVE  IInv
  OBVIOUS
<1> USE DEF Init
<1>0. Len(left) \in Nat /\ Len(right) \in Nat
  BY ColumnFacts
<1>1. TypeOK
  BY <1>0 DEF TypeOK
<1>2. RightBehind /\ InRun /\ PastRun /\ AllEmitted /\ EmittedInOrder
  BY DEF RightBehind, InRun, PastRun, AllEmitted, EmittedInOrder
<1>3. EmittedSoFar
  BY DEF EmittedSoFar, Emitted, Joined
<1> QED
  BY <1>1, <1>2, <1>3 DEF IInv

-----------------------------------------------------------------------------
\* A join returns when the columns it has to read are used up.
LEMMA ReturnIInv == IInv /\ Return => IInv'
<1> SUFFICES ASSUME IInv, Return
             PROVE  IInv'
  OBVIOUS
<1> USE DEF IInv, Return, inputs
<1>0. SortedInputs
  BY InputFacts
<1> USE <1>0 DEF SortedInputs
<1>1. TypeOK'
  BY DEF TypeOK
<1>2. RightBehind' /\ InRun' /\ PastRun' /\ EmittedSoFar' /\ EmittedInOrder'
  BY DEF RightBehind, InRun, PastRun, EmittedSoFar, EmittedInOrder, Before
<1>3. AllEmitted'
  <2>1. Emitted' = Joined(li - 1)
    BY DEF EmittedSoFar, Emitted
  <2>2. li - 1 \in Nat /\ li - 1 <= Len(left)
    BY DEF TypeOK
  <2>3. \A i \in (li - 1) + 1 .. Len(left) : RowsOf(i) = {}
    <3> SUFFICES ASSUME NEW i \in li .. Len(left)
                 PROVE  RowsOf(i) = {}
      BY <2>2
    <3>1. kind = "inner" /\ ri > Len(right)
      BY DEF Finished
    <3>2. \A j \in 1 .. Len(right) : right[j] < left[i]
      BY <3>1 DEF RightBehind
    <3>3. i \in 1 .. Len(left)
      OBVIOUS
    <3>4. Matching(i) = {}
      BY <3>2, <3>3 DEF Matching
    <3> QED
      BY <3>1, <3>4 DEF RowsOf
  <2>4. Joined(Len(left)) = Joined(li - 1)
    BY <2>2, <2>3, JoinedEmptyTail
  <2>5. Joined(Len(left))' = Joined(Len(left))
    BY DEF Joined, RowsOf, Matching
  <2> QED
    BY <2>1, <2>4, <2>5 DEF AllEmitted
<1> QED
  BY <1>1, <1>2, <1>3

\* A smaller key of right is skipped: no row of left can still match it.
LEMMA SkipRightIInv == IInv /\ SkipRight => IInv'
<1> SUFFICES ASSUME IInv, SkipRight
             PROVE  IInv'
  OBVIOUS
<1> USE DEF IInv, SkipRight, inputs
<1>0. SortedInputs
  BY InputFacts
<1> USE <1>0 DEF SortedInputs
<1>1. TypeOK'
  BY DEF TypeOK
<1>2. RightBehind'
  <2> SUFFICES ASSUME NEW j \in 1 .. ri, NEW i \in li .. Len(left)
               PROVE  right[j] < left[i]
    BY DEF RightBehind
  <2>1. i \in 1 .. Len(left) /\ li \in 1 .. Len(left) /\ j \in 1 .. Len(right)
    BY DEF Finished
  <2>2. left[li] <= left[i] /\ right[j] <= right[ri] /\ right[ri] < left[li]
    BY <2>1
  <2> QED
    BY <2>1, <2>2
<1>3. InRun' /\ PastRun' /\ AllEmitted' /\ EmittedInOrder'
  BY DEF InRun, PastRun, AllEmitted, EmittedInOrder, Before
<1>4. EmittedSoFar'
  BY JoinedUnchanged DEF EmittedSoFar, Emitted
<1> QED
  BY <1>1, <1>2, <1>3, <1>4

\* A smaller key of left is skipped, or padded in the outer join.
LEMMA SkipLeftIInv == IInv /\ SkipLeft => IInv'
<1> SUFFICES ASSUME IInv, SkipLeft
             PROVE  IInv'
  OBVIOUS
<1> USE DEF IInv, SkipLeft, inputs
<1>0. SortedInputs
  BY InputFacts
<1> USE <1>0 DEF SortedInputs
<1>a. li \in 1 .. Len(left) /\ li - 1 \in Nat
  BY DEF Finished
<1>b. \A j \in 1 .. Len(right) : right[j] # left[li]
  <2> SUFFICES ASSUME NEW j \in 1 .. Len(right), right[j] = left[li]
               PROVE  FALSE
    OBVIOUS
  <2>0. left[li] \in Int /\ right[j] \in Int
    BY <1>a
  <2>1. CASE j < ri
    <3>1. j \in 1 .. ri - 1 /\ li \in li .. Len(left)
      BY <1>a, <2>1
    <3>2. right[j] < left[li]
      BY <3>1 DEF RightBehind
    <3> QED
      BY <2>0, <3>2
  <2>2. CASE j >= ri
    <3>1. ri \in 1 .. Len(right)
      BY <2>2
    <3>2. right[ri] <= right[j] /\ left[li] < right[ri] /\ right[ri] \in Int
      BY <2>2, <3>1
    <3> QED
      BY <2>0, <3>2
  <2> QED
    BY <2>1, <2>2
<1>c. Matching(li) = {}
  BY <1>b DEF Matching
<1>d. Joined(li) = Joined(li - 1) \cup RowsOf(li)
  BY <1>a, JoinedStep
<1>1. TypeOK'
  <2>1. <<li, NoRow>> \in (1 .. Len(left)) \X (0 .. Len(right))
    BY <1>a DEF NoRow
  <2>2. result' \in Seq((1 .. Len(left)) \X (0 .. Len(right)))
    BY <2>1 DEF TypeOK
  <2> QED
    BY <1>a, <2>2 DEF TypeOK
<1>2. RightBehind' /\ InRun' /\ PastRun' /\ AllEmitted'
  BY DEF RightBehind, InRun, PastRun, AllEmitted
<1>3. EmittedSoFar' /\ EmittedInOrder'
  <2>1. CASE kind = "outer"
    <3>1. RowsOf(li) = {<<li, NoRow>>}
      BY <1>c, <2>1 DEF RowsOf
    <3>2. \A n \in DOMAIN result : Before(result[n], <<li, NoRow>>)
      BY EmittedBefore DEF Before
    <3>3. EmittedInOrder' /\ Emitted' = Emitted \cup {<<li, NoRow>>}
      BY <2>1, <3>2, AppendInOrder DEF TypeOK
    <3>4. EmittedSoFar'
      BY <1>a, <1>d, <3>1, <3>3, JoinedUnchanged DEF EmittedSoFar
    <3> QED
      BY <3>3, <3>4
  <2>2. CASE kind # "outer"
    <3>1. RowsOf(li) = {}
      BY <1>c, <2>2 DEF RowsOf
    <3>2. EmittedSoFar'
      BY <1>a, <1>d, <2>2, <3>1, JoinedUnchanged DEF EmittedSoFar, Emitted
    <3> QED
      BY <2>2, <3>2 DEF EmittedInOrder, Before
  <2> QED
    BY <2>1, <2>2
<1> QED
  BY <1>1, <1>2, <1>3

\* Equal keys begin a run.
LEMMA BeginRunIInv == IInv /\ BeginRun => IInv'
<1> SUFFICES ASSUME IInv, BeginRun
             PROVE  IInv'
  OBVIOUS
<1> USE DEF IInv, BeginRun, inputs
<1>0. SortedInputs
  BY InputFacts
<1> USE <1>0 DEF SortedInputs
<1>a. li \in 1 .. Len(left) /\ ri \in 1 .. Len(right) /\ right[ri] = left[li]
  BY DEF Finished, AtRight
<1>1. TypeOK'
  BY <1>a DEF TypeOK
<1>2. RightBehind'
  BY DEF RightBehind
<1>3. InRun'
  BY <1>a DEF InRun, AtRight, AtLeft, RightBehind
<1>4. PastRun' /\ AllEmitted' /\ EmittedInOrder'
  BY DEF PastRun, AllEmitted, EmittedInOrder, Before
<1>5. EmittedSoFar'
  BY JoinedUnchanged DEF EmittedSoFar, Emitted
<1> QED
  BY <1>1, <1>2, <1>3, <1>4, <1>5

\* The inner loop emits the pair at hand.
LEMMA EmitIInv == IInv /\ Emit => IInv'
<1> SUFFICES ASSUME IInv, Emit
             PROVE  IInv'
  OBVIOUS
<1> USE DEF IInv, Emit, inputs
<1>0. SortedInputs
  BY InputFacts
<1> USE <1>0 DEF SortedInputs
<1>a. /\ li \in 1 .. Len(left) /\ left[li] = lk
      /\ rj \in 1 .. Len(right) /\ right[rj] = lk
      /\ dup <= rj
  BY DEF AtLeft, AtRight, InRun
<1>1. TypeOK'
  BY <1>a DEF TypeOK
<1>2. RightBehind' /\ PastRun' /\ AllEmitted'
  BY DEF RightBehind, PastRun, AllEmitted
<1>3. InRun'
  BY <1>a DEF InRun, AtRight, AtLeft
<1>b. \A n \in DOMAIN result : Before(result[n], <<li, rj>>)
  BY <1>a, EmittedBefore DEF Before
<1>4. EmittedInOrder' /\ Emitted' = Emitted \cup {<<li, rj>>}
  BY <1>b, AppendInOrder DEF TypeOK
<1>5. EmittedSoFar'
  <2>1. dup .. (rj + 1) - 1 = (dup .. rj - 1) \cup {rj}
    BY <1>a
  <2>2. {<<li, j>> : j \in dup .. (rj + 1) - 1} =
            {<<li, j>> : j \in dup .. rj - 1} \cup {<<li, rj>>}
    BY <2>1
  <2>3. Emitted' = Joined(li - 1) \cup {<<li, j>> : j \in dup .. (rj + 1) - 1}
    BY <1>4, <2>2 DEF EmittedSoFar
  <2>4. Joined(li - 1)' = Joined(li - 1)
    BY JoinedUnchanged
  <2> QED
    BY <2>3, <2>4 DEF EmittedSoFar
<1> QED
  BY <1>1, <1>2, <1>3, <1>4, <1>5

\* The next row of left with the run's key starts again at the run's begin.
LEMMA NextLeftIInv == IInv /\ NextLeft => IInv'
<1> SUFFICES ASSUME IInv, NextLeft
             PROVE  IInv'
  OBVIOUS
<1> USE DEF IInv, NextLeft, inputs
<1>0. SortedInputs
  BY InputFacts
<1> USE <1>0 DEF SortedInputs
<1>a. /\ li \in 1 .. Len(left) /\ left[li] = lk /\ li - 1 \in Nat
      /\ dup <= rj /\ dup \in 1 .. Len(right) /\ right[dup] = lk
      /\ \A j \in dup .. rj - 1 : right[j] = lk
      /\ \A j \in 1 .. dup - 1 : right[j] < lk
  BY DEF AtLeft, AtRight, InRun
<1>b. dup < rj
  BY <1>a DEF AtRight
<1>c. \A j \in rj .. Len(right) : right[j] # lk
  <2> SUFFICES ASSUME NEW j \in rj .. Len(right)
               PROVE  right[j] # lk
    OBVIOUS
  <2>1. rj \in 1 .. Len(right) /\ right[rj] # lk
    BY DEF AtRight
  <2>2. right[dup] <= right[rj] /\ right[rj] <= right[j]
    BY <1>a, <2>1
  <2> QED
    BY <1>a, <2>1, <2>2
<1>d. Matching(li) = dup .. rj - 1
  <2>1. \A j \in 1 .. Len(right) : right[j] = lk <=> j \in dup .. rj - 1
    BY <1>a, <1>c
  <2>2. dup .. rj - 1 \subseteq 1 .. Len(right)
    BY <1>a
  <2> QED
    BY <1>a, <2>1, <2>2 DEF Matching
<1>e. RowsOf(li) = {<<li, j>> : j \in dup .. rj - 1}
  <2>1. dup \in Matching(li)
    BY <1>a, <1>b, <1>d
  <2> QED
    BY <1>d, <2>1 DEF RowsOf
<1>f. Joined(li) = Joined(li - 1) \cup RowsOf(li)
  BY <1>a, JoinedStep
<1>1. TypeOK'
  BY <1>a DEF TypeOK
<1>2. RightBehind' /\ PastRun' /\ AllEmitted' /\ EmittedInOrder'
  BY DEF RightBehind, PastRun, AllEmitted, EmittedInOrder, Before
<1>3. InRun'
  BY <1>a DEF InRun, AtRight, AtLeft
<1>4. EmittedSoFar'
  <2>1. dup .. dup - 1 = {}
    OBVIOUS
  <2>2. Emitted' = Joined(li)
    BY <1>e, <1>f DEF EmittedSoFar, Emitted
  <2> QED
    BY <1>a, <2>1, <2>2, JoinedUnchanged DEF EmittedSoFar
<1> QED
  BY <1>1, <1>2, <1>3, <1>4

\* The run ends in left.
LEMMA EndRunIInv == IInv /\ EndRun => IInv'
<1> SUFFICES ASSUME IInv, EndRun
             PROVE  IInv'
  OBVIOUS
<1> USE DEF IInv, EndRun, inputs
<1>0. SortedInputs
  BY InputFacts
<1> USE <1>0 DEF SortedInputs
<1>a. rj = dup /\ \A i \in li .. Len(left) : lk <= left[i]
  BY DEF InRun
<1>b. \A i \in li .. Len(left) : lk < left[i]
  <2> SUFFICES ASSUME NEW i \in li .. Len(left)
               PROVE  lk < left[i]
    OBVIOUS
  <2>1. li \in 1 .. Len(left) /\ i \in 1 .. Len(left)
    OBVIOUS
  <2>2. left[li] # lk /\ lk <= left[li] /\ left[li] <= left[i]
    BY <1>a, <2>1 DEF AtLeft
  <2> QED
    BY <2>1, <2>2
<1>1. TypeOK'
  BY DEF TypeOK
<1>2. RightBehind' /\ InRun' /\ AllEmitted' /\ EmittedInOrder'
  BY DEF RightBehind, InRun, AllEmitted, EmittedInOrder, Before
<1>3. PastRun'
  BY <1>b DEF PastRun
<1>4. EmittedSoFar'
  <2>1. dup .. rj - 1 = {}
    BY <1>a
  <2>2. {<<li, j>> : j \in dup .. rj - 1} = {}
    BY <2>1
  <2>3. Emitted' = Joined(li - 1)
    BY <2>2 DEF EmittedSoFar, Emitted
  <2>4. Joined(li - 1)' = Joined(li - 1)
    BY JoinedUnchanged
  <2> QED
    BY <2>3, <2>4 DEF EmittedSoFar
<1> QED
  BY <1>1, <1>2, <1>3, <1>4

\* The run is skipped in right.
LEMMA SkipRunIInv == IInv /\ SkipRun => IInv'
<1> SUFFICES ASSUME IInv, SkipRun
             PROVE  IInv'
  OBVIOUS
<1> USE DEF IInv, SkipRun, inputs
<1>0. SortedInputs
  BY InputFacts
<1> USE <1>0 DEF SortedInputs
<1>a. ri \in 1 .. Len(right) /\ right[ri] = lk
  BY DEF AtRight
<1>1. TypeOK'
  BY <1>a DEF TypeOK
<1>2. RightBehind'
  <2> SUFFICES ASSUME NEW j \in 1 .. ri, NEW i \in li .. Len(left)
               PROVE  right[j] < left[i]
    BY DEF RightBehind
  <2>1. i \in 1 .. Len(left) /\ j \in 1 .. Len(right)
    BY <1>a
  <2>2. right[j] <= right[ri] /\ lk < left[i]
    BY <1>a, <2>1 DEF PastRun
  <2> QED
    BY <1>a, <2>1, <2>2
<1>3. InRun' /\ PastRun' /\ AllEmitted' /\ EmittedInOrder'
  BY DEF InRun, PastRun, AllEmitted, EmittedInOrder, Before
<1>4. EmittedSoFar'
  BY JoinedUnchanged DEF EmittedSoFar, Emitted
<1> QED
  BY <1>1, <1>2, <1>3, <1>4

\* The scan resumes after the run.
LEMMA ResumeIInv == IInv /\ Resume => IInv'
<1> SUFFICES ASSUME IInv, Resume
             PROVE  IInv'
  OBVIOUS
<1> USE DEF IInv, Resume, inputs
<1>0. SortedInputs
  BY InputFacts
<1> USE <1>0 DEF SortedInputs
<1>1. TypeOK'
  BY DEF TypeOK
<1>2. RightBehind' /\ InRun' /\ PastRun' /\ AllEmitted' /\ EmittedInOrder'
  BY DEF RightBehind, InRun, PastRun, AllEmitted, EmittedInOrder, Before
<1>3. EmittedSoFar'
  BY JoinedUnchanged DEF EmittedSoFar, Emitted
<1> QED
  BY <1>1, <1>2, <1>3

\* Nothing happens.
LEMMA StutterIInv == IInv /\ UNCHANGED vars => IInv'
<1> SUFFICES ASSUME IInv, UNCHANGED vars
             PROVE  IInv'
  OBVIOUS
<1> USE DEF IInv, vars, inputs
<1>1. TypeOK' /\ RightBehind' /\ InRun' /\ PastRun'
  BY DEF TypeOK, RightBehind, InRun, PastRun, AtLeft, AtRight
<1>2. EmittedSoFar' /\ AllEmitted' /\ EmittedInOrder'
  BY DEF EmittedSoFar, AllEmitted, EmittedInOrder, Before, Emitted, Joined, RowsOf, Matching
<1> QED
  BY <1>1, <1>2

\* Every step of a join preserves the invariant.
LEMMA NextIInv == IInv /\ [Next]_vars => IInv'
BY SkipRightIInv, SkipLeftIInv, BeginRunIInv, EmitIInv, NextLeftIInv, EndRunIInv,
   SkipRunIInv, ResumeIInv, ReturnIInv, StutterIInv DEF Next

-----------------------------------------------------------------------------
(***************************************************************************)
(* The invariant holds in every reachable state of both joins.             *)
(***************************************************************************)
\* The inductive invariant holds throughout.
THEOREM Inductive == Spec => []IInv
BY InitIInv, NextIInv, PTL DEF Spec

(***************************************************************************)
(* The variables keep their types: no cursor is ever more than one past    *)
(* the end of its column, whatever the inputs.                             *)
(***************************************************************************)
THEOREM TypeCorrect == Spec => []TypeOK
<1>1. IInv => TypeOK
  BY DEF IInv
<1> QED
  BY <1>1, Inductive, PTL

(***************************************************************************)
(* At every moment the output is the join of the rows of left passed so    *)
(* far, and of the current row what lies before rj.                        *)
(***************************************************************************)
THEOREM NothingMissed == Spec => []EmittedSoFar
<1>1. IInv => EmittedSoFar
  BY DEF IInv
<1> QED
  BY <1>1, Inductive, PTL

(***************************************************************************)
(* Partial correctness: a join that returns has produced the relational    *)
(* inner, or left outer, join of its sorted inputs, in order.              *)
(***************************************************************************)
THEOREM PartialCorrectness == Spec => []ReturnsJoin
<1>1. IInv => ReturnsJoin
  BY DEF IInv, ReturnsJoin
<1> QED
  BY <1>1, Inductive, PTL

(***************************************************************************)
(* The output is in order and has no pair twice.                           *)
(***************************************************************************)
THEOREM InOrder == Spec => []EmittedInOrder
<1>1. IInv => EmittedInOrder
  BY DEF IInv
<1> QED
  BY <1>1, Inductive, PTL

-----------------------------------------------------------------------------
(***************************************************************************)
(* Filters.                                                                *)
(***************************************************************************)
\* Induction over the naturals, for a set instead of a predicate.
LEMMA NatInd ==
    ASSUME NEW N \in SUBSET Nat, 0 \in N, \A n \in N : n + 1 \in N
    PROVE  N = Nat
<1> SUFFICES ASSUME Nat \ N # {} PROVE FALSE
  OBVIOUS
<1>1. PICK x \in Nat \ N : \A y \in Nat \ N : ~(<<y, x>> \in OpToRel(<, Nat))
  BY WFMin, NatLessThanWellFounded, Zenon
<1>2. x # 0 /\ x - 1 \in Nat /\ x - 1 < x
  OBVIOUS
<1>3. <<x - 1, x>> \in OpToRel(<, Nat)
  BY <1>2 DEF OpToRel
<1>4. x - 1 \in N
  BY <1>1, <1>2, <1>3, Zenon
<1> QED
  BY <1>4, <1>2

-----------------------------------------------------------------------------
(***************************************************************************)
(* The trees of Expr: f is the levels up to height n.                      *)
(***************************************************************************)
IsForest(f, n) ==
    f = [i \in 0 .. n |-> IF i = 0 THEN Leaves ELSE Grown(f[i - 1])]

\* The levels of trees up to any height exist.
LEMMA ForestsExist == \A n \in Nat : \E f : IsForest(f, n)
<1> DEFINE N == {n \in Nat : \E f : IsForest(f, n)}
<1>1. 0 \in N
  <2>1. IsForest([i \in 0 .. 0 |-> Leaves], 0)
    BY DEF IsForest
  <2> QED
    BY <2>1
<1>2. ASSUME NEW n \in Nat, n \in N PROVE n + 1 \in N
  <2>1. PICK f : IsForest(f, n)
    BY <1>2
  <2> DEFINE g == [i \in 0 .. n + 1 |-> IF i = n + 1 THEN Grown(f[n]) ELSE f[i]]
  <2>2. ASSUME NEW i \in 0 .. n + 1
        PROVE  g[i] = IF i = 0 THEN Leaves ELSE Grown(g[i - 1])
    <3>1. CASE i = n + 1
      BY <3>1
    <3>2. CASE i # n + 1
      BY <2>1, <3>2 DEF IsForest
    <3> QED
      BY <3>1, <3>2
  <2>3. IsForest(g, n + 1)
    BY <2>2 DEF IsForest
  <2> QED
    BY <2>3
<1>3. N = Nat
  <2> HIDE DEF N
  <2>1. N \in SUBSET Nat
    BY DEF N
  <2> QED
    BY <1>1, <1>2, <2>1, NatInd
<1> QED
  BY <1>3

\* ... and do not depend on where one stops.
LEMMA ForestsAgree ==
    ASSUME NEW f, NEW g, NEW n \in Nat, NEW m \in Nat, IsForest(f, n), IsForest(g, m)
    PROVE  \A i \in Nat : i <= n /\ i <= m => f[i] = g[i]
<1> DEFINE N == {i \in Nat : i <= n /\ i <= m => f[i] = g[i]}
<1>1. 0 \in N
  BY DEF IsForest
<1>2. ASSUME NEW i \in Nat, i \in N PROVE i + 1 \in N
  <2> SUFFICES ASSUME i + 1 <= n, i + 1 <= m PROVE f[i + 1] = g[i + 1]
    OBVIOUS
  <2>1. f[i] = g[i]
    BY <1>2
  <2>2. f[i + 1] = Grown(f[i]) /\ g[i + 1] = Grown(g[i])
    BY DEF IsForest
  <2> QED
    BY <2>1, <2>2
<1>3. N = Nat
  <2> HIDE DEF N
  <2>1. N \in SUBSET Nat
    BY DEF N
  <2> QED
    BY <1>1, <1>2, <2>1, NatInd
<1> QED
  BY <1>3

\* Trees is what its definition says.
LEMMA TreesUnfold ==
    /\ Trees[0] = Leaves
    /\ \A n \in Nat : Trees[n + 1] = Grown(Trees[n])
<1> DEFINE Eq(T) == T = [h \in Nat |-> IF h = 0 THEN Leaves ELSE Grown(T[h - 1])]
           pick == [n \in Nat |-> CHOOSE f : IsForest(f, n)]
           T0 == [n \in Nat |-> pick[n][n]]
<1>1. \A n \in Nat : IsForest(pick[n], n)
  BY ForestsExist, Zenon
<1>2. ASSUME NEW n \in Nat PROVE T0[n] = IF n = 0 THEN Leaves ELSE Grown(T0[n - 1])
  <2> HIDE DEF pick
  <2>1. CASE n = 0
    <3>1. pick[0] = [i \in 0 .. 0 |-> IF i = 0 THEN Leaves ELSE Grown(pick[0][i - 1])]
      BY <1>1 DEF IsForest
    <3>2. 0 \in 0 .. 0
      OBVIOUS
    <3>3. pick[0][0] = Leaves
      BY <3>1, <3>2
    <3> QED
      BY <2>1, <3>3
  <2>2. CASE n # 0
    <3>1. n - 1 \in Nat /\ n - 1 <= n
      BY <2>2
    <3>2. pick[n][n] = Grown(pick[n][n - 1])
      <4>1. pick[n] = [i \in 0 .. n |-> IF i = 0 THEN Leaves ELSE Grown(pick[n][i - 1])]
        BY <1>1 DEF IsForest
      <4>2. n \in 0 .. n
        OBVIOUS
      <4> QED
        BY <2>2, <4>1, <4>2
    <3>3. pick[n][n - 1] = pick[n - 1][n - 1]
      BY <1>1, <3>1, ForestsAgree
    <3> QED
      BY <2>2, <3>1, <3>2, <3>3
  <2> QED
    BY <2>1, <2>2
<1>3. Eq(T0)
  <2> HIDE DEF pick
  <2> QED
    BY <1>2, Zenon
<1>4. Eq(Trees)
  <2>1. Trees = CHOOSE T : Eq(T)
    BY Zenon DEF Trees
  <2> HIDE DEF Eq
  <2> QED
    BY <1>3, <2>1, Zenon
<1>5. \A n \in Nat : Trees[n] = IF n = 0 THEN Leaves ELSE Grown(Trees[n - 1])
  <2> HIDE DEF T0, pick
  <2> QED
    BY <1>4, Zenon
<1> HIDE DEF Eq, T0, pick
<1>6. ASSUME NEW n \in Nat PROVE Trees[n + 1] = Grown(Trees[n])
  <2>1. n + 1 \in Nat /\ n + 1 # 0 /\ (n + 1) - 1 = n
    OBVIOUS
  <2> QED
    BY <1>5, <2>1
<1> QED
  BY <1>5, <1>6

\* The immediate subexpressions.
Parts(e) ==
    IF e.kind = "binary" THEN {e.left, e.right}
    ELSE IF e.kind = "not" THEN {e.inner}
    ELSE IF e.kind \in {"and", "or"} THEN {e.children[i] : i \in DOMAIN e.children}
    ELSE {}

\* e is a column or a literal.
IsOperand(e) ==
    \/ e.kind = "column" /\ e = Column(e.idx) /\ e.idx \in Nat \ {0}
    \/ e.kind = "literal" /\ e = Literal(e.sv) /\ e.sv \in ScalarValue

\* e is an In list.
IsInList(e) ==
    /\ e.kind = "in" /\ e = In(e.idx, e.values)
    /\ e.idx \in Nat \ {0} /\ e.values \in Seq(Values)

\* e is an operand, an In list, or built from parts in S.
BuiltFrom(e, S) ==
    \/ IsOperand(e)
    \/ IsInList(e)
    \/ /\ e.kind = "binary" /\ e = BinaryOp(e.op, e.left, e.right)
       /\ e.op \in Comparisons \cup Arithmetic /\ e.left \in S /\ e.right \in S
    \/ e.kind = "not" /\ e = Not(e.inner) /\ e.inner \in S
    \/ e.kind = "and" /\ e = And(e.children) /\ e.children \in Seq(S)
    \/ e.kind = "or" /\ e = Or(e.children) /\ e.children \in Seq(S)

\* Operands are what they look like.
LEMMA OperandForm == \A e : e \in Operands <=> IsOperand(e)
BY DEF Operands, IsOperand, Column, Literal

\* What an operator on members of a set looks like.
LEMMA BinaryForm ==
    ASSUME NEW S
    PROVE  \A e : e \in BinariesOf(S) <=>
               /\ e.kind = "binary" /\ e = BinaryOp(e.op, e.left, e.right)
               /\ e.op \in Comparisons \cup Arithmetic /\ e.left \in S /\ e.right \in S
BY DEF BinariesOf, BinaryOp

\* A leaf is an operand, an In list or an operator on two operands.
LEMMA LeafForm ==
    \A e : e \in Leaves <=>
        \/ IsOperand(e)
        \/ IsInList(e)
        \/ /\ e.kind = "binary" /\ e = BinaryOp(e.op, e.left, e.right)
           /\ e.op \in Comparisons \cup Arithmetic
           /\ e.left \in Operands /\ e.right \in Operands
<1>1. \A e : e \in [kind : {"in"}, idx : Nat \ {0}, values : Seq(Values)] <=> IsInList(e)
  BY DEF IsInList, In
<1> QED
  BY <1>1, OperandForm, BinaryForm DEF Leaves

\* What a tree one level higher looks like.
LEMMA GrownForm ==
    ASSUME NEW S
    PROVE  \A e : e \in Grown(S) <=>
               \/ e \in S
               \/ /\ e.kind = "binary" /\ e = BinaryOp(e.op, e.left, e.right)
                  /\ e.op \in Comparisons \cup Arithmetic /\ e.left \in S /\ e.right \in S
               \/ e.kind = "not" /\ e = Not(e.inner) /\ e.inner \in S
               \/ e.kind = "and" /\ e = And(e.children) /\ e.children \in Seq(S)
               \/ e.kind = "or" /\ e = Or(e.children) /\ e.children \in Seq(S)
<1>1. \A e : e \in [kind : {"not"}, inner : S] <=>
                e.kind = "not" /\ e = Not(e.inner) /\ e.inner \in S
  BY DEF Not
<1>2. \A e : e \in [kind : {"and", "or"}, children : Seq(S)] <=>
                \/ e.kind = "and" /\ e = And(e.children) /\ e.children \in Seq(S)
                \/ e.kind = "or" /\ e = Or(e.children) /\ e.children \in Seq(S)
  BY DEF And, Or
<1> QED
  BY <1>1, <1>2, BinaryForm, Zenon DEF Grown

\* Higher trees include the lower ones.
LEMMA TreesGrow ==
    ASSUME NEW n \in Nat, NEW m \in Nat, n <= m
    PROVE  Trees[n] \subseteq Trees[m]
<1> DEFINE N == {k \in Nat : n <= k => Trees[n] \subseteq Trees[k]}
<1>1. 0 \in N
  OBVIOUS
<1>2. ASSUME NEW k \in Nat, k \in N PROVE k + 1 \in N
  <2>1. Trees[k] \subseteq Trees[k + 1]
    BY TreesUnfold, GrownForm
  <2>2. CASE n <= k
    BY <1>2, <2>1, <2>2
  <2>3. CASE n = k + 1
    BY <2>3
  <2> QED
    BY <2>2, <2>3
<1>3. N = Nat
  <2> HIDE DEF N
  <2>1. N \in SUBSET Nat
    BY DEF N
  <2> QED
    BY <1>1, <1>2, <2>1, NatInd
<1> QED
  BY <1>3

\* Sequences over a set are sequences over a larger one.
LEMMA SeqGrows ==
    ASSUME NEW S, NEW T, S \subseteq T, NEW s \in Seq(S)
    PROVE  s \in Seq(T)
OBVIOUS

\* A tree is a leaf, or built from lower ones.
LEMMA TreeForm ==
    ASSUME NEW n \in Nat
    PROVE  \A e \in Trees[n] :
               e \in Leaves \/ (n > 0 /\ BuiltFrom(e, Trees[n - 1]))
<1> DEFINE N == {k \in Nat : \A e \in Trees[k] :
                               e \in Leaves \/ (k > 0 /\ BuiltFrom(e, Trees[k - 1]))}
<1>1. 0 \in N
  BY TreesUnfold
<1>2. ASSUME NEW k \in Nat, k \in N PROVE k + 1 \in N
  <2> SUFFICES ASSUME NEW e \in Trees[k + 1], e \notin Leaves
               PROVE  BuiltFrom(e, Trees[k])
    OBVIOUS
  <2>1. e \in Grown(Trees[k])
    BY TreesUnfold
  <2>2. CASE e \in Trees[k]
    <3>1. k > 0 /\ BuiltFrom(e, Trees[k - 1])
      BY <1>2, <2>2
    <3>2. Trees[k - 1] \subseteq Trees[k]
      BY <3>1, TreesGrow
    <3> QED
      BY <3>1, <3>2, SeqGrows DEF BuiltFrom
  <2>3. CASE e \notin Trees[k]
    BY <2>1, <2>3, GrownForm DEF BuiltFrom
  <2> QED
    BY <2>2, <2>3
<1>3. N = Nat
  <2> HIDE DEF N
  <2>1. N \in SUBSET Nat
    BY DEF N
  <2> QED
    BY <1>1, <1>2, <2>1, NatInd
<1> QED
  BY <1>3

\* What is built from trees is a tree one level higher.
LEMMA TreeBuilt ==
    ASSUME NEW n \in Nat, NEW e, BuiltFrom(e, Trees[n])
    PROVE  e \in Trees[n + 1]
<1>1. CASE IsOperand(e) \/ IsInList(e)
  <2>1. e \in Trees[0]
    BY <1>1, LeafForm, TreesUnfold
  <2> QED
    BY <2>1, TreesGrow
<1>2. CASE ~(IsOperand(e) \/ IsInList(e))
  BY <1>2, GrownForm, TreesUnfold DEF BuiltFrom
<1> QED
  BY <1>1, <1>2

\* Operands and In lists are trees of every height.
LEMMA LeafIn ==
    ASSUME NEW n \in Nat
    PROVE  Leaves \subseteq Trees[n] /\ Operands \subseteq Leaves
<1>1. Trees[0] \subseteq Trees[n]
  BY TreesGrow
<1>2. Trees[0] = Leaves
  BY TreesUnfold
<1>3. Operands \subseteq Leaves
  BY DEF Leaves
<1> QED
  BY <1>1, <1>2, <1>3

\* Every expression is built from expressions.
LEMMA ExprForm == \A e \in Expr : BuiltFrom(e, Expr)
<1> SUFFICES ASSUME NEW e \in Expr PROVE BuiltFrom(e, Expr)
  OBVIOUS
<1>1. MaxHeight \in Nat
  BY ExpressionsAssumption
<1>2. CASE e \in Leaves
  BY <1>1, <1>2, LeafIn, LeafForm DEF BuiltFrom, Expr
<1>3. CASE MaxHeight > 0 /\ BuiltFrom(e, Trees[MaxHeight - 1])
  <2>1. Trees[MaxHeight - 1] \subseteq Expr
    BY <1>1, <1>3, TreesGrow DEF Expr
  <2> QED
    BY <1>3, <2>1, SeqGrows DEF BuiltFrom
<1> QED
  BY <1>1, <1>2, <1>3, TreeForm DEF Expr

\* ... so that its parts are expressions.
LEMMA PartsIn ==
    ASSUME NEW S, NEW e, BuiltFrom(e, S)
    PROVE  Parts(e) \subseteq S
BY DEF BuiltFrom, Parts, IsOperand, IsInList

(***************************************************************************)
(* Induction over expressions: a set that has an expression whenever it    *)
(* has its parts has them all.                                             *)
(***************************************************************************)
LEMMA TreeInduction ==
    ASSUME NEW S, \A e \in Expr : Parts(e) \subseteq S => e \in S
    PROVE  Expr \subseteq S
<1>1. MaxHeight \in Nat
  BY ExpressionsAssumption
<1> DEFINE N == {n \in Nat : n <= MaxHeight => Trees[n] \subseteq S}
<1>2. ASSUME NEW n \in Nat, n <= MaxHeight PROVE Trees[n] \subseteq Expr
  BY <1>1, <1>2, TreesGrow DEF Expr
<1>3. Operands \subseteq S
  <2>1. Operands \subseteq Expr
    BY <1>1, LeafIn DEF Expr
  <2>2. \A e \in Operands : Parts(e) = {}
    BY OperandForm DEF Parts, IsOperand
  <2> QED
    BY <2>1, <2>2
<1>4. Leaves \subseteq S
  <2>1. Leaves \subseteq Expr
    BY <1>1, LeafIn DEF Expr
  <2>2. \A e \in Leaves : Parts(e) \subseteq Operands
    BY LeafForm DEF Parts, IsOperand, IsInList
  <2> QED
    BY <1>3, <2>1, <2>2
<1>5. 0 \in N
  BY <1>4, TreesUnfold
<1>6. ASSUME NEW n \in Nat, n \in N PROVE n + 1 \in N
  <2> SUFFICES ASSUME n + 1 <= MaxHeight, NEW e \in Trees[n + 1], e \notin Leaves
               PROVE  e \in S
    BY <1>4
  <2>1. n + 1 \in Nat /\ n + 1 > 0 /\ (n + 1) - 1 = n /\ n <= MaxHeight
    BY <1>1
  <2>2. BuiltFrom(e, Trees[n])
    BY <2>1, TreeForm
  <2>3. Parts(e) \subseteq S
    BY <1>6, <2>1, <2>2, PartsIn
  <2>4. e \in Expr
    BY <1>2, <2>1
  <2> QED
    BY <2>3, <2>4
<1>7. N = Nat
  <2> HIDE DEF N
  <2>1. N \in SUBSET Nat
    BY DEF N
  <2> QED
    BY <1>5, <1>6, <2>1, NatInd
<1> QED
  BY <1>1, <1>7 DEF Expr

\* f agrees with its own step on S.
Solves(f, A, S) == \A e \in S : f[e] = A[<<e, f>>]

\* The step A looks at the values of the parts only.
IsLocal(A, V) ==
    \A e \in Expr : \A f, g \in [Expr -> V] :
        (\A c \in Parts(e) : f[c] = g[c]) => A[<<e, f>>] = A[<<e, g>>]

\* One application of the step solves it one level higher.
LEMMA OneLevelMore ==
    ASSUME NEW V, NEW A \in [Expr \X [Expr -> V] -> V], IsLocal(A, V),
           NEW S, NEW T, S \subseteq Expr, T \subseteq Expr,
           \A e \in T : Parts(e) \subseteq S,
           NEW f \in [Expr -> V], Solves(f, A, S)
    PROVE  \E g \in [Expr -> V] : Solves(g, A, T)
<1> DEFINE g == [e \in Expr |-> A[<<e, f>>]]
<1>1. g \in [Expr -> V]
  OBVIOUS
<1>2. ASSUME NEW e \in T PROVE g[e] = A[<<e, g>>]
  <2>1. \A c \in Parts(e) : c \in S /\ c \in Expr
    OBVIOUS
  <2>2. \A c \in Parts(e) : g[c] = f[c]
    BY <2>1 DEF Solves
  <2>3. e \in Expr
    OBVIOUS
  <2>4. A[<<e, g>>] = A[<<e, f>>]
    <3> HIDE DEF g
    <3> QED
      BY <1>1, <2>2, <2>3 DEF IsLocal
  <2> QED
    BY <2>3, <2>4
<1> HIDE DEF g
<1> QED
  BY <1>1, <1>2 DEF Solves

\* The parts of a tree are one level lower.
LEMMA PartsBelow ==
    ASSUME NEW n \in Nat
    PROVE  \A e \in Trees[n + 1] : Parts(e) \subseteq Trees[n]
<1> SUFFICES ASSUME NEW e \in Trees[n + 1] PROVE Parts(e) \subseteq Trees[n]
  OBVIOUS
<1>1. CASE e \in Leaves
  <2>1. Parts(e) \subseteq Operands
    BY <1>1, LeafForm DEF Parts, IsOperand, IsInList
  <2> QED
    BY <2>1, LeafIn
<1>2. CASE e \notin Leaves
  <2>1. n + 1 \in Nat /\ (n + 1) - 1 = n
    OBVIOUS
  <2>2. BuiltFrom(e, Trees[n])
    BY <1>2, <2>1, TreeForm
  <2> QED
    BY <2>2, PartsIn
<1> QED
  BY <1>1, <1>2

(***************************************************************************)
(* A function on expressions may be defined by recursion over the tree.    *)
(***************************************************************************)
LEMMA Recursion ==
    ASSUME NEW V, NEW v \in V,
           NEW A \in [Expr \X [Expr -> V] -> V], IsLocal(A, V)
    PROVE  \E f \in [Expr -> V] : \A e \in Expr : f[e] = A[<<e, f>>]
<1> DEFINE N == {n \in Nat : n <= MaxHeight => \E f \in [Expr -> V] : Solves(f, A, Trees[n])}
<1>1. MaxHeight \in Nat
  BY ExpressionsAssumption
<1>2. ASSUME NEW n \in Nat, n <= MaxHeight PROVE Trees[n] \subseteq Expr
  BY <1>1, <1>2, TreesGrow DEF Expr
<1>3. Operands \subseteq Expr /\ Leaves \subseteq Expr
  BY <1>1, LeafIn DEF Expr
<1>4. \E f \in [Expr -> V] : Solves(f, A, Operands)
  <2>1. [e \in Expr |-> v] \in [Expr -> V] /\ Solves([e \in Expr |-> v], A, {})
    BY DEF Solves
  <2>2. \A e \in Operands : Parts(e) \subseteq {}
    BY OperandForm DEF Parts, IsOperand
  <2> QED
    BY <1>3, <2>1, <2>2, OneLevelMore
<1>5. \E f \in [Expr -> V] : Solves(f, A, Leaves)
  <2>1. \A e \in Leaves : Parts(e) \subseteq Operands
    BY LeafForm DEF Parts, IsOperand, IsInList
  <2> QED
    BY <1>3, <1>4, <2>1, OneLevelMore
<1>6. 0 \in N
  BY <1>5, TreesUnfold
<1>7. ASSUME NEW n \in Nat, n \in N PROVE n + 1 \in N
  <2> SUFFICES ASSUME n + 1 <= MaxHeight
               PROVE  \E f \in [Expr -> V] : Solves(f, A, Trees[n + 1])
    OBVIOUS
  <2>1. n + 1 \in Nat /\ n + 1 > 0 /\ (n + 1) - 1 = n /\ n <= MaxHeight
    BY <1>1
  <2>2. \A e \in Trees[n + 1] : Parts(e) \subseteq Trees[n]
    BY PartsBelow
  <2>3. PICK f \in [Expr -> V] : Solves(f, A, Trees[n])
    BY <1>7, <2>1
  <2>4. Trees[n] \subseteq Expr /\ Trees[n + 1] \subseteq Expr
    BY <1>2, <2>1
  <2> QED
    <3> DEFINE S == Trees[n]
               T == Trees[n + 1]
    <3>1. S \subseteq Expr /\ T \subseteq Expr /\ (\A e \in T : Parts(e) \subseteq S)
          /\ Solves(f, A, S)
      BY <2>2, <2>3, <2>4
    <3> HIDE DEF N, S, T
    <3>2. \E g \in [Expr -> V] : Solves(g, A, T)
      BY <3>1, OneLevelMore
    <3> QED
      BY <3>2 DEF T
<1>8. N = Nat
  <2> HIDE DEF N
  <2>1. N \in SUBSET Nat
    BY DEF N
  <2> QED
    BY <1>6, <1>7, <2>1, NatInd
<1>9. MaxHeight \in N
  <2> HIDE DEF N
  <2> QED
    BY <1>1, <1>8
<1>10. PICK f \in [Expr -> V] : Solves(f, A, Trees[MaxHeight])
  BY <1>9
<1> QED
  BY <1>10 DEF Expr, Solves

Kinds == {"column", "literal", "binary", "not", "and", "or", "in"}

\* What the parts of an expression are.
LEMMA PartForm ==
    \A e \in Expr :
        /\ e.kind \in Kinds
        /\ e.kind = "binary" => e.left \in Parts(e) /\ e.right \in Parts(e)
        /\ e.kind = "not" => e.inner \in Parts(e)
        /\ e.kind \in {"and", "or"} => \A i \in DOMAIN e.children : e.children[i] \in Parts(e)
        /\ Parts(e) \subseteq Expr
<1> SUFFICES ASSUME NEW e \in Expr
             PROVE  /\ e.kind \in Kinds
                    /\ e.kind = "binary" => e.left \in Parts(e) /\ e.right \in Parts(e)
                    /\ e.kind = "not" => e.inner \in Parts(e)
                    /\ e.kind \in {"and", "or"} =>
                          \A i \in DOMAIN e.children : e.children[i] \in Parts(e)
                    /\ Parts(e) \subseteq Expr
  OBVIOUS
<1>1. BuiltFrom(e, Expr)
  BY ExprForm
<1>2. Parts(e) \subseteq Expr
  BY <1>1, PartsIn
<1>3. e.kind \in Kinds
  BY <1>1 DEF BuiltFrom, IsOperand, IsInList, Kinds
<1> QED
  BY <1>2, <1>3 DEF Parts

-----------------------------------------------------------------------------
\* The evaluation of an expression depends on that of its parts only.
LEMMA EvaluateLocal ==
    ASSUME NEW e \in Expr, NEW b, NEW f, NEW g, \A c \in Parts(e) : f[c] = g[c]
    PROVE  EvaluateStep(f, e, b) = EvaluateStep(g, e, b)
<1>1. e.kind \in Kinds
  BY PartForm
<1>2. CASE e.kind \in {"column", "literal", "in"}
  BY <1>2 DEF EvaluateStep
<1>3. CASE e.kind = "binary"
  <2>1. f[e.left] = g[e.left] /\ f[e.right] = g[e.right]
    BY <1>3, PartForm
  <2> QED
    BY <1>3, <2>1, Zenon DEF EvaluateStep
<1>4. CASE e.kind = "not"
  BY <1>4, PartForm DEF EvaluateStep
<1>5. CASE e.kind = "and"
  <2>1. \A i \in DOMAIN e.children : f[e.children[i]] = g[e.children[i]]
    BY <1>5, PartForm
  <2>2. EvaluateStep(f, e, b) = IF e.children = <<>> THEN b.selection
           ELSE {row \in f[e.children[1]] :
                   \A i \in DOMAIN e.children : row \in f[e.children[i]]}
    BY <1>5 DEF EvaluateStep
  <2>3. EvaluateStep(g, e, b) = IF e.children = <<>> THEN b.selection
           ELSE {row \in g[e.children[1]] :
                   \A i \in DOMAIN e.children : row \in g[e.children[i]]}
    BY <1>5 DEF EvaluateStep
  <2>4. CASE e.children = <<>>
    BY <2>2, <2>3, <2>4
  <2>5. CASE e.children # <<>>
    <3>1. e.children \in Seq(Expr)
      BY <1>5, ExprForm DEF BuiltFrom, IsOperand, IsInList
    <3>2. 1 \in DOMAIN e.children
      BY <2>5, <3>1
    <3>3. f[e.children[1]] = g[e.children[1]]
      BY <2>1, <3>2
    <3>4. {row \in f[e.children[1]] : \A i \in DOMAIN e.children : row \in f[e.children[i]]}
            = {row \in g[e.children[1]] : \A i \in DOMAIN e.children : row \in g[e.children[i]]}
      BY <2>1, <3>3
    <3> QED
      BY <2>2, <2>3, <2>5, <3>4
  <2> QED
    BY <2>4, <2>5
<1>6. CASE e.kind = "or"
  <2>1. \A i \in DOMAIN e.children : f[e.children[i]] = g[e.children[i]]
    BY <1>6, PartForm
  <2>2. {f[e.children[i]] : i \in DOMAIN e.children} = {g[e.children[i]] : i \in DOMAIN e.children}
    BY <2>1
  <2>3. /\ EvaluateStep(f, e, b) = UNION {f[e.children[i]] : i \in DOMAIN e.children}
        /\ EvaluateStep(g, e, b) = UNION {g[e.children[i]] : i \in DOMAIN e.children}
    BY <1>6 DEF EvaluateStep
  <2> QED
    BY <2>2, <2>3
<1> QED
  BY <1>1, <1>2, <1>3, <1>4, <1>5, <1>6 DEF Kinds

\* If the parts leave selected rows only, so does the expression.
LEMMA EvaluateTyped ==
    ASSUME NEW e \in Expr, NEW b, NEW f, \A c \in Parts(e) : f[c] \in SUBSET b.selection
    PROVE  EvaluateStep(f, e, b) \in SUBSET b.selection
<1>1. e.kind \in Kinds
  BY PartForm
<1>2. Rows(b) \subseteq b.selection
  BY DEF Rows
<1>3. CASE e.kind \in {"column", "literal", "in"}
  BY <1>2, <1>3 DEF EvaluateStep
<1>4. CASE e.kind = "binary"
  <2>1. f[e.left] \subseteq b.selection /\ f[e.right] \subseteq b.selection
    BY <1>4, PartForm
  <2>2. EvalBinopBitmaps(e.op, f[e.left], f[e.right]) \subseteq b.selection
    BY <2>1 DEF EvalBinopBitmaps
  <2>3. \A idx, op, sv : EvalColBinLiteral(idx, op, sv, b) \subseteq b.selection
    BY <1>2 DEF EvalColBinLiteral
  <2> QED
    BY <1>4, <2>2, <2>3 DEF EvaluateStep
<1>5. CASE e.kind = "not"
  BY <1>5 DEF EvaluateStep, NotWithin
<1>6. CASE e.kind = "and"
  <2>1. EvaluateStep(f, e, b) = IF e.children = <<>> THEN b.selection
           ELSE {row \in f[e.children[1]] :
                   \A i \in DOMAIN e.children : row \in f[e.children[i]]}
    BY <1>6 DEF EvaluateStep
  <2>2. CASE e.children # <<>>
    <3>1. e.children \in Seq(Expr)
      BY <1>6, ExprForm DEF BuiltFrom, IsOperand, IsInList
    <3>2. f[e.children[1]] \subseteq b.selection
      BY <1>6, <2>2, <3>1, PartForm
    <3> QED
      BY <2>1, <2>2, <3>2
  <2> QED
    BY <2>1, <2>2
<1>7. CASE e.kind = "or"
  <2>1. \A i \in DOMAIN e.children : f[e.children[i]] \subseteq b.selection
    BY <1>7, PartForm
  <2>2. EvaluateStep(f, e, b) = UNION {f[e.children[i]] : i \in DOMAIN e.children}
    BY <1>7 DEF EvaluateStep
  <2> QED
    BY <2>1, <2>2
<1> QED
  BY <1>1, <1>3, <1>4, <1>5, <1>6, <1>7 DEF Kinds

\* f evaluates every expression on b as the step says.
IsEvaluation(f, b) == f = [e \in Expr |-> EvaluateStep(f, e, b)]

(***************************************************************************)
(* Evaluation is well defined, and leaves selected rows only.              *)
(***************************************************************************)
LEMMA EvaluationUnfolds ==
    ASSUME NEW b
    PROVE  \A e \in Expr : /\ EvaluateImpl(e, b) = EvaluateStep(Evaluation(b), e, b)
                           /\ EvaluateImpl(e, b) \in SUBSET b.selection
<1> DEFINE V == SUBSET b.selection
           A == [p \in Expr \X [Expr -> V] |-> EvaluateStep(p[2], p[1], b)]
<1>1. A \in [Expr \X [Expr -> V] -> V]
  <2>1. ASSUME NEW e \in Expr, NEW f \in [Expr -> V] PROVE EvaluateStep(f, e, b) \in V
    <3>1. \A c \in Parts(e) : f[c] \in SUBSET b.selection
      BY PartForm
    <3> QED
      BY <3>1, EvaluateTyped
  <2> QED
    BY <2>1
<1>2. IsLocal(A, V)
  <2>1. ASSUME NEW e \in Expr, NEW f \in [Expr -> V], NEW g \in [Expr -> V],
               \A c \in Parts(e) : f[c] = g[c]
        PROVE  A[<<e, f>>] = A[<<e, g>>]
    <3>1. EvaluateStep(f, e, b) = EvaluateStep(g, e, b)
      BY <2>1, EvaluateLocal
    <3> QED
      BY <3>1
  <2> HIDE DEF A, V
  <2> QED
    BY <2>1 DEF IsLocal
<1>3. PICK f \in [Expr -> V] : \A e \in Expr : f[e] = A[<<e, f>>]
  <2>1. {} \in V
    OBVIOUS
  <2> HIDE DEF A, V
  <2> QED
    BY <1>1, <1>2, <2>1, Recursion
<1>4. IsEvaluation(f, b)
  BY <1>3 DEF IsEvaluation
<1>5. Evaluation(b) = CHOOSE x : IsEvaluation(x, b)
  BY Zenon DEF Evaluation, IsEvaluation
<1>6. IsEvaluation(Evaluation(b), b)
  BY <1>4, <1>5, Zenon
<1>7. \A e \in Expr : EvaluateImpl(e, b) = EvaluateStep(Evaluation(b), e, b)
  BY <1>6 DEF IsEvaluation, EvaluateImpl
<1>8. Expr \subseteq {e \in Expr : EvaluateImpl(e, b) \in SUBSET b.selection}
  <2> DEFINE S == {e \in Expr : EvaluateImpl(e, b) \in SUBSET b.selection}
  <2>1. ASSUME NEW e \in Expr, Parts(e) \subseteq S PROVE e \in S
    <3>1. \A c \in Parts(e) : Evaluation(b)[c] \in SUBSET b.selection
      BY <2>1 DEF EvaluateImpl
    <3> QED
      BY <1>7, <3>1, EvaluateTyped
  <2> HIDE DEF S
  <2>2. Expr \subseteq S
    BY <2>1, TreeInduction
  <2> QED
    BY <2>2 DEF S
<1> QED
  BY <1>7, <1>8

\* Whether an expression panics depends on its parts only ...
LEMMA PanicsLocal ==
    ASSUME NEW e \in Expr, NEW b, NEW f, NEW g, \A c \in Parts(e) : f[c] = g[c]
    PROVE  PanicsStep(f, e, b) = PanicsStep(g, e, b)
<1>1. e.kind \in Kinds
  BY PartForm
<1>2. CASE e.kind \in {"column", "literal", "in"}
  BY <1>2 DEF PanicsStep
<1>3. CASE e.kind = "binary"
  <2>1. f[e.left] = g[e.left] /\ f[e.right] = g[e.right]
    BY <1>3, PartForm
  <2> QED
    BY <1>3, <2>1 DEF PanicsStep
<1>4. CASE e.kind = "not"
  BY <1>4, PartForm DEF PanicsStep
<1>5. CASE e.kind \in {"and", "or"}
  <2>1. \A i \in DOMAIN e.children : f[e.children[i]] = g[e.children[i]]
    BY <1>5, PartForm
  <2> QED
    BY <1>5, <2>1 DEF PanicsStep
<1> QED
  BY <1>1, <1>2, <1>3, <1>4, <1>5 DEF Kinds

\* ... and is TRUE or FALSE if that of the parts is.
LEMMA PanicsTyped ==
    ASSUME NEW e \in Expr, NEW b, NEW f, \A c \in Parts(e) : f[c] \in BOOLEAN
    PROVE  PanicsStep(f, e, b) \in BOOLEAN
<1>1. e.kind \in Kinds
  BY PartForm
<1>2. CASE e.kind \in {"column", "literal", "in", "and", "or"}
  BY <1>2 DEF PanicsStep
<1>3. CASE e.kind = "binary"
  BY <1>3 DEF PanicsStep, ColBinLiteralPanics
<1>4. CASE e.kind = "not"
  BY <1>4, PartForm DEF PanicsStep
<1> QED
  BY <1>1, <1>2, <1>3, <1>4 DEF Kinds

\* f says of every expression whether it panics as the step says.
IsPanics(f, b) == f = [e \in Expr |-> PanicsStep(f, e, b)]

\* EvaluatePanics is well defined.
LEMMA PanicsUnfolds ==
    ASSUME NEW b
    PROVE  \A e \in Expr : EvaluatePanics(e, b) = PanicsStep(Panics(b), e, b)
<1> DEFINE A == [p \in Expr \X [Expr -> BOOLEAN] |-> PanicsStep(p[2], p[1], b)]
<1>1. A \in [Expr \X [Expr -> BOOLEAN] -> BOOLEAN]
  <2>1. ASSUME NEW e \in Expr, NEW f \in [Expr -> BOOLEAN]
        PROVE  PanicsStep(f, e, b) \in BOOLEAN
    <3>1. \A c \in Parts(e) : f[c] \in BOOLEAN
      BY PartForm
    <3> QED
      BY <3>1, PanicsTyped
  <2> QED
    BY <2>1
<1>2. IsLocal(A, BOOLEAN)
  <2>1. ASSUME NEW e \in Expr, NEW f \in [Expr -> BOOLEAN], NEW g \in [Expr -> BOOLEAN],
               \A c \in Parts(e) : f[c] = g[c]
        PROVE  A[<<e, f>>] = A[<<e, g>>]
    <3>1. PanicsStep(f, e, b) = PanicsStep(g, e, b)
      BY <2>1, PanicsLocal
    <3>2. A[<<e, f>>] = PanicsStep(f, e, b) /\ A[<<e, g>>] = PanicsStep(g, e, b)
      OBVIOUS
    <3> QED
      BY <3>1, <3>2, Zenon
  <2> HIDE DEF A
  <2> QED
    BY <2>1 DEF IsLocal
<1>3. PICK f \in [Expr -> BOOLEAN] : \A e \in Expr : f[e] = A[<<e, f>>]
  <2> HIDE DEF A
  <2> QED
    BY <1>1, <1>2, Recursion
<1>4. IsPanics(f, b)
  BY <1>3 DEF IsPanics
<1>5. Panics(b) = CHOOSE x : IsPanics(x, b)
  BY Zenon DEF Panics, IsPanics
<1>6. IsPanics(Panics(b), b)
  BY <1>4, <1>5, Zenon
<1> QED
  BY <1>6 DEF IsPanics, EvaluatePanics

\* What can_prune says of every expression.
Pruning(stats) == LET prune[x \in Expr] == PruneStep(prune, x, stats) IN prune

\* Whether the reference lets a row through, for every expression.
Holding(b, row) == LET holds[x \in Expr] == RowStep(holds, x, b, row) IN holds


\* Whether an expression can be pruned depends on whether its parts can ...
LEMMA PruneLocal ==
    ASSUME NEW e \in Expr, NEW stats, NEW f, NEW g, \A c \in Parts(e) : f[c] = g[c]
    PROVE  PruneStep(f, e, stats) = PruneStep(g, e, stats)
<1>1. e.kind \in Kinds
  BY PartForm
<1>2. CASE e.kind \in {"column", "literal", "in"}
  BY <1>2 DEF PruneStep
<1>3. CASE e.kind = "binary"
  <2>1. f[e.left] = g[e.left] /\ f[e.right] = g[e.right]
    BY <1>3, PartForm
  <2> QED
    BY <1>3, <2>1 DEF PruneStep
<1>4. CASE e.kind = "not"
  BY <1>4, PartForm DEF PruneStep
<1>5. CASE e.kind \in {"and", "or"}
  <2>1. \A i \in DOMAIN e.children : f[e.children[i]] = g[e.children[i]]
    BY <1>5, PartForm
  <2> QED
    BY <1>5, <2>1 DEF PruneStep
<1> QED
  BY <1>1, <1>2, <1>3, <1>4, <1>5 DEF Kinds

\* ... and is TRUE or FALSE if that of the parts is.
LEMMA PruneTyped ==
    ASSUME NEW e \in Expr, NEW stats, NEW f, \A c \in Parts(e) : f[c] \in BOOLEAN
    PROVE  PruneStep(f, e, stats) \in BOOLEAN
<1>1. e.kind \in Kinds
  BY PartForm
<1>2. CASE e.kind \in {"column", "literal", "in", "and", "or"}
  BY <1>2 DEF PruneStep, CanPruneIn
<1>3. CASE e.kind = "binary"
  <2>1. \A idx, op, v : CanPruneColOp(idx, op, v, stats) \in BOOLEAN
    BY Zenon DEF CanPruneColOp
  <2>2. CASE e.left.kind = "column" /\ IsI64(e.right)
    BY <1>3, <2>1, <2>2 DEF PruneStep
  <2>3. CASE /\ ~(e.left.kind = "column" /\ IsI64(e.right))
             /\ e.right.kind = "column" /\ IsI64(e.left)
    BY <1>3, <2>1, <2>3 DEF PruneStep
  <2>4. CASE /\ ~(e.left.kind = "column" /\ IsI64(e.right))
             /\ ~(e.right.kind = "column" /\ IsI64(e.left))
    BY <1>3, <2>4 DEF PruneStep
  <2> QED
    BY <2>2, <2>3, <2>4
<1>4. CASE e.kind = "not"
  BY <1>4, PartForm DEF PruneStep
<1> QED
  BY <1>1, <1>2, <1>3, <1>4 DEF Kinds

\* f prunes every expression as the step says.
IsPruning(f, stats) == f = [e \in Expr |-> PruneStep(f, e, stats)]

\* can_prune is well defined on every expression.
LEMMA PruneUnfolds ==
    ASSUME NEW stats
    PROVE  \A e \in Expr : Pruning(stats)[e] = PruneStep(Pruning(stats), e, stats)
<1> DEFINE A == [p \in Expr \X [Expr -> BOOLEAN] |-> PruneStep(p[2], p[1], stats)]
<1>1. A \in [Expr \X [Expr -> BOOLEAN] -> BOOLEAN]
  <2>1. ASSUME NEW e \in Expr, NEW f \in [Expr -> BOOLEAN]
        PROVE  PruneStep(f, e, stats) \in BOOLEAN
    <3>1. \A c \in Parts(e) : f[c] \in BOOLEAN
      BY PartForm
    <3> QED
      BY <3>1, PruneTyped
  <2> QED
    BY <2>1
<1>2. IsLocal(A, BOOLEAN)
  <2>1. ASSUME NEW e \in Expr, NEW f \in [Expr -> BOOLEAN], NEW g \in [Expr -> BOOLEAN],
               \A c \in Parts(e) : f[c] = g[c]
        PROVE  A[<<e, f>>] = A[<<e, g>>]
    <3>1. PruneStep(f, e, stats) = PruneStep(g, e, stats)
      BY <2>1, PruneLocal
    <3>2. A[<<e, f>>] = PruneStep(f, e, stats) /\ A[<<e, g>>] = PruneStep(g, e, stats)
      OBVIOUS
    <3> QED
      BY <3>1, <3>2, Zenon
  <2> HIDE DEF A
  <2> QED
    BY <2>1 DEF IsLocal
<1>3. PICK f \in [Expr -> BOOLEAN] : \A e \in Expr : f[e] = A[<<e, f>>]
  <2> HIDE DEF A
  <2> QED
    BY <1>1, <1>2, Recursion
<1>4. IsPruning(f, stats)
  BY <1>3 DEF IsPruning
<1>5. Pruning(stats) = CHOOSE x : IsPruning(x, stats)
  BY Zenon DEF Pruning, IsPruning
<1>6. IsPruning(Pruning(stats), stats)
  BY <1>4, <1>5, Zenon
<1> QED
  BY <1>6 DEF IsPruning


\* Whether an expression is a filter depends on whether its parts are ...
LEMMA FilterLocal ==
    ASSUME NEW e \in Expr, NEW f, NEW g, \A c \in Parts(e) : f[c] = g[c]
    PROVE  FilterStep(f, e) = FilterStep(g, e)
<1>1. e.kind \in Kinds
  BY PartForm
<1>2. CASE e.kind \in {"column", "literal", "in"}
  BY <1>2 DEF FilterStep
<1>3. CASE e.kind = "binary"
  <2>1. f[e.left] = g[e.left] /\ f[e.right] = g[e.right]
    BY <1>3, PartForm
  <2> QED
    BY <1>3, <2>1 DEF FilterStep
<1>4. CASE e.kind = "not"
  BY <1>4, PartForm DEF FilterStep
<1>5. CASE e.kind \in {"and", "or"}
  <2>1. \A i \in DOMAIN e.children : f[e.children[i]] = g[e.children[i]]
    BY <1>5, PartForm
  <2> QED
    BY <1>5, <2>1 DEF FilterStep
<1> QED
  BY <1>1, <1>2, <1>3, <1>4, <1>5 DEF Kinds

\* ... and is TRUE or FALSE if that of the parts is.
LEMMA FilterTyped ==
    ASSUME NEW e \in Expr, NEW f, \A c \in Parts(e) : f[c] \in BOOLEAN
    PROVE  FilterStep(f, e) \in BOOLEAN
<1>1. e.kind \in Kinds
  BY PartForm
<1>2. CASE e.kind \in {"column", "literal", "in", "and", "or"}
  BY <1>2 DEF FilterStep
<1>3. CASE e.kind = "binary"
  BY <1>3 DEF FilterStep
<1>4. CASE e.kind = "not"
  BY <1>4, PartForm DEF FilterStep
<1> QED
  BY <1>1, <1>2, <1>3, <1>4 DEF Kinds

\* f tells filters from other expressions as the step says.
IsFiltering(f) == f = [e \in Expr |-> FilterStep(f, e)]

\* Which expressions are filters is well defined.
LEMMA FilterUnfolds ==
    \A e \in Expr : IsFilter[e] = FilterStep(IsFilter, e)
<1> DEFINE A == [p \in Expr \X [Expr -> BOOLEAN] |-> FilterStep(p[2], p[1])]
<1>1. A \in [Expr \X [Expr -> BOOLEAN] -> BOOLEAN]
  <2>1. ASSUME NEW e \in Expr, NEW f \in [Expr -> BOOLEAN]
        PROVE  FilterStep(f, e) \in BOOLEAN
    <3>1. \A c \in Parts(e) : f[c] \in BOOLEAN
      BY PartForm
    <3> QED
      BY <3>1, FilterTyped
  <2> QED
    BY <2>1
<1>2. IsLocal(A, BOOLEAN)
  <2>1. ASSUME NEW e \in Expr, NEW f \in [Expr -> BOOLEAN], NEW g \in [Expr -> BOOLEAN],
               \A c \in Parts(e) : f[c] = g[c]
        PROVE  A[<<e, f>>] = A[<<e, g>>]
    <3>1. FilterStep(f, e) = FilterStep(g, e)
      BY <2>1, FilterLocal
    <3>2. A[<<e, f>>] = FilterStep(f, e) /\ A[<<e, g>>] = FilterStep(g, e)
      OBVIOUS
    <3> QED
      BY <3>1, <3>2, Zenon
  <2> HIDE DEF A
  <2> QED
    BY <2>1 DEF IsLocal
<1>3. PICK f \in [Expr -> BOOLEAN] : \A e \in Expr : f[e] = A[<<e, f>>]
  <2> HIDE DEF A
  <2> QED
    BY <1>1, <1>2, Recursion
<1>4. IsFiltering(f)
  BY <1>3 DEF IsFiltering
<1>5. IsFilter = CHOOSE x : IsFiltering(x)
  BY Zenon DEF IsFilter, IsFiltering
<1>6. IsFiltering(IsFilter)
  BY <1>4, <1>5, Zenon
<1> QED
  BY <1>6 DEF IsFiltering


\* A comparison is true or false.
LEMMA CompareBoolean ==
    ASSUME NEW op \in Comparisons, NEW x, NEW y
    PROVE  Compare(op, x, y) \in BOOLEAN
<1>1. CASE op = "Eq"
  BY <1>1 DEF Compare
<1>2. CASE op = "NotEq"
  BY <1>2 DEF Compare
<1>3. CASE op = "Lt"
  BY <1>3 DEF Compare
<1>4. CASE op = "LtEq"
  BY <1>4 DEF Compare
<1>5. CASE op = "Gt"
  BY <1>5 DEF Compare
<1>6. CASE op = "GtEq"
  BY <1>6 DEF Compare
<1> QED
  BY <1>1, <1>2, <1>3, <1>4, <1>5, <1>6 DEF Comparisons

\* Whether a row passes an expression depends on whether it passes the parts ...
LEMMA RowLocal ==
    ASSUME NEW e \in Expr, NEW b, NEW row, NEW f, NEW g, \A c \in Parts(e) : f[c] = g[c]
    PROVE  RowStep(f, e, b, row) = RowStep(g, e, b, row)
<1>1. e.kind \in Kinds
  BY PartForm
<1>2. CASE e.kind \in {"column", "literal", "in"}
  BY <1>2 DEF RowStep
<1>3. CASE e.kind = "binary"
  <2>1. f[e.left] = g[e.left] /\ f[e.right] = g[e.right]
    BY <1>3, PartForm
  <2> QED
    BY <1>3, <2>1 DEF RowStep
<1>4. CASE e.kind = "not"
  BY <1>4, PartForm DEF RowStep
<1>5. CASE e.kind \in {"and", "or"}
  <2>1. \A i \in DOMAIN e.children : f[e.children[i]] = g[e.children[i]]
    BY <1>5, PartForm
  <2> QED
    BY <1>5, <2>1 DEF RowStep
<1> QED
  BY <1>1, <1>2, <1>3, <1>4, <1>5 DEF Kinds

\* A literal is true or not, an f64 too.
LEMMA TruthyBoolean == \A sv \in ScalarValue : Truthy(sv) \in BOOLEAN
<1>1. \A x \in Float : FloatCompare("NotEq", x, FloatZero) \in BOOLEAN
  BY FloatAssumption DEF Comparisons
<1>2. \A sv \in ScalarValue : sv.type = "f64" => sv.v \in Float
  BY DEF ScalarValue, Bool, Null
<1> QED
  BY <1>1, <1>2 DEF Truthy

\* ... and is TRUE or FALSE if that of the parts is.
LEMMA RowTyped ==
    ASSUME NEW e \in Expr, NEW b, NEW row, NEW f, \A c \in Parts(e) : f[c] \in BOOLEAN
    PROVE  RowStep(f, e, b, row) \in BOOLEAN
<1>1. e.kind \in Kinds
  BY PartForm
<1>2. CASE e.kind \in {"column", "literal", "in", "and", "or"}
  <2>1. e.kind = "literal" => e.sv \in ScalarValue
    BY ExprForm DEF BuiltFrom, IsOperand, IsInList
  <2>2. e.kind = "literal" => Truthy(e.sv) \in BOOLEAN
    BY <2>1, TruthyBoolean
  <2> QED
    BY <1>2, <2>2 DEF RowStep
<1>3. CASE e.kind = "binary"
  <2>1. \A op, x, y : HoldsOn(op, x, y) \in BOOLEAN
    BY CompareBoolean DEF HoldsOn
  <2> QED
    BY <1>3, <2>1 DEF RowStep
<1>4. CASE e.kind = "not"
  BY <1>4, PartForm DEF RowStep
<1> QED
  BY <1>1, <1>2, <1>3, <1>4 DEF Kinds

\* f lets the row through every expression as the step says.
IsHolding(f, b, row) == f = [e \in Expr |-> RowStep(f, e, b, row)]

\* Which rows an expression lets through is well defined.
LEMMA RowUnfolds ==
    ASSUME NEW b, NEW row
    PROVE  \A e \in Expr : Holding(b, row)[e] = RowStep(Holding(b, row), e, b, row)
<1> DEFINE A == [p \in Expr \X [Expr -> BOOLEAN] |-> RowStep(p[2], p[1], b, row)]
<1>1. A \in [Expr \X [Expr -> BOOLEAN] -> BOOLEAN]
  <2>1. ASSUME NEW e \in Expr, NEW f \in [Expr -> BOOLEAN]
        PROVE  RowStep(f, e, b, row) \in BOOLEAN
    <3>1. \A c \in Parts(e) : f[c] \in BOOLEAN
      BY PartForm
    <3> QED
      BY <3>1, RowTyped
  <2> QED
    BY <2>1
<1>2. IsLocal(A, BOOLEAN)
  <2>1. ASSUME NEW e \in Expr, NEW f \in [Expr -> BOOLEAN], NEW g \in [Expr -> BOOLEAN],
               \A c \in Parts(e) : f[c] = g[c]
        PROVE  A[<<e, f>>] = A[<<e, g>>]
    <3>1. RowStep(f, e, b, row) = RowStep(g, e, b, row)
      BY <2>1, RowLocal
    <3>2. A[<<e, f>>] = RowStep(f, e, b, row) /\ A[<<e, g>>] = RowStep(g, e, b, row)
      OBVIOUS
    <3> QED
      BY <3>1, <3>2, Zenon
  <2> HIDE DEF A
  <2> QED
    BY <2>1 DEF IsLocal
<1>3. PICK f \in [Expr -> BOOLEAN] : \A e \in Expr : f[e] = A[<<e, f>>]
  <2> HIDE DEF A
  <2> QED
    BY <1>1, <1>2, Recursion
<1>4. IsHolding(f, b, row)
  BY <1>3 DEF IsHolding
<1>5. Holding(b, row) = CHOOSE x : IsHolding(x, b, row)
  BY Zenon DEF Holding, IsHolding
<1>6. IsHolding(Holding(b, row), b, row)
  BY <1>4, <1>5, Zenon
<1> QED
  BY <1>6 DEF IsHolding

Valuing(b, row) == LET value[x \in Expr] == ValueStep(value, x, b, row) IN value

\* f gives every expression its value in the row as the step says.
IsValuing(f, b, row) == f = [e \in Expr |-> ValueStep(f, e, b, row)]

\* f gives the values of the expressions in S.
ValuedOn(f, S, b, row) == \A e \in S : f[e] = ValueStep(f, e, b, row)

\* The value of an expression depends on those of its parts only.
LEMMA ValueLocal ==
    ASSUME NEW e \in Expr, NEW b, NEW row, NEW f, NEW g, \A c \in Parts(e) : f[c] = g[c]
    PROVE  ValueStep(f, e, b, row) = ValueStep(g, e, b, row)
<1>1. CASE e.kind = "binary"
  <2>1. f[e.left] = g[e.left] /\ f[e.right] = g[e.right]
    BY <1>1, PartForm
  <2> QED
    BY <1>1, <2>1, Zenon DEF ValueStep
<1>2. CASE e.kind # "binary"
  BY <1>2 DEF ValueStep
<1> QED
  BY <1>1, <1>2

\* What is valued on the parts can be valued one level higher.
LEMMA ValueMore ==
    ASSUME NEW b, NEW row, NEW S, NEW T, S \subseteq Expr, T \subseteq Expr,
           \A e \in T : Parts(e) \subseteq S,
           NEW f, ValuedOn(f, S, b, row)
    PROVE  \E g : ValuedOn(g, T, b, row)
<1> DEFINE g == [e \in Expr |-> ValueStep(f, e, b, row)]
<1>1. ASSUME NEW e \in T PROVE g[e] = ValueStep(g, e, b, row)
  <2>1. \A c \in Parts(e) : f[c] = ValueStep(f, c, b, row)
    BY DEF ValuedOn
  <2>2. \A c \in Parts(e) : c \in Expr
    OBVIOUS
  <2>3. \A c \in Parts(e) : g[c] = f[c]
    BY <2>1, <2>2, Zenon
  <2>4. e \in Expr
    OBVIOUS
  <2>5. g[e] = ValueStep(f, e, b, row)
    BY <2>4
  <2>6. ValueStep(g, e, b, row) = ValueStep(f, e, b, row)
    <3> HIDE DEF g
    <3> QED
      BY <2>3, <2>4, ValueLocal
  <2> QED
    BY <2>5, <2>6, Zenon
<1> HIDE DEF g
<1> QED
  BY <1>1 DEF ValuedOn

\* The reference value of an expression is well defined.
LEMMA ValueUnfolds ==
    ASSUME NEW b, NEW row
    PROVE  \A e \in Expr : EvalValue(e, b, row) = ValueStep(Valuing(b, row), e, b, row)
<1> DEFINE N == {n \in Nat : n <= MaxHeight => \E f : ValuedOn(f, Trees[n], b, row)}
<1>1. MaxHeight \in Nat
  BY ExpressionsAssumption
<1>2. ASSUME NEW n \in Nat, n <= MaxHeight PROVE Trees[n] \subseteq Expr
  BY <1>1, <1>2, TreesGrow DEF Expr
<1>3. Operands \subseteq Expr /\ Leaves \subseteq Expr
  BY <1>1, LeafIn DEF Expr
<1>4. \E f : ValuedOn(f, Leaves, b, row)
  <2>1. ValuedOn(<<>>, {}, b, row)
    BY DEF ValuedOn
  <2>2. \A e \in Operands : Parts(e) \subseteq {}
    BY OperandForm DEF Parts, IsOperand
  <2>3. \E f : ValuedOn(f, Operands, b, row)
    BY <1>3, <2>1, <2>2, ValueMore
  <2>4. \A e \in Leaves : Parts(e) \subseteq Operands
    BY LeafForm DEF Parts, IsOperand, IsInList
  <2> QED
    BY <1>3, <2>3, <2>4, ValueMore
<1>5. 0 \in N
  BY <1>4, TreesUnfold
<1>6. ASSUME NEW n \in Nat, n \in N PROVE n + 1 \in N
  <2> SUFFICES ASSUME n + 1 <= MaxHeight PROVE \E f : ValuedOn(f, Trees[n + 1], b, row)
    OBVIOUS
  <2>1. n + 1 \in Nat /\ n <= MaxHeight
    BY <1>1
  <2>2. \A e \in Trees[n + 1] : Parts(e) \subseteq Trees[n]
    BY PartsBelow
  <2>3. PICK f : ValuedOn(f, Trees[n], b, row)
    BY <1>6, <2>1
  <2> DEFINE S == Trees[n]
             T == Trees[n + 1]
  <2>4. S \subseteq Expr /\ T \subseteq Expr /\ (\A e \in T : Parts(e) \subseteq S)
        /\ ValuedOn(f, S, b, row)
    BY <1>2, <2>1, <2>2, <2>3
  <2> HIDE DEF N, S, T
  <2>5. \E g : ValuedOn(g, T, b, row)
    BY <2>4, ValueMore
  <2> QED
    BY <2>5 DEF T
<1>7. N = Nat
  <2> HIDE DEF N
  <2>1. N \in SUBSET Nat
    BY DEF N
  <2> QED
    BY <1>5, <1>6, <2>1, NatInd
<1>8. \E f : ValuedOn(f, Expr, b, row)
  BY <1>1, <1>7 DEF Expr
<1>9. PICK f : ValuedOn(f, Expr, b, row)
  BY <1>8
<1>10. IsValuing([e \in Expr |-> f[e]], b, row)
  <2> DEFINE g == [e \in Expr |-> f[e]]
  <2>1. ASSUME NEW e \in Expr PROVE g[e] = ValueStep(g, e, b, row)
    <3>1. \A c \in Parts(e) : g[c] = f[c]
      BY PartForm
    <3>2. ValueStep(g, e, b, row) = ValueStep(f, e, b, row)
      <4> HIDE DEF g
      <4> QED
        BY <3>1, ValueLocal
    <3>3. f[e] = ValueStep(f, e, b, row)
      BY <1>9 DEF ValuedOn
    <3> QED
      BY <3>2, <3>3
  <2>2. g = [e \in Expr |-> g[e]]
    OBVIOUS
  <2> HIDE DEF g
  <2>3. g = [e \in Expr |-> ValueStep(g, e, b, row)]
    BY <2>1, <2>2
  <2> QED
    BY <2>3 DEF IsValuing, g
<1>11. Valuing(b, row) = CHOOSE x : IsValuing(x, b, row)
  BY Zenon DEF Valuing, IsValuing
<1>12. IsValuing(Valuing(b, row), b, row)
  BY <1>10, <1>11, Zenon
<1>13. \A e : EvalValue(e, b, row) = Valuing(b, row)[e]
  BY Zenon DEF EvalValue, Valuing
<1> QED
  BY <1>12, <1>13 DEF IsValuing

\* The reference evaluation of a row is well defined.
LEMMA EvalRowUnfolds ==
    ASSUME NEW b, NEW row
    PROVE  \A e : EvalRow(e, b, row) = Holding(b, row)[e]
BY Zenon DEF EvalRow, Holding

\* So is can_prune.
LEMMA CanPruneUnfolds ==
    ASSUME NEW stats
    PROVE  \A e : CanPruneExpr(e, stats) = Pruning(stats)[e]
BY Zenon DEF CanPruneExpr, Pruning

\* flat[i] is the first i sequences of s, one after the other.
IsFlat(flat, s, n) ==
    flat = [i \in 1 .. n |-> IF i = 1 THEN s[i] ELSE flat[i - 1] \o s[i]]

\* The prefixes of a flattened sequence exist.
LEMMA FlatExists ==
    ASSUME NEW s
    PROVE  \A n \in Nat : \E flat : IsFlat(flat, s, n)
<1> DEFINE N == {n \in Nat : \E flat : IsFlat(flat, s, n)}
<1>1. 0 \in N
  <2>1. IsFlat([i \in 1 .. 0 |-> 0], s, 0)
    BY DEF IsFlat
  <2> QED
    BY <2>1
<1>2. ASSUME NEW n \in Nat, n \in N PROVE n + 1 \in N
  <2>1. PICK f : IsFlat(f, s, n)
    BY <1>2
  <2> DEFINE last == IF n = 0 THEN s[1] ELSE f[n] \o s[n + 1]
             g == [i \in 1 .. n + 1 |-> IF i = n + 1 THEN last ELSE f[i]]
  <2>2. ASSUME NEW i \in 1 .. n + 1
        PROVE  g[i] = IF i = 1 THEN s[i] ELSE g[i - 1] \o s[i]
    <3>1. CASE i = n + 1
      BY <3>1
    <3>2. CASE i # n + 1
      <4>1. i \in 1 .. n /\ g[i] = f[i] /\ (i # 1 => g[i - 1] = f[i - 1])
        BY <3>2
      <4>2. f[i] = IF i = 1 THEN s[i] ELSE f[i - 1] \o s[i]
        BY <2>1, <4>1 DEF IsFlat
      <4> QED
        BY <4>1, <4>2
    <3> QED
      BY <3>1, <3>2
  <2>3. g = [i \in 1 .. n + 1 |-> g[i]]
    OBVIOUS
  <2> HIDE DEF g
  <2>4. IsFlat(g, s, n + 1)
    BY <2>2, <2>3 DEF IsFlat
  <2> QED
    BY <2>4
<1>3. N = Nat
  <2> HIDE DEF N
  <2>1. N \in SUBSET Nat
    BY DEF N
  <2> QED
    BY <1>1, <1>2, <2>1, NatInd
<1> QED
  BY <1>3

\* The elements of two sequences put together.
LEMMA ConcatSet ==
    ASSUME NEW T, NEW s \in Seq(T), NEW t \in Seq(T)
    PROVE  ToSet(s \o t) = ToSet(s) \cup ToSet(t)
<1>1. Len(s) \in Nat /\ Len(t) \in Nat /\ DOMAIN s = 1 .. Len(s) /\ DOMAIN t = 1 .. Len(t)
  OBVIOUS
<1>2. /\ DOMAIN (s \o t) = 1 .. Len(s) + Len(t)
      /\ \A i \in 1 .. Len(s) + Len(t) : (s \o t)[i] = IF i <= Len(s) THEN s[i] ELSE t[i - Len(s)]
  OBVIOUS
<1>3. ASSUME NEW x \in ToSet(s \o t) PROVE x \in ToSet(s) \cup ToSet(t)
  <2>1. PICK i \in 1 .. Len(s) + Len(t) : x = (s \o t)[i]
    BY <1>2 DEF ToSet
  <2>2. CASE i <= Len(s)
    BY <1>1, <1>2, <2>1, <2>2 DEF ToSet
  <2>3. CASE ~(i <= Len(s))
    <3>1. i - Len(s) \in 1 .. Len(t) /\ x = t[i - Len(s)]
      BY <1>1, <1>2, <2>1, <2>3
    <3> QED
      BY <1>1, <3>1 DEF ToSet
  <2> QED
    BY <2>2, <2>3
<1>4. ToSet(s) \subseteq ToSet(s \o t)
  BY <1>1, <1>2 DEF ToSet
<1>5. ASSUME NEW x \in ToSet(t) PROVE x \in ToSet(s \o t)
  <2>1. PICK i \in 1 .. Len(t) : x = t[i]
    BY <1>1 DEF ToSet
  <2>2. i + Len(s) \in 1 .. Len(s) + Len(t) /\ (s \o t)[i + Len(s)] = t[i]
    BY <1>1, <1>2
  <2> QED
    BY <1>2, <2>1, <2>2 DEF ToSet
<1> QED
  BY <1>3, <1>4, <1>5

(***************************************************************************)
(* Flattening sequences over T gives a sequence over T with the elements   *)
(* of them all.                                                            *)
(***************************************************************************)
LEMMA Flat ==
    ASSUME NEW T, NEW s \in Seq(Seq(T))
    PROVE  /\ FlattenSeq(s) \in Seq(T)
           /\ ToSet(FlattenSeq(s)) = UNION {ToSet(s[i]) : i \in DOMAIN s}
<1>1. CASE Len(s) = 0
  <2>1. FlattenSeq(s) = s /\ s = <<>>
    BY <1>1 DEF FlattenSeq
  <2> QED
    BY <2>1 DEF ToSet
<1>2. CASE Len(s) # 0
  <2> DEFINE len == Len(s)
             flat == CHOOSE f : IsFlat(f, s, len)
  <2>1. len \in Nat /\ len # 0 /\ DOMAIN s = 1 .. len
    BY <1>2
  <2>2. FlattenSeq(s) = flat[len]
    BY <1>2, Zenon DEF FlattenSeq, IsFlat
  <2>3. IsFlat(flat, s, len)
    BY <2>1, FlatExists, Zenon
  <2> HIDE DEF flat, len
  <2> DEFINE Done(i) == /\ flat[i] \in Seq(T)
                        /\ ToSet(flat[i]) = UNION {ToSet(s[j]) : j \in 1 .. i}
             N == {k \in Nat : k + 1 <= len => Done(k + 1)}
  <2>4. 0 \in N
    <3>1. flat[1] = s[1] /\ s[1] \in Seq(T)
      BY <2>1, <2>3 DEF IsFlat
    <3>2. UNION {ToSet(s[j]) : j \in 1 .. 1} = ToSet(s[1])
      OBVIOUS
    <3> QED
      BY <3>1, <3>2
  <2>5. ASSUME NEW k \in Nat, k \in N PROVE k + 1 \in N
    <3> SUFFICES ASSUME (k + 1) + 1 <= len PROVE Done((k + 1) + 1)
      OBVIOUS
    <3> DEFINE i == (k + 1) + 1
    <3>1. i \in 1 .. len /\ i # 1 /\ i - 1 = k + 1 /\ k + 1 <= len
      BY <2>1
    <3>2. Done(k + 1)
      BY <2>5, <3>1
    <3> HIDE DEF i
    <3>3. flat[i] = flat[k + 1] \o s[i] /\ s[i] \in Seq(T)
      <4>1. flat[i] = IF i = 1 THEN s[i] ELSE flat[i - 1] \o s[i]
        BY <2>3, <3>1 DEF IsFlat
      <4>2. s[i] \in Seq(T)
        BY <2>1, <3>1
      <4> QED
        BY <3>1, <4>1, <4>2, Zenon
    <3>4. flat[i] \in Seq(T) /\ ToSet(flat[i]) = ToSet(flat[k + 1]) \cup ToSet(s[i])
      <4> DEFINE a == flat[k + 1]
                 b == s[i]
      <4>1. a \in Seq(T) /\ b \in Seq(T) /\ flat[i] = a \o b
        BY <3>2, <3>3
      <4> HIDE DEF a, b
      <4>2. flat[i] \in Seq(T)
        BY <4>1
      <4>3. ToSet(a \o b) = ToSet(a) \cup ToSet(b)
        BY <4>1, ConcatSet
      <4> QED
        BY <4>1, <4>2, <4>3 DEF a, b
    <3>5. 1 .. i = (1 .. k + 1) \cup {i}
      BY <3>1
    <3>6. UNION {ToSet(s[j]) : j \in 1 .. i}
            = (UNION {ToSet(s[j]) : j \in 1 .. k + 1}) \cup ToSet(s[i])
      <4> DEFINE K == 1 .. k + 1
      <4>1. 1 .. i = K \cup {i}
        BY <3>5
      <4> HIDE DEF K
      <4>2. UNION {ToSet(s[j]) : j \in K \cup {i}} = (UNION {ToSet(s[j]) : j \in K}) \cup ToSet(s[i])
        OBVIOUS
      <4> QED
        BY <4>1, <4>2 DEF K
    <3>7. Done(i)
      <4>1. ToSet(flat[k + 1]) = UNION {ToSet(s[j]) : j \in 1 .. k + 1}
        BY <3>2
      <4> QED
        BY <3>4, <3>6, <4>1, Zenon
    <3> QED
      BY <3>7 DEF i
  <2>6. N = Nat
    <3> HIDE DEF N
    <3>1. N \in SUBSET Nat
      BY DEF N
    <3> QED
      BY <2>4, <2>5, <3>1, NatInd
  <2>7. len - 1 \in Nat /\ (len - 1) + 1 = len
    BY <2>1
  <2>8. Done(len)
    <3>1. len - 1 \in N
      BY <2>6, <2>7
    <3>2. (len - 1) + 1 <= len => Done((len - 1) + 1)
      <4> HIDE DEF Done
      <4> QED
        BY <3>1
    <3>3. (len - 1) + 1 <= len
      BY <2>1
    <3> QED
      BY <2>7, <3>2, <3>3
  <2> QED
    BY <2>1, <2>2, <2>8
<1> QED
  BY <1>1, <1>2

\* A set put into a sequence.
LEMMA Listed ==
    ASSUME NEW S, IsFiniteSet(S)
    PROVE  SetToSeq(S) \in Seq(S) /\ ToSet(SetToSeq(S)) = S
<1> DEFINE n == Cardinality(S)
<1>1. n \in Nat /\ ExistsBijection(1 .. n, S)
  BY FS_CardinalityType
<1>2. PICK f : f \in Bijection(1 .. n, S)
  BY <1>1 DEF ExistsBijection
<1>3. f \in [1 .. n -> S] /\ IsInjective(f)
  BY <1>2 DEF Bijection, Injection
<1> DEFINE g == SetToSeq(S)
<1>4. g = CHOOSE x \in [1 .. n -> S] : IsInjective(x)
  BY DEF SetToSeq
<1> HIDE DEF g, n
<1>5. g \in [1 .. n -> S] /\ IsInjective(g)
  BY <1>3, <1>4, Zenon
<1>6. g \in Injection(1 .. n, S)
  BY <1>5 DEF Injection
<1>7. IsFiniteSet(1 .. n) /\ Cardinality(1 .. n) = Cardinality(S)
  BY <1>1, FS_Interval DEF n
<1>8. g \in Surjection(1 .. n, S)
  BY <1>6, <1>7, FS_Injection
<1>9. ToSet(g) = S
  BY <1>5, <1>8 DEF ToSet, Surjection
<1>10. g \in Seq(S)
  BY <1>1, <1>5
<1> QED
  BY <1>9, <1>10 DEF g

\* The values of a sequence are finitely many.
LEMMA FiniteValues ==
    ASSUME NEW T, NEW s \in Seq(T)
    PROVE  IsFiniteSet(ToSet(s)) /\ ToSet(s) \subseteq T
<1>1. Len(s) \in Nat /\ DOMAIN s = 1 .. Len(s)
  OBVIOUS
<1>2. IsFiniteSet(1 .. Len(s))
  BY <1>1, FS_Interval
<1>3. s \in Surjection(1 .. Len(s), ToSet(s))
  BY <1>1 DEF Surjection, ToSet
<1> QED
  BY <1>1, <1>2, <1>3, FS_Surjection DEF ToSet

\* What a tree of a kind is made of.
LEMMA TreeShape ==
    ASSUME NEW n \in Nat, NEW e \in Trees[n]
    PROVE  /\ e.kind \in Kinds
           /\ e.kind = "literal" => e = Literal(e.sv) /\ e.sv \in ScalarValue
           /\ e.kind = "column" => e = Column(e.idx) /\ e.idx \in Nat \ {0}
           /\ e.kind = "in" =>
                 e = In(e.idx, e.values) /\ e.idx \in Nat \ {0} /\ e.values \in Seq(Values)
           /\ e.kind = "not" => n > 0 /\ e = Not(e.inner) /\ e.inner \in Trees[n - 1]
           /\ e.kind \in {"and", "or"} =>
                 /\ n > 0 /\ e.children \in Seq(Trees[n - 1])
                 /\ e = [kind |-> e.kind, children |-> e.children]
<1>1. CASE e \in Leaves
  BY <1>1, LeafForm DEF IsOperand, IsInList, Kinds
<1>2. CASE n > 0 /\ BuiltFrom(e, Trees[n - 1])
  BY <1>2 DEF BuiltFrom, IsOperand, IsInList, Kinds, And, Or
<1> QED
  BY <1>1, <1>2, TreeForm

\* Literals and columns are operands.
LEMMA OperandIn ==
    /\ \A sv \in ScalarValue : Literal(sv) \in Operands
    /\ \A b : Bool(b) \in ScalarValue /\ Literal(Bool(b)) \in Operands
    /\ \A v \in Values : I64(v) \in ScalarValue
    /\ \A v \in Float : F64(v) \in ScalarValue
    /\ \A idx \in Nat \ {0} : Column(idx) \in Operands
<1>1. \A sv \in ScalarValue : Literal(sv) \in Operands
  BY DEF Operands, Literal
<1>2. \A b : Bool(b) \in ScalarValue
  BY DEF ScalarValue, Bool
<1>3. \A v \in Values : I64(v) \in ScalarValue
  BY DEF ScalarValue, I64
<1>4. \A v \in Float : F64(v) \in ScalarValue
  BY DEF ScalarValue, F64
<1>5. \A idx \in Nat \ {0} : Column(idx) \in Operands
  BY DEF Operands, Column
<1> QED
  BY <1>1, <1>2, <1>3, <1>4, <1>5

\* An operator on operands is a leaf.
LEMMA BinaryLeaf ==
    ASSUME NEW op \in Comparisons \cup Arithmetic, NEW x \in Operands, NEW y \in Operands
    PROVE  BinaryOp(op, x, y) \in Leaves
<1>1. BinaryOp(op, x, y) \in BinariesOf(Operands)
  BY DEF BinariesOf, BinaryOp
<1> QED
  BY <1>1 DEF Leaves

\* A wrapped integer is in range.
LEMMA WrapIn == \A x \in Int : Wrap(x) \in Values
<1>1. IntBound \in Nat \ {0}
  BY IntBoundAssumption
<1> SUFFICES ASSUME NEW x \in Int PROVE Wrap(x) \in Values
  OBVIOUS
<1> DEFINE m == (x + IntBound) % (2 * IntBound)
<1>2. m \in 0 .. 2 * IntBound - 1
  BY <1>1
<1>3. Wrap(x) = m - IntBound
  BY DEF Wrap
<1> HIDE DEF m
<1> QED
  BY <1>1, <1>2, <1>3 DEF Values

\* Numbers are computed with in the integers.
LEMMA ComputeIn ==
    ASSUME NEW op \in Arithmetic, NEW x \in Int, NEW y \in Int
    PROVE  Compute(op, x, y) \in Int
<1>1. y # 0 => Quotient(x, y) \in Int
  <2> DEFINE ax == IF x < 0 THEN -x ELSE x
             ay == IF y < 0 THEN -y ELSE y
  <2>1. ax \in Nat /\ (y # 0 => ay \in Nat /\ ay > 0)
    OBVIOUS
  <2>2. Quotient(x, y) = IF (x < 0) = (y < 0) THEN ax \div ay ELSE -(ax \div ay)
    BY DEF Quotient
  <2> HIDE DEF ax, ay
  <2> QED
    BY <2>1, <2>2
<1>2. CASE op = "Add"
  BY <1>2 DEF Compute
<1>3. CASE op = "Sub"
  BY <1>3 DEF Compute
<1>4. CASE op = "Mul"
  BY <1>4 DEF Compute
<1>5. CASE op = "Div"
  BY <1>1, <1>5 DEF Compute
<1> QED
  BY <1>2, <1>3, <1>4, <1>5 DEF Arithmetic

\* A literal is a scalar with a value of its type.
LEMMA ScalarForm ==
    \A sv \in ScalarValue :
        /\ sv.type = "i64" => sv.v \in Values /\ sv.v \in Int /\ sv = I64(sv.v)
        /\ sv.type = "f64" => sv.v \in Float
        /\ sv.type \in {"i64", "f64", "bool", "null"}
BY DEF ScalarValue, Values, Bool, Null, I64

\* Folding an operator on two literals gives a leaf.
LEMMA FoldForm ==
    ASSUME NEW op \in Comparisons \cup Arithmetic, NEW x \in ScalarValue, NEW y \in ScalarValue
    PROVE  FoldBinary(op, x, y) \in Leaves
<1>1. Operands \subseteq Leaves
  BY DEF Leaves
<1> DEFINE both(type) == x.type = type /\ y.type = type
           defined == op = "Div" => Truthy(y)
<1>2. CASE both("i64") /\ op \in Arithmetic /\ op \notin Comparisons /\ defined
  <2>1. x.v \in Int /\ y.v \in Int
    BY <1>2, ScalarForm
  <2>2. Literal(I64(Wrap(Compute(op, x.v, y.v)))) \in Operands
    BY <1>2, <2>1, ComputeIn, WrapIn, OperandIn
  <2>3. FoldBinary(op, x, y) = Literal(I64(Wrap(Compute(op, x.v, y.v))))
    BY <1>2 DEF FoldBinary
  <2> QED
    BY <1>1, <2>2, <2>3, Zenon
<1>3. CASE both("f64") /\ op \in Arithmetic /\ op \notin Comparisons /\ defined
  <2>1. x.v \in Float /\ y.v \in Float
    BY <1>3, ScalarForm
  <2>2. Literal(F64(FloatCompute(op, x.v, y.v))) \in Operands
    BY <1>3, <2>1, FloatAssumption, OperandIn
  <2>3. FoldBinary(op, x, y) = Literal(F64(FloatCompute(op, x.v, y.v)))
    BY <1>3 DEF FoldBinary
  <2> QED
    BY <1>1, <2>2, <2>3, Zenon
<1>6. BinaryOp(op, Literal(x), Literal(y)) \in Leaves
  BY BinaryLeaf, OperandIn
<1>7. \A b : Literal(Bool(b)) \in Operands
  BY OperandIn
<1>8. CASE both("i64") /\ op \in Comparisons
  <2>1. FoldBinary(op, x, y) = Literal(Bool(Compare(op, x.v, y.v)))
    BY <1>8 DEF FoldBinary, Comparisons, Arithmetic
  <2> QED
    BY <1>1, <1>7, <2>1, Zenon
<1>9. CASE both("f64") /\ op \in Comparisons
  <2>1. FoldBinary(op, x, y) = Literal(Bool(FloatCompare(op, x.v, y.v)))
    BY <1>9 DEF FoldBinary, Comparisons, Arithmetic
  <2> QED
    BY <1>1, <1>7, <2>1, Zenon
<1>10. CASE both("bool") /\ op \in {"Eq", "NotEq"}
  <2>1. FoldBinary(op, x, y) = Literal(Bool(Compare(op, x.v, y.v)))
    BY <1>10 DEF FoldBinary
  <2> QED
    BY <1>1, <1>7, <2>1, Zenon
<1>11. CASE /\ ~((both("i64") \/ both("f64")) /\ (op \in Comparisons \/ defined))
            /\ ~(both("bool") /\ op \in {"Eq", "NotEq"})
  <2>1. FoldBinary(op, x, y) = BinaryOp(op, Literal(x), Literal(y))
    BY <1>11 DEF FoldBinary
  <2> QED
    BY <1>6, <2>1
<1> QED
  BY <1>2, <1>3, <1>8, <1>9, <1>10, <1>11

(***************************************************************************)
(* What simplify makes of an In list: its values once each.                *)
(***************************************************************************)
LEMMA InForm ==
    ASSUME NEW idx \in Nat \ {0}, NEW vs \in Seq(Values)
    PROVE  /\ SimplifyIn(idx, vs) \in Leaves
           /\ \/ ToSet(vs) = {} /\ SimplifyIn(idx, vs) = Literal(Bool(FALSE))
              \/ \E v \in Values :
                    /\ ToSet(vs) = {v}
                    /\ SimplifyIn(idx, vs) = BinaryOp("Eq", Column(idx), Literal(I64(v)))
              \/ \E ws \in Seq(Values) :
                    /\ ToSet(ws) = ToSet(vs) /\ ws # <<>>
                    /\ SimplifyIn(idx, vs) = In(idx, ws)
<1> DEFINE ws == SetToSeq(ToSet(vs))
<1>1. IsFiniteSet(ToSet(vs)) /\ ToSet(vs) \subseteq Values
  BY FiniteValues
<1>2. ws \in Seq(ToSet(vs)) /\ ToSet(ws) = ToSet(vs)
  BY <1>1, Listed
<1>3. SimplifyIn(idx, vs) =
        CASE ws = <<>> -> Literal(Bool(FALSE))
          [] Len(ws) = 1 -> BinaryOp("Eq", Column(idx), Literal(I64(ws[1])))
          [] OTHER -> In(idx, ws)
  BY DEF SimplifyIn
<1> HIDE DEF ws
<1>4. ws \in Seq(Values)
  BY <1>1, <1>2, SeqGrows
<1>5. CASE ws = <<>>
  <2>1. SimplifyIn(idx, vs) = Literal(Bool(FALSE))
    BY <1>3, <1>5
  <2>2. ToSet(vs) = {}
    BY <1>2, <1>5 DEF ToSet
  <2>3. Literal(Bool(FALSE)) \in Leaves
    BY OperandIn DEF Leaves
  <2> QED
    BY <2>1, <2>2, <2>3
<1>6. CASE ws # <<>> /\ Len(ws) = 1
  <2>1. SimplifyIn(idx, vs) = BinaryOp("Eq", Column(idx), Literal(I64(ws[1])))
    BY <1>3, <1>6
  <2>2. DOMAIN ws = {1} /\ ws[1] \in Values
    BY <1>4, <1>6
  <2>3. ToSet(vs) = {ws[1]}
    BY <1>2, <2>2 DEF ToSet
  <2>4. BinaryOp("Eq", Column(idx), Literal(I64(ws[1]))) \in Leaves
    BY <2>2, OperandIn, BinaryLeaf DEF Comparisons
  <2> QED
    BY <2>1, <2>2, <2>3, <2>4
<1>7. CASE ws # <<>> /\ Len(ws) # 1
  <2>1. SimplifyIn(idx, vs) = In(idx, ws)
    BY <1>3, <1>7
  <2>2. In(idx, ws) \in Leaves
    BY <1>4 DEF In, Leaves
  <2> QED
    BY <1>2, <1>4, <1>7, <2>1, <2>2
<1> QED
  BY <1>5, <1>6, <1>7

\* Sequences of sequences over T, as the two passes over a junction build them.
LEMMA Gathered ==
    ASSUME NEW T, NEW s, NEW n \in Nat, s = [i \in 1 .. n |-> s[i]],
           \A i \in 1 .. n : s[i] \in Seq(T)
    PROVE  /\ FlattenSeq(s) \in Seq(T)
           /\ \A x : x \in ToSet(FlattenSeq(s)) <=> \E i \in 1 .. n : x \in ToSet(s[i])
<1>1. s \in Seq(Seq(T)) /\ DOMAIN s = 1 .. n
  OBVIOUS
<1>2. /\ FlattenSeq(s) \in Seq(T)
      /\ ToSet(FlattenSeq(s)) = UNION {ToSet(s[i]) : i \in DOMAIN s}
  BY <1>1, Flat
<1> QED
  BY <1>1, <1>2

\* What flattening the parts of a junction gives.
LEMMA FlattenedForm ==
    ASSUME NEW T, NEW k, NEW parts \in Seq(T),
           \A p \in T : p.kind = k => p.children \in Seq(T)
    PROVE  /\ Flattened(k, parts) \in Seq(T)
           /\ \A x : x \in ToSet(Flattened(k, parts)) <=>
                  \E p \in ToSet(parts) :
                     IF p.kind = k THEN x \in ToSet(p.children) ELSE x = p
<1> DEFINE s == [i \in DOMAIN parts |->
                   IF parts[i].kind = k THEN parts[i].children ELSE <<parts[i]>>]
           n == Len(parts)
<1>1. n \in Nat /\ DOMAIN parts = 1 .. n /\ \A i \in 1 .. n : parts[i] \in T
  OBVIOUS
<1>2. ASSUME NEW i \in 1 .. n
      PROVE  /\ s[i] \in Seq(T)
             /\ \A x : x \in ToSet(s[i]) <=>
                   IF parts[i].kind = k THEN x \in ToSet(parts[i].children) ELSE x = parts[i]
  <2>1. CASE parts[i].kind = k
    BY <1>1, <2>1
  <2>2. CASE parts[i].kind # k
    <3>1. s[i] = <<parts[i]>>
      BY <1>1, <2>2
    <3>2. ToSet(<<parts[i]>>) = {parts[i]}
      BY DEF ToSet
    <3> QED
      BY <1>1, <2>2, <3>1, <3>2
  <2> QED
    BY <2>1, <2>2
<1>3. s = [i \in 1 .. n |-> s[i]]
  BY <1>1
<1>4. Flattened(k, parts) = FlattenSeq(s)
  BY DEF Flattened
<1>5. \A x : x \in ToSet(parts) <=> \E i \in 1 .. n : x = parts[i]
  BY <1>1 DEF ToSet
<1> HIDE DEF s, n
<1>6. /\ FlattenSeq(s) \in Seq(T)
      /\ \A x : x \in ToSet(FlattenSeq(s)) <=> \E i \in 1 .. n : x \in ToSet(s[i])
  BY <1>1, <1>2, <1>3, Gathered
<1>7. ASSUME NEW x
      PROVE  x \in ToSet(FlattenSeq(s)) <=>
                 \E p \in ToSet(parts) :
                    IF p.kind = k THEN x \in ToSet(p.children) ELSE x = p
  <2> DEFINE Has(p) == IF p.kind = k THEN x \in ToSet(p.children) ELSE x = p
  <2>1. \A i \in 1 .. n : x \in ToSet(s[i]) <=> Has(parts[i])
    BY <1>2
  <2>2. x \in ToSet(FlattenSeq(s)) <=> \E i \in 1 .. n : x \in ToSet(s[i])
    BY <1>6
  <2> HIDE DEF Has
  <2>3. x \in ToSet(FlattenSeq(s)) <=> \E p \in ToSet(parts) : Has(p)
    BY <1>5, <2>1, <2>2
  <2> QED
    BY <2>3 DEF Has
<1> QED
  BY <1>4, <1>6, <1>7

\* What simplify leaves of the parts of a junction.
IsJunction(j, k, parts, T) ==
    LET neutral == k = "and"
    IN  \/ /\ \E p \in ToSet(parts) : IsBool(p, ~neutral)
           /\ j = Literal(Bool(~neutral))
        \/ /\ \A p \in ToSet(parts) : IsBool(p, neutral)
           /\ j = Literal(Bool(neutral))
        \/ /\ j \in ToSet(parts)
           /\ \A p \in ToSet(parts) : IsBool(p, neutral) \/ p = j
        \/ \E kept \in Seq(T) :
              /\ kept # <<>>
              /\ ToSet(kept) = {p \in ToSet(parts) : ~IsBool(p, neutral)}
              /\ \A p \in ToSet(parts) : ~IsBool(p, ~neutral)
              /\ j = [kind |-> k, children |-> kept]

\* It is TRUE, FALSE, one of the parts or a junction of those that are not neutral.
LEMMA JunctionForm ==
    ASSUME NEW T, NEW k, NEW parts \in Seq(T)
    PROVE  IsJunction(Junction(k, parts), k, parts, T)
<1> DEFINE neutral == k = "and"
           s == [i \in DOMAIN parts |-> IF IsBool(parts[i], neutral) THEN <<>> ELSE <<parts[i]>>]
           n == Len(parts)
           kept == FlattenSeq(s)
<1>1. n \in Nat /\ DOMAIN parts = 1 .. n /\ \A i \in 1 .. n : parts[i] \in T
  OBVIOUS
<1>2. ASSUME NEW i \in 1 .. n
      PROVE  /\ s[i] \in Seq(T)
             /\ \A x : x \in ToSet(s[i]) <=> x = parts[i] /\ ~IsBool(parts[i], neutral)
  <2>1. CASE IsBool(parts[i], neutral)
    <3>1. s[i] = <<>>
      BY <1>1, <2>1
    <3> QED
      BY <2>1, <3>1 DEF ToSet
  <2>2. CASE ~IsBool(parts[i], neutral)
    <3>1. s[i] = <<parts[i]>>
      BY <1>1, <2>2
    <3>2. ToSet(<<parts[i]>>) = {parts[i]}
      BY DEF ToSet
    <3> QED
      BY <1>1, <2>2, <3>1, <3>2
  <2> QED
    BY <2>1, <2>2
<1>3. s = [i \in 1 .. n |-> s[i]]
  BY <1>1
<1>4. Junction(k, parts) =
        IF \E i \in DOMAIN parts : IsBool(parts[i], ~neutral) THEN Literal(Bool(~neutral))
        ELSE CASE kept = <<>> -> Literal(Bool(neutral))
               [] Len(kept) = 1 -> kept[1]
               [] OTHER -> [kind |-> k, children |-> kept]
  BY DEF Junction
<1>5. \A x : x \in ToSet(parts) <=> \E i \in 1 .. n : x = parts[i]
  BY <1>1 DEF ToSet
<1> HIDE DEF s, n, neutral
<1>6. /\ kept \in Seq(T)
      /\ \A x : x \in ToSet(kept) <=> \E i \in 1 .. n : x \in ToSet(s[i])
  BY <1>1, <1>2, <1>3, Gathered
<1> HIDE DEF kept
<1>7. \A x : x \in ToSet(kept) <=> x \in ToSet(parts) /\ ~IsBool(x, neutral)
  <2>1. \A x : x \in ToSet(kept) <=> \E i \in 1 .. n : x = parts[i] /\ ~IsBool(parts[i], neutral)
    BY <1>2, <1>6, Zenon
  <2> QED
    BY <1>5, <2>1, Zenon
<1> DEFINE j == Junction(k, parts)
<1>8. CASE \E i \in DOMAIN parts : IsBool(parts[i], ~neutral)
  <2>1. \E p \in ToSet(parts) : IsBool(p, ~neutral)
    BY <1>8 DEF ToSet
  <2>2. j = Literal(Bool(~neutral))
    BY <1>4, <1>8, Zenon
  <2> QED
    BY <2>1, <2>2 DEF IsJunction, neutral
<1>9. CASE ~(\E i \in DOMAIN parts : IsBool(parts[i], ~neutral)) /\ kept = <<>>
  <2>1. j = Literal(Bool(neutral))
    BY <1>4, <1>9
  <2>2. ToSet(kept) = {}
    BY <1>9 DEF ToSet
  <2>3. \A p \in ToSet(parts) : IsBool(p, neutral)
    BY <1>7, <2>2
  <2> QED
    BY <2>1, <2>3 DEF IsJunction, neutral
<1>10. CASE /\ ~(\E i \in DOMAIN parts : IsBool(parts[i], ~neutral))
            /\ kept # <<>> /\ Len(kept) = 1
  <2>1. j = kept[1]
    BY <1>4, <1>10
  <2>2. DOMAIN kept = {1}
    BY <1>6, <1>10
  <2>3. ToSet(kept) = {j}
    BY <2>1, <2>2 DEF ToSet
  <2>4. j \in ToSet(parts) /\ \A p \in ToSet(parts) : IsBool(p, neutral) \/ p = j
    BY <1>7, <2>3
  <2> HIDE DEF j
  <2> QED
    BY <2>4 DEF IsJunction, neutral, j
<1>11. CASE /\ ~(\E i \in DOMAIN parts : IsBool(parts[i], ~neutral))
            /\ kept # <<>> /\ Len(kept) # 1
  <2>1. j = [kind |-> k, children |-> kept]
    BY <1>4, <1>11
  <2>2. ToSet(kept) = {p \in ToSet(parts) : ~IsBool(p, neutral)}
    BY <1>7
  <2>3. \A p \in ToSet(parts) : ~IsBool(p, ~neutral)
    BY <1>11 DEF ToSet
  <2> QED
    BY <1>6, <1>11, <2>1, <2>2, <2>3 DEF IsJunction, neutral
<1> QED
  BY <1>8, <1>9, <1>10, <1>11

\* Trees one level up may be put under a Not, a junction or an operator.
LEMMA NodeIn ==
    ASSUME NEW n \in Nat
    PROVE  /\ \A x \in Trees[n] : Not(x) \in Trees[n + 1]
           /\ \A s \in Seq(Trees[n]) : And(s) \in Trees[n + 1] /\ Or(s) \in Trees[n + 1]
           /\ \A op \in Comparisons \cup Arithmetic : \A x, y \in Trees[n] :
                 BinaryOp(op, x, y) \in Trees[n + 1]
<1>1. \A x \in Trees[n] : BuiltFrom(Not(x), Trees[n])
  BY DEF BuiltFrom, Not
<1>2. \A s \in Seq(Trees[n]) : BuiltFrom(And(s), Trees[n]) /\ BuiltFrom(Or(s), Trees[n])
  BY DEF BuiltFrom, And, Or
<1>3. \A op \in Comparisons \cup Arithmetic : \A x, y \in Trees[n] :
        BuiltFrom(BinaryOp(op, x, y), Trees[n])
  BY DEF BuiltFrom, BinaryOp
<1> QED
  BY <1>1, <1>2, <1>3, TreeBuilt

\* Pushing a Not into a tree makes it at most one level higher.
LEMMA PushNotIn ==
    ASSUME NEW n \in Nat, NEW x \in Trees[n]
    PROVE  PushNot(x) \in Trees[n + 1]
<1>1. CASE x.kind = "not"
  <2>1. n > 0 /\ x.inner \in Trees[n - 1]
    BY <1>1, TreeShape
  <2>2. Trees[n - 1] \subseteq Trees[n + 1]
    BY <2>1, TreesGrow
  <2> QED
    BY <1>1, <2>1, <2>2 DEF PushNot
<1>2. CASE x.kind \in {"and", "or"}
  <2>1. n > 0 /\ n - 1 \in Nat /\ x.children \in Seq(Trees[n - 1])
    BY <1>2, TreeShape
  <2>2. \A i \in DOMAIN x.children : Not(x.children[i]) \in Trees[n]
    <3>1. \A y \in Trees[n - 1] : Not(y) \in Trees[(n - 1) + 1]
      BY <2>1, NodeIn
    <3> QED
      BY <2>1, <3>1
  <2>3. Negated(x.children) \in Seq(Trees[n])
    BY <2>1, <2>2 DEF Negated
  <2>4. PushNot(x) = And(Negated(x.children)) \/ PushNot(x) = Or(Negated(x.children))
    BY <1>2 DEF PushNot
  <2> QED
    BY <2>3, <2>4, NodeIn
<1>3. CASE x.kind \notin {"not", "and", "or"}
  BY <1>3, NodeIn DEF PushNot
<1> QED
  BY <1>1, <1>2, <1>3

\* Flattening junctions does not make their parts higher.
LEMMA FlattenedIn ==
    ASSUME NEW n \in Nat, NEW k \in {"and", "or"}, NEW parts \in Seq(Trees[n])
    PROVE  /\ Flattened(k, parts) \in Seq(Trees[n])
           /\ \A x : x \in ToSet(Flattened(k, parts)) <=>
                  \E p \in ToSet(parts) :
                     IF p.kind = k THEN x \in ToSet(p.children) ELSE x = p
<1>1. ASSUME NEW p \in Trees[n], p.kind = k PROVE p.children \in Seq(Trees[n])
  <2>1. n > 0 /\ n - 1 \in Nat /\ p.children \in Seq(Trees[n - 1])
    BY <1>1, TreeShape
  <2>2. Trees[n - 1] \subseteq Trees[n]
    BY <2>1, TreesGrow
  <2> QED
    BY <2>1, <2>2, SeqGrows
<1> QED
  BY <1>1, FlattenedForm

\* A junction is at most one level higher than its parts.
LEMMA JunctionIn ==
    ASSUME NEW n \in Nat, NEW k \in {"and", "or"}, NEW parts \in Seq(Trees[n])
    PROVE  Junction(k, parts) \in Trees[n + 1]
<1> DEFINE T == Trees[n]
           j == Junction(k, parts)
<1>1. IsJunction(j, k, parts, T)
  BY JunctionForm
<1>2. \A b : Literal(Bool(b)) \in Trees[n + 1]
  BY OperandIn, LeafIn
<1>3. \A p \in ToSet(parts) : p \in Trees[n + 1]
  BY TreesGrow DEF ToSet
<1>4. ASSUME NEW kept \in Seq(T) PROVE [kind |-> k, children |-> kept] \in Trees[n + 1]
  <2>1. And(kept) \in Trees[n + 1] /\ Or(kept) \in Trees[n + 1]
    BY NodeIn
  <2>2. k = "and" \/ k = "or"
    OBVIOUS
  <2> QED
    BY <2>1, <2>2 DEF And, Or
<1> HIDE DEF j, T
<1>5. \/ \E b : j = Literal(Bool(b))
      \/ j \in ToSet(parts)
      \/ \E kept \in Seq(T) : j = [kind |-> k, children |-> kept]
  BY <1>1, Zenon DEF IsJunction
<1> QED
  BY <1>2, <1>3, <1>4, <1>5 DEF j

-----------------------------------------------------------------------------
\* The simplified expression depends on the simplified parts only.
LEMMA SimplifyLocal ==
    ASSUME NEW e \in Expr, NEW f, NEW g, \A c \in Parts(e) : f[c] = g[c]
    PROVE  SimplifyStep(f, e) = SimplifyStep(g, e)
<1>1. e.kind \in Kinds
  BY PartForm
<1>2. CASE e.kind \in {"column", "literal", "in"}
  BY <1>2 DEF SimplifyStep
<1>3. CASE e.kind = "binary"
  <2>1. f[e.left] = g[e.left] /\ f[e.right] = g[e.right]
    BY <1>3, PartForm
  <2> QED
    BY <1>3, <2>1, Zenon DEF SimplifyStep
<1>4. CASE e.kind = "not"
  BY <1>4, PartForm DEF SimplifyStep
<1>5. CASE e.kind \in {"and", "or"}
  <2>1. \A i \in DOMAIN e.children : f[e.children[i]] = g[e.children[i]]
    BY <1>5, PartForm
  <2>2. [i \in DOMAIN e.children |-> f[e.children[i]]] = [i \in DOMAIN e.children |-> g[e.children[i]]]
    BY <2>1
  <2>3. ASSUME NEW h
        PROVE  SimplifyStep(h, e) =
                 Junction(e.kind, Flattened(e.kind, [i \in DOMAIN e.children |-> h[e.children[i]]]))
    BY <1>5 DEF SimplifyStep
  <2> QED
    BY <2>2, <2>3
<1> QED
  BY <1>1, <1>2, <1>3, <1>4, <1>5 DEF Kinds

\* Simplification makes a leaf of a leaf ...
LEMMA SimplifyLeaf ==
    ASSUME NEW e \in Leaves, NEW f, \A x \in Operands : f[x] = x
    PROVE  SimplifyStep(f, e) \in Leaves
<1>1. CASE e.kind \in {"column", "literal"}
  BY <1>1 DEF SimplifyStep
<1>2. CASE e.kind = "in"
  <2>1. e.idx \in Nat \ {0} /\ e.values \in Seq(Values)
    BY <1>2, LeafForm DEF IsOperand, IsInList
  <2>2. SimplifyStep(f, e) = SimplifyIn(e.idx, e.values)
    BY <1>2 DEF SimplifyStep
  <2> QED
    BY <2>1, <2>2, InForm
<1>3. CASE e.kind = "binary"
  <2>1. e.op \in Comparisons \cup Arithmetic /\ e.left \in Operands /\ e.right \in Operands
    BY <1>3, LeafForm DEF IsOperand, IsInList
  <2>2. f[e.left] = e.left /\ f[e.right] = e.right
    BY <2>1
  <2>3. SimplifyStep(f, e) = IF e.left.kind = "literal" /\ e.right.kind = "literal"
                             THEN FoldBinary(e.op, e.left.sv, e.right.sv)
                             ELSE BinaryOp(e.op, e.left, e.right)
    BY <1>3, <2>2 DEF SimplifyStep
  <2>4. \A x \in Operands : x.kind = "literal" => x.sv \in ScalarValue
    BY OperandForm DEF IsOperand
  <2> QED
    BY <2>1, <2>3, <2>4, FoldForm, BinaryLeaf
<1> QED
  BY <1>1, <1>2, <1>3, LeafForm DEF IsOperand, IsInList

\* ... and does not make the tree higher.
LEMMA SimplifyBuilt ==
    ASSUME NEW n \in Nat, NEW e, BuiltFrom(e, Trees[n]), NEW f,
           \A c \in Parts(e) : f[c] \in Trees[n]
    PROVE  SimplifyStep(f, e) \in Trees[n + 1]
<1>1. CASE IsOperand(e)
  <2>1. SimplifyStep(f, e) = e
    BY <1>1 DEF IsOperand, SimplifyStep
  <2> QED
    BY <2>1, TreeBuilt
<1>2. CASE IsInList(e)
  <2>1. SimplifyStep(f, e) = SimplifyIn(e.idx, e.values)
    BY <1>2 DEF IsInList, SimplifyStep
  <2>2. SimplifyIn(e.idx, e.values) \in Leaves
    BY <1>2, InForm DEF IsInList
  <2> QED
    BY <2>1, <2>2, LeafIn
<1>3. CASE /\ e.kind = "binary" /\ e.op \in Comparisons \cup Arithmetic
           /\ e.left \in Trees[n] /\ e.right \in Trees[n]
  <2> DEFINE x == f[e.left]
             y == f[e.right]
  <2>1. x \in Trees[n] /\ y \in Trees[n]
    BY <1>3 DEF Parts
  <2>2. SimplifyStep(f, e) = IF x.kind = "literal" /\ y.kind = "literal"
                             THEN FoldBinary(e.op, x.sv, y.sv)
                             ELSE BinaryOp(e.op, x, y)
    BY <1>3 DEF SimplifyStep
  <2> HIDE DEF x, y
  <2>3. CASE x.kind = "literal" /\ y.kind = "literal"
    <3>1. x.sv \in ScalarValue /\ y.sv \in ScalarValue
      BY <2>1, <2>3, TreeShape
    <3>2. FoldBinary(e.op, x.sv, y.sv) \in Leaves
      BY <1>3, <3>1, FoldForm
    <3> QED
      BY <2>2, <2>3, <3>2, LeafIn
  <2>4. CASE ~(x.kind = "literal" /\ y.kind = "literal")
    BY <1>3, <2>1, <2>2, <2>4, NodeIn
  <2> QED
    BY <2>3, <2>4
<1>4. CASE e.kind = "not" /\ e.inner \in Trees[n]
  <2>1. f[e.inner] \in Trees[n]
    BY <1>4 DEF Parts
  <2>2. SimplifyStep(f, e) = PushNot(f[e.inner])
    BY <1>4 DEF SimplifyStep
  <2> QED
    BY <2>1, <2>2, PushNotIn
<1>5. CASE e.kind \in {"and", "or"} /\ e.children \in Seq(Trees[n])
  <2> DEFINE parts == [i \in DOMAIN e.children |-> f[e.children[i]]]
  <2>1. SimplifyStep(f, e) = Junction(e.kind, Flattened(e.kind, parts))
    BY <1>5 DEF SimplifyStep
  <2>2. \A i \in DOMAIN e.children : f[e.children[i]] \in Trees[n]
    BY <1>5 DEF Parts
  <2>3. parts \in Seq(Trees[n])
    BY <1>5, <2>2
  <2> HIDE DEF parts
  <2>4. Flattened(e.kind, parts) \in Seq(Trees[n])
    BY <1>5, <2>3, FlattenedIn
  <2> QED
    BY <1>5, <2>1, <2>4, JunctionIn
<1> QED
  BY <1>1, <1>2, <1>3, <1>4, <1>5 DEF BuiltFrom

\* f simplifies every expression as the step says.
IsSimplifying(f) == f = [e \in Expr |-> SimplifyStep(f, e)]

(***************************************************************************)
(* Simplification is well defined, and makes an expression of one.         *)
(***************************************************************************)
LEMMA SimplifyUnfolds ==
    \A e \in Expr : Simplify[e] = SimplifyStep(Simplify, e) /\ Simplify[e] \in Expr
<1> DEFINE V == Expr
           A == [p \in Expr \X [Expr -> V] |->
                   IF SimplifyStep(p[2], p[1]) \in V THEN SimplifyStep(p[2], p[1]) ELSE p[1]]
<1>1. A \in [Expr \X [Expr -> V] -> V]
  OBVIOUS
<1>2. IsLocal(A, V)
  <2>1. ASSUME NEW e \in Expr, NEW f \in [Expr -> V], NEW g \in [Expr -> V],
               \A c \in Parts(e) : f[c] = g[c]
        PROVE  A[<<e, f>>] = A[<<e, g>>]
    <3>1. SimplifyStep(f, e) = SimplifyStep(g, e)
      BY <2>1, SimplifyLocal
    <3> QED
      BY <3>1
  <2> HIDE DEF A, V
  <2> QED
    BY <2>1 DEF IsLocal
<1>3. PICK f \in [Expr -> V] : \A e \in Expr : f[e] = A[<<e, f>>]
  <2>1. \E v : v \in V
    BY OperandIn, LeafIn, ExpressionsAssumption DEF Expr
  <2> HIDE DEF A, V
  <2> QED
    BY <1>1, <1>2, <2>1, Recursion
<1>4. \A e \in Expr : SimplifyStep(f, e) \in Expr => f[e] = SimplifyStep(f, e)
  BY <1>3
<1>5. MaxHeight \in Nat
  BY ExpressionsAssumption
<1>6. Operands \subseteq Expr /\ Leaves \subseteq Expr /\ Operands \subseteq Leaves
  BY <1>5, LeafIn DEF Expr
<1>7. \A x \in Operands : f[x] = x
  <2>1. \A x \in Operands : SimplifyStep(f, x) = x
    BY OperandForm DEF IsOperand, SimplifyStep
  <2> QED
    BY <1>4, <1>6, <2>1
<1> DEFINE N == {n \in Nat : n <= MaxHeight =>
                    \A e \in Trees[n] : SimplifyStep(f, e) \in Trees[n] /\ f[e] \in Trees[n]}
<1>8. \A e \in Leaves : SimplifyStep(f, e) \in Leaves /\ f[e] \in Leaves
  BY <1>4, <1>6, <1>7, SimplifyLeaf
<1>9. 0 \in N
  BY <1>8, TreesUnfold
<1>10. ASSUME NEW n \in Nat, n \in N PROVE n + 1 \in N
  <2> SUFFICES ASSUME n + 1 <= MaxHeight, NEW e \in Trees[n + 1]
               PROVE  SimplifyStep(f, e) \in Trees[n + 1] /\ f[e] \in Trees[n + 1]
    OBVIOUS
  <2>1. n + 1 \in Nat /\ n + 1 > 0 /\ (n + 1) - 1 = n /\ n <= MaxHeight
    BY <1>5
  <2>2. Trees[n + 1] \subseteq Expr
    BY <1>5, <2>1, TreesGrow DEF Expr
  <2>3. SimplifyStep(f, e) \in Trees[n + 1]
    <3>1. CASE e \in Leaves
      BY <1>8, <3>1, LeafIn
    <3>2. CASE e \notin Leaves
      <4>1. BuiltFrom(e, Trees[n])
        BY <2>1, <3>2, TreeForm
      <4>2. \A c \in Parts(e) : f[c] \in Trees[n]
        BY <1>10, <2>1, <4>1, PartsIn
      <4> QED
        BY <4>1, <4>2, SimplifyBuilt
    <3> QED
      BY <3>1, <3>2
  <2> QED
    BY <1>4, <2>2, <2>3
<1>11. N = Nat
  <2> HIDE DEF N
  <2>1. N \in SUBSET Nat
    BY DEF N
  <2> QED
    BY <1>9, <1>10, <2>1, NatInd
<1>12. \A e \in Expr : f[e] \in Expr /\ f[e] = SimplifyStep(f, e)
  <2>1. MaxHeight \in N
    <3> HIDE DEF N
    <3> QED
      BY <1>5, <1>11
  <2> QED
    BY <1>4, <2>1 DEF Expr
<1>13. IsSimplifying(f)
  BY <1>12 DEF IsSimplifying
<1>14. Simplify = CHOOSE x : IsSimplifying(x)
  BY Zenon DEF Simplify, IsSimplifying
<1>15. IsSimplifying(Simplify)
  BY <1>13, <1>14, Zenon
<1>16. \A e \in Expr : Simplify[e] = SimplifyStep(Simplify, e)
  BY <1>15 DEF IsSimplifying
<1>17. Expr \subseteq {e \in Expr : Simplify[e] = f[e]}
  <2> DEFINE S == {e \in Expr : Simplify[e] = f[e]}
  <2>1. ASSUME NEW e \in Expr, Parts(e) \subseteq S PROVE e \in S
    <3>1. SimplifyStep(Simplify, e) = SimplifyStep(f, e)
      BY <2>1, SimplifyLocal
    <3> QED
      BY <1>12, <1>16, <3>1
  <2> HIDE DEF S
  <2>2. Expr \subseteq S
    BY <2>1, TreeInduction
  <2> QED
    BY <2>2 DEF S
<1> QED
  BY <1>12, <1>16, <1>17

\* What an expression is made of.
LEMMA ExprShape ==
    ASSUME NEW e \in Expr
    PROVE  /\ e.kind \in Kinds
           /\ e.kind = "literal" => e = Literal(e.sv) /\ e.sv \in ScalarValue
           /\ e.kind = "column" => e = Column(e.idx) /\ e.idx \in Nat \ {0}
           /\ e.kind = "in" =>
                 e = In(e.idx, e.values) /\ e.idx \in Nat \ {0} /\ e.values \in Seq(Values)
           /\ e.kind = "not" => e = Not(e.inner) /\ e.inner \in Expr
           /\ e.kind = "binary" =>
                 /\ e = BinaryOp(e.op, e.left, e.right)
                 /\ e.op \in Comparisons \cup Arithmetic
                 /\ e.left \in Expr /\ e.right \in Expr
           /\ e.kind \in {"and", "or"} =>
                 /\ e.children \in Seq(Expr)
                 /\ e = [kind |-> e.kind, children |-> e.children]
<1>1. BuiltFrom(e, Expr)
  BY ExprForm
<1> QED
  BY <1>1 DEF BuiltFrom, IsOperand, IsInList, Kinds, And, Or

\* Literals are expressions.
LEMMA LiteralExpr ==
    \A sv \in ScalarValue : Literal(sv) \in Expr
BY OperandIn, LeafIn, ExpressionsAssumption DEF Expr

\* Where all, or where any, of the expressions in S hold.
AllOrAny(k, S, b, row) ==
    IF k = "and" THEN \A c \in S : row \in EvaluateImpl(c, b)
                 ELSE \E c \in S : row \in EvaluateImpl(c, b)

\* A literal leaves all selected rows, or none.
LEMMA LiteralEvaluates ==
    ASSUME NEW e \in Expr, e.kind = "literal", NEW b
    PROVE  EvaluateImpl(e, b) = IF Truthy(e.sv) THEN b.selection ELSE {}
BY EvaluationUnfolds DEF EvaluateStep

\* TRUE leaves all selected rows, FALSE none.
LEMMA BoolEvaluates ==
    ASSUME NEW b
    PROVE  /\ EvaluateImpl(Literal(Bool(TRUE)), b) = b.selection
           /\ EvaluateImpl(Literal(Bool(FALSE)), b) = {}
           /\ \A e \in Expr, v \in BOOLEAN : IsBool(e, v) => e = Literal(Bool(v))
<1>1. Literal(Bool(TRUE)) \in Expr /\ Literal(Bool(FALSE)) \in Expr
  BY OperandIn, LiteralExpr
<1>2. \A v : Literal(Bool(v)).kind = "literal" /\ Literal(Bool(v)).sv = Bool(v)
  BY DEF Literal
<1>3. Truthy(Bool(TRUE)) /\ ~Truthy(Bool(FALSE))
  BY DEF Truthy, Bool
<1>4. \A e \in Expr, v \in BOOLEAN : IsBool(e, v) => e = Literal(Bool(v))
  BY ExprShape DEF IsBool
<1> QED
  BY <1>1, <1>2, <1>3, <1>4, LiteralEvaluates

\* Not leaves the selected rows its part does not.
LEMMA NotEvaluates ==
    ASSUME NEW e \in Expr, e.kind = "not", NEW b
    PROVE  EvaluateImpl(e, b) = b.selection \ EvaluateImpl(e.inner, b)
BY EvaluationUnfolds DEF EvaluateStep, NotWithin, EvaluateImpl

\* A junction leaves the selected rows that all, or any, of its parts leave.
LEMMA AllOrAnyEvaluates ==
    ASSUME NEW e \in Expr, e.kind \in {"and", "or"}, NEW b
    PROVE  EvaluateImpl(e, b) =
             {row \in b.selection : AllOrAny(e.kind, ToSet(e.children), b, row)}
<1> DEFINE Ev(x) == EvaluateImpl(x, b)
<1>1. e.children \in Seq(Expr) /\ \A i \in DOMAIN e.children : e.children[i] \in Expr
  <2>1. e.children \in Seq(Expr)
    BY ExprShape
  <2> QED
    BY <2>1
<1>2. Ev(e) = EvaluateStep(Evaluation(b), e, b)
  BY EvaluationUnfolds
<1>3. \A i \in DOMAIN e.children : Ev(e.children[i]) \subseteq b.selection
  BY <1>1, EvaluationUnfolds
<1>4. \A i : Evaluation(b)[e.children[i]] = Ev(e.children[i])
  BY DEF EvaluateImpl
<1>5. CASE e.kind = "and"
  <2>1. Ev(e) = IF e.children = <<>> THEN b.selection
                ELSE {row \in Ev(e.children[1]) :
                        \A i \in DOMAIN e.children : row \in Ev(e.children[i])}
    BY <1>2, <1>5 DEF EvaluateStep, EvaluateImpl
  <2>2. \A row : AllOrAny("and", ToSet(e.children), b, row) <=>
                   \A i \in DOMAIN e.children : row \in Ev(e.children[i])
    BY DEF AllOrAny, ToSet
  <2> HIDE DEF Ev
  <2>3. CASE e.children = <<>>
    <3>1. DOMAIN e.children = {}
      BY <2>3
    <3> QED
      BY <1>5, <2>1, <2>2, <2>3, <3>1 DEF Ev
  <2>4. CASE e.children # <<>>
    <3>1. 1 \in DOMAIN e.children
      BY <1>1, <2>4
    <3>2. Ev(e) = {row \in b.selection : \A i \in DOMAIN e.children : row \in Ev(e.children[i])}
      BY <1>3, <2>1, <2>4, <3>1
    <3> QED
      BY <1>5, <2>2, <3>2 DEF Ev
  <2> QED
    BY <2>3, <2>4
<1>6. CASE e.kind = "or"
  <2>1. Ev(e) = UNION {Ev(e.children[i]) : i \in DOMAIN e.children}
    BY <1>2, <1>6 DEF EvaluateStep, EvaluateImpl
  <2>2. \A row : AllOrAny("or", ToSet(e.children), b, row) <=>
                   \E i \in DOMAIN e.children : row \in Ev(e.children[i])
    BY DEF AllOrAny, ToSet
  <2> HIDE DEF Ev
  <2>3. Ev(e) = {row \in b.selection : \E i \in DOMAIN e.children : row \in Ev(e.children[i])}
    BY <1>3, <2>1
  <2> QED
    BY <1>6, <2>2, <2>3 DEF Ev
<1> QED
  BY <1>5, <1>6

-----------------------------------------------------------------------------
(***************************************************************************)
(* Double negation and De Morgan's laws on selections.                     *)
(***************************************************************************)
LEMMA PushNotEvaluates ==
    ASSUME NEW x \in Expr, PushNot(x) \in Expr, NEW b
    PROVE  EvaluateImpl(PushNot(x), b) = b.selection \ EvaluateImpl(x, b)
<1> DEFINE Ev(y) == EvaluateImpl(y, b)
<1>1. CASE x.kind = "not"
  <2>1. PushNot(x) = x.inner
    BY <1>1 DEF PushNot
  <2>2. Ev(x) = b.selection \ Ev(x.inner)
    BY <1>1, NotEvaluates
  <2>3. Ev(x.inner) \subseteq b.selection
    BY <2>1, EvaluationUnfolds
  <2> QED
    BY <2>1, <2>2, <2>3
<1>2. CASE x.kind \in {"and", "or"}
  <2> DEFINE k == IF x.kind = "and" THEN "or" ELSE "and"
             neg == Negated(x.children)
             n == Len(x.children)
  <2>1. x.children \in Seq(Expr)
    BY <1>2, ExprShape
  <2>2. DOMAIN x.children = 1 .. n /\ n \in Nat /\ \A i \in 1 .. n : x.children[i] \in Expr
    BY <2>1
  <2>3. DOMAIN neg = 1 .. n /\ \A i \in 1 .. n : neg[i] = Not(x.children[i])
    BY <2>2 DEF Negated
  <2>4. PushNot(x).kind = k /\ PushNot(x).children = neg
    BY <1>2 DEF PushNot, And, Or
  <2>5. \A i \in 1 .. n : Not(x.children[i]) \in Expr
    <3>1. neg \in Seq(Expr)
      BY <2>4, ExprShape
    <3> QED
      BY <2>3, <3>1
  <2>6. \A i \in 1 .. n : Ev(Not(x.children[i])) = b.selection \ Ev(x.children[i])
    <3>1. \A y : Not(y).kind = "not" /\ Not(y).inner = y
      BY DEF Not
    <3> QED
      BY <2>5, <3>1, NotEvaluates
  <2>7. ToSet(neg) = {Not(x.children[i]) : i \in 1 .. n} /\ ToSet(x.children) = {x.children[i] : i \in 1 .. n}
    BY <2>2, <2>3 DEF ToSet
  <2>8. Ev(PushNot(x)) = {row \in b.selection : AllOrAny(k, ToSet(neg), b, row)}
    BY <2>4, AllOrAnyEvaluates
  <2>9. Ev(x) = {row \in b.selection : AllOrAny(x.kind, ToSet(x.children), b, row)}
    BY <1>2, AllOrAnyEvaluates
  <2>10. ASSUME NEW row \in b.selection
         PROVE  AllOrAny(k, ToSet(neg), b, row) <=> ~AllOrAny(x.kind, ToSet(x.children), b, row)
    <3> HIDE DEF neg, n
    <3>1. \A i \in 1 .. n : row \in Ev(Not(x.children[i])) <=> row \notin Ev(x.children[i])
      BY <2>6
    <3> HIDE DEF Ev
    <3>2. CASE x.kind = "and"
      <4>1. AllOrAny(k, ToSet(neg), b, row) <=> \E i \in 1 .. n : row \in Ev(Not(x.children[i]))
        BY <2>7, <3>2 DEF AllOrAny, Ev
      <4>2. AllOrAny(x.kind, ToSet(x.children), b, row) <=> \A i \in 1 .. n : row \in Ev(x.children[i])
        BY <2>7, <3>2 DEF AllOrAny, Ev
      <4> QED
        BY <3>1, <4>1, <4>2
    <3>3. CASE x.kind = "or"
      <4>1. AllOrAny(k, ToSet(neg), b, row) <=> \A i \in 1 .. n : row \in Ev(Not(x.children[i]))
        BY <2>7, <3>3 DEF AllOrAny, Ev
      <4>2. AllOrAny(x.kind, ToSet(x.children), b, row) <=> \E i \in 1 .. n : row \in Ev(x.children[i])
        BY <2>7, <3>3 DEF AllOrAny, Ev
      <4> QED
        BY <3>1, <4>1, <4>2
    <3> QED
      BY <1>2, <3>2, <3>3
  <2> HIDE DEF Ev, neg, k
  <2> QED
    BY <2>8, <2>9, <2>10 DEF Ev
<1>3. CASE x.kind \notin {"not", "and", "or"}
  <2>1. PushNot(x) = Not(x)
    BY <1>3 DEF PushNot
  <2>2. Not(x).kind = "not" /\ Not(x).inner = x
    BY DEF Not
  <2> QED
    BY <2>1, <2>2, NotEvaluates
<1> QED
  BY <1>1, <1>2, <1>3

\* The pieces a junction is flattened to hold where its parts do.
LEMMA FlattenedEvaluates ==
    ASSUME NEW k \in {"and", "or"}, NEW parts \in Seq(Expr), NEW b, NEW row \in b.selection
    PROVE  AllOrAny(k, ToSet(Flattened(k, parts)), b, row) <=> AllOrAny(k, ToSet(parts), b, row)
<1> DEFINE F == ToSet(Flattened(k, parts))
           S == ToSet(parts)
           On(x) == row \in EvaluateImpl(x, b)
<1>1. S \subseteq Expr
  BY FiniteValues
<1>2. \A p \in Expr : p.kind = k => p.children \in Seq(Expr)
  BY ExprShape
<1>3. \A x : x \in F <=> \E p \in S : IF p.kind = k THEN x \in ToSet(p.children) ELSE x = p
  BY <1>2, FlattenedForm
<1>4. \A x : x \in F <=> \/ x \in S /\ x.kind # k
                        \/ \E p \in S : p.kind = k /\ x \in ToSet(p.children)
  BY <1>3, Zenon
<1>5. \A p \in S : p.kind = k => (On(p) <=> AllOrAny(k, ToSet(p.children), b, row))
  BY <1>1, AllOrAnyEvaluates
<1> HIDE DEF F, S
<1>6. CASE k = "and"
  <2>1. \A p \in S : p.kind = k => (On(p) <=> \A x \in ToSet(p.children) : On(x))
    BY <1>5, <1>6 DEF AllOrAny
  <2> HIDE DEF On
  <2>2. (\A x \in F : On(x)) <=> \A p \in S : On(p)
    BY <1>4, <2>1, Zenon
  <2> QED
    BY <1>6, <2>2 DEF AllOrAny, On, F, S
<1>7. CASE k = "or"
  <2>1. \A p \in S : p.kind = k => (On(p) <=> \E x \in ToSet(p.children) : On(x))
    BY <1>5, <1>7 DEF AllOrAny
  <2> HIDE DEF On
  <2>2. (\E x \in F : On(x)) <=> \E p \in S : On(p)
    BY <1>4, <2>1, Zenon
  <2> QED
    BY <1>7, <2>2 DEF AllOrAny, On, F, S
<1> QED
  BY <1>6, <1>7

\* Leaving out neutral parts and stopping at absorbing ones changes no row.
LEMMA JunctionEvaluates ==
    ASSUME NEW k \in {"and", "or"}, NEW parts \in Seq(Expr), Junction(k, parts) \in Expr, NEW b
    PROVE  EvaluateImpl(Junction(k, parts), b) =
             {row \in b.selection : AllOrAny(k, ToSet(parts), b, row)}
<1> DEFINE j == Junction(k, parts)
           S == ToSet(parts)
           Ev(x) == EvaluateImpl(x, b)
           Left == {row \in b.selection : AllOrAny(k, S, b, row)}
<1> SUFFICES Ev(j) = Left
  OBVIOUS
<1>1. IsJunction(j, k, parts, Expr)
  BY JunctionForm
<1>2. S \subseteq Expr
  BY FiniteValues
<1>3. \A x \in Expr : Ev(x) \subseteq b.selection
  BY EvaluationUnfolds
<1>4. /\ Ev(Literal(Bool(TRUE))) = b.selection
      /\ Ev(Literal(Bool(FALSE))) = {}
  BY BoolEvaluates
<1>5. \A x \in S : /\ IsBool(x, TRUE) => Ev(x) = b.selection
                   /\ IsBool(x, FALSE) => Ev(x) = {}
  BY <1>2, <1>4, BoolEvaluates
<1>6. \A kept \in Seq(Expr) : j = [kind |-> k, children |-> kept] =>
         Ev(j) = {row \in b.selection : AllOrAny(k, ToSet(kept), b, row)}
  BY AllOrAnyEvaluates
<1>7. j \in Expr
  OBVIOUS
<1> HIDE DEF j, S
<1>8. CASE k = "and"
  <2>1. Left = {row \in b.selection : \A x \in S : row \in Ev(x)}
    BY <1>8 DEF AllOrAny
  <2> HIDE DEF Ev, Left
  <2>2. \/ (\E x \in S : IsBool(x, FALSE)) /\ j = Literal(Bool(FALSE))
        \/ (\A x \in S : IsBool(x, TRUE)) /\ j = Literal(Bool(TRUE))
        \/ j \in S /\ \A x \in S : IsBool(x, TRUE) \/ x = j
        \/ \E kept \in Seq(Expr) :
              /\ ToSet(kept) = {x \in S : ~IsBool(x, TRUE)}
              /\ j = [kind |-> k, children |-> kept]
    BY <1>1, <1>8 DEF IsJunction, S
  <2>3. CASE (\E x \in S : IsBool(x, FALSE)) /\ j = Literal(Bool(FALSE))
    BY <1>4, <1>5, <2>1, <2>3
  <2>4. CASE (\A x \in S : IsBool(x, TRUE)) /\ j = Literal(Bool(TRUE))
    BY <1>4, <1>5, <2>1, <2>4
  <2>5. CASE j \in S /\ \A x \in S : IsBool(x, TRUE) \/ x = j
    BY <1>2, <1>3, <1>5, <2>1, <2>5
  <2>6. CASE \E kept \in Seq(Expr) :
                /\ ToSet(kept) = {x \in S : ~IsBool(x, TRUE)}
                /\ j = [kind |-> k, children |-> kept]
    <3>1. PICK kept \in Seq(Expr) : /\ ToSet(kept) = {x \in S : ~IsBool(x, TRUE)}
                                    /\ j = [kind |-> k, children |-> kept]
      BY <2>6
    <3>2. Ev(j) = {row \in b.selection : \A x \in ToSet(kept) : row \in Ev(x)}
      BY <1>6, <1>8, <3>1 DEF AllOrAny, Ev
    <3> QED
      BY <1>5, <2>1, <3>1, <3>2
  <2> QED
    BY <2>2, <2>3, <2>4, <2>5, <2>6
<1>9. CASE k = "or"
  <2>1. Left = {row \in b.selection : \E x \in S : row \in Ev(x)}
    BY <1>9 DEF AllOrAny
  <2> HIDE DEF Ev, Left
  <2>2. \/ (\E x \in S : IsBool(x, TRUE)) /\ j = Literal(Bool(TRUE))
        \/ (\A x \in S : IsBool(x, FALSE)) /\ j = Literal(Bool(FALSE))
        \/ j \in S /\ \A x \in S : IsBool(x, FALSE) \/ x = j
        \/ \E kept \in Seq(Expr) :
              /\ ToSet(kept) = {x \in S : ~IsBool(x, FALSE)}
              /\ j = [kind |-> k, children |-> kept]
    BY <1>1, <1>9 DEF IsJunction, S
  <2>3. CASE (\E x \in S : IsBool(x, TRUE)) /\ j = Literal(Bool(TRUE))
    BY <1>4, <1>5, <2>1, <2>3
  <2>4. CASE (\A x \in S : IsBool(x, FALSE)) /\ j = Literal(Bool(FALSE))
    BY <1>4, <1>5, <2>1, <2>4
  <2>5. CASE j \in S /\ \A x \in S : IsBool(x, FALSE) \/ x = j
    BY <1>2, <1>3, <1>5, <2>1, <2>5
  <2>6. CASE \E kept \in Seq(Expr) :
                /\ ToSet(kept) = {x \in S : ~IsBool(x, FALSE)}
                /\ j = [kind |-> k, children |-> kept]
    <3>1. PICK kept \in Seq(Expr) : /\ ToSet(kept) = {x \in S : ~IsBool(x, FALSE)}
                                    /\ j = [kind |-> k, children |-> kept]
      BY <2>6
    <3>2. Ev(j) = {row \in b.selection : \E x \in ToSet(kept) : row \in Ev(x)}
      BY <1>6, <1>9, <3>1 DEF AllOrAny, Ev
    <3> QED
      BY <1>5, <2>1, <3>1, <3>2
  <2> QED
    BY <2>2, <2>3, <2>4, <2>5, <2>6
<1> QED
  BY <1>8, <1>9

(***************************************************************************)
(* What simplify makes of a junction leaves the rows that all, or any, of  *)
(* the simplified parts leave.                                             *)
(***************************************************************************)
LEMMA SimplifiedJunction ==
    ASSUME NEW e \in Expr, e.kind \in {"and", "or"}, NEW b
    PROVE  EvaluateImpl(Simplify[e], b) =
             {row \in b.selection :
                AllOrAny(e.kind, {Simplify[c] : c \in ToSet(e.children)}, b, row)}
<1> DEFINE parts == [i \in DOMAIN e.children |-> Simplify[e.children[i]]]
           flat == Flattened(e.kind, parts)
<1>1. Simplify[e] = Junction(e.kind, flat) /\ Simplify[e] \in Expr
  BY SimplifyUnfolds DEF SimplifyStep
<1>2. e.children \in Seq(Expr)
  BY ExprShape
<1>3. parts \in Seq(Expr)
  BY <1>2, SimplifyUnfolds
<1>4. ToSet(parts) = {Simplify[c] : c \in ToSet(e.children)}
  BY DEF ToSet
<1> HIDE DEF parts
<1>5. \A p \in Expr : p.kind = e.kind => p.children \in Seq(Expr)
  BY ExprShape
<1>6. flat \in Seq(Expr)
  BY <1>3, <1>5, FlattenedForm
<1>7. \A row \in b.selection :
        AllOrAny(e.kind, ToSet(flat), b, row) <=> AllOrAny(e.kind, ToSet(parts), b, row)
  BY <1>3, FlattenedEvaluates
<1> HIDE DEF flat
<1>8. EvaluateImpl(Simplify[e], b) =
        {row \in b.selection : AllOrAny(e.kind, ToSet(flat), b, row)}
  BY <1>1, <1>6, JunctionEvaluates
<1> QED
  BY <1>4, <1>7, <1>8

-----------------------------------------------------------------------------
\* A junction panics if a part does, a Not if its part does.
LEMMA NodePanics ==
    ASSUME NEW e \in Expr, NEW b
    PROVE  /\ e.kind = "literal" => ~EvaluatePanics(e, b)
           /\ e.kind = "not" => (EvaluatePanics(e, b) <=> EvaluatePanics(e.inner, b))
           /\ e.kind \in {"and", "or"} =>
                 (EvaluatePanics(e, b) <=> \E c \in ToSet(e.children) : EvaluatePanics(c, b))
<1>1. EvaluatePanics(e, b) = PanicsStep(Panics(b), e, b)
  BY PanicsUnfolds
<1>2. CASE e.kind = "literal"
  BY <1>1, <1>2 DEF PanicsStep
<1>3. CASE e.kind = "not"
  BY <1>1, <1>3 DEF PanicsStep, EvaluatePanics
<1>4. CASE e.kind \in {"and", "or"}
  <2>1. EvaluatePanics(e, b) = \E i \in DOMAIN e.children : EvaluatePanics(e.children[i], b)
    BY <1>1, <1>4 DEF PanicsStep, EvaluatePanics
  <2> QED
    BY <1>4, <2>1 DEF ToSet
<1> QED
  BY <1>2, <1>3, <1>4

\* Pushing a Not into an expression brings no panic.
LEMMA PushNotPanics ==
    ASSUME NEW x \in Expr, PushNot(x) \in Expr, NEW b
    PROVE  EvaluatePanics(PushNot(x), b) <=> EvaluatePanics(x, b)
<1>1. CASE x.kind = "not"
  <2>1. PushNot(x) = x.inner
    BY <1>1 DEF PushNot
  <2> QED
    BY <1>1, <2>1, NodePanics
<1>2. CASE x.kind \in {"and", "or"}
  <2> DEFINE neg == Negated(x.children)
             n == Len(x.children)
  <2>1. x.children \in Seq(Expr)
    BY <1>2, ExprShape
  <2>2. DOMAIN x.children = 1 .. n
    BY <2>1
  <2>3. DOMAIN neg = 1 .. n /\ \A i \in 1 .. n : neg[i] = Not(x.children[i])
    BY <2>2 DEF Negated
  <2>4. PushNot(x).kind \in {"and", "or"} /\ PushNot(x).children = neg
    BY <1>2 DEF PushNot, And, Or
  <2>5. \A i \in 1 .. n : Not(x.children[i]) \in Expr
    <3>1. neg \in Seq(Expr)
      BY <2>4, ExprShape
    <3> QED
      BY <2>3, <3>1
  <2>6. \A i \in 1 .. n : EvaluatePanics(Not(x.children[i]), b) <=> EvaluatePanics(x.children[i], b)
    <3>1. \A y : Not(y).kind = "not" /\ Not(y).inner = y
      BY DEF Not
    <3> QED
      BY <2>5, <3>1, NodePanics
  <2>7. ToSet(neg) = {Not(x.children[i]) : i \in 1 .. n} /\ ToSet(x.children) = {x.children[i] : i \in 1 .. n}
    BY <2>2, <2>3 DEF ToSet
  <2>8. EvaluatePanics(PushNot(x), b) <=> \E c \in ToSet(neg) : EvaluatePanics(c, b)
    BY <2>4, NodePanics
  <2>9. EvaluatePanics(x, b) <=> \E c \in ToSet(x.children) : EvaluatePanics(c, b)
    BY <1>2, NodePanics
  <2> HIDE DEF n, neg
  <2> QED
    BY <2>6, <2>7, <2>8, <2>9
<1>3. CASE x.kind \notin {"not", "and", "or"}
  <2>1. PushNot(x) = Not(x)
    BY <1>3 DEF PushNot
  <2>2. Not(x).kind = "not" /\ Not(x).inner = x
    BY DEF Not
  <2> QED
    BY <2>1, <2>2, NodePanics
<1> QED
  BY <1>1, <1>2, <1>3

(***************************************************************************)
(* A simplified junction panics only if a simplified part does, and if one *)
(* does unless the junction is absorbed.                                   *)
(***************************************************************************)
LEMMA JunctionPanics ==
    ASSUME NEW e \in Expr, e.kind \in {"and", "or"}, NEW b
    PROVE  LET S == {Simplify[c] : c \in ToSet(e.children)}
               absorbing == Literal(Bool(e.kind = "or"))
           IN  /\ EvaluatePanics(Simplify[e], b) => \E p \in S : EvaluatePanics(p, b)
               /\ \/ EvaluatePanics(Simplify[e], b)
                  \/ \A p \in S : ~EvaluatePanics(p, b)
                  \/ /\ Simplify[e] = absorbing
                     /\ \/ absorbing \in S
                        \/ \E p \in S : p.kind = e.kind /\ absorbing \in ToSet(p.children)
<1> DEFINE parts == [i \in DOMAIN e.children |-> Simplify[e.children[i]]]
           flat == Flattened(e.kind, parts)
           S == {Simplify[c] : c \in ToSet(e.children)}
           F == ToSet(flat)
           j == Simplify[e]
           Pan(x) == EvaluatePanics(x, b)
           neutral == e.kind = "and"
           absorbing == Literal(Bool(e.kind = "or"))
<1>1. j = Junction(e.kind, flat) /\ j \in Expr
  BY SimplifyUnfolds DEF SimplifyStep
<1>2. e.children \in Seq(Expr)
  BY ExprShape
<1>3. parts \in Seq(Expr)
  BY <1>2, SimplifyUnfolds
<1>4. ToSet(parts) = S
  BY DEF ToSet
<1> HIDE DEF parts, S
<1>5. \A p \in Expr : p.kind = e.kind => p.children \in Seq(Expr)
  BY ExprShape
<1>6. /\ flat \in Seq(Expr)
      /\ \A x : x \in F <=> \E p \in S : IF p.kind = e.kind THEN x \in ToSet(p.children) ELSE x = p
  BY <1>3, <1>4, <1>5, FlattenedForm
<1>7. S \subseteq Expr
  BY <1>3, <1>4, FiniteValues
<1> HIDE DEF flat
<1>8. F \subseteq Expr
  BY <1>6, FiniteValues
<1>9. \A x : x \in F <=> \/ x \in S /\ x.kind # e.kind
                        \/ \E p \in S : p.kind = e.kind /\ x \in ToSet(p.children)
  BY <1>6, Zenon
<1>10. \A p \in S : p.kind = e.kind => (Pan(p) <=> \E x \in ToSet(p.children) : Pan(x))
  BY <1>7, NodePanics
<1> HIDE DEF F
<1>11. (\E x \in F : Pan(x)) <=> \E p \in S : Pan(p)
  <2> HIDE DEF Pan
  <2> QED
    BY <1>9, <1>10, Zenon
<1>12. IsJunction(j, e.kind, flat, Expr)
  BY <1>1, <1>6, JunctionForm
<1>13. \A x \in Expr, v \in BOOLEAN : IsBool(x, v) => x = Literal(Bool(v)) /\ ~Pan(x)
  BY BoolEvaluates, NodePanics DEF IsBool
<1>14. \A v \in BOOLEAN : ~Pan(Literal(Bool(v)))
  BY OperandIn, LiteralExpr, NodePanics DEF Literal
<1> HIDE DEF j
<1>15. \/ (\E p \in F : IsBool(p, ~neutral)) /\ j = absorbing
       \/ j = Literal(Bool(neutral)) /\ \A p \in F : IsBool(p, neutral)
       \/ j \in F /\ \A p \in F : IsBool(p, neutral) \/ p = j
       \/ \E kept \in Seq(Expr) :
             /\ ToSet(kept) = {p \in F : ~IsBool(p, neutral)}
             /\ j = [kind |-> e.kind, children |-> kept]
  <2>1. CASE e.kind = "and"
    BY <1>12, <2>1 DEF IsJunction, F
  <2>2. CASE e.kind = "or"
    BY <1>12, <2>2 DEF IsJunction, F
  <2> QED
    BY <2>1, <2>2
<1>16. neutral \in BOOLEAN /\ (~neutral) \in BOOLEAN
  OBVIOUS
<1>17. CASE (\E p \in F : IsBool(p, ~neutral)) /\ j = absorbing
  <2>1. PICK p \in F : IsBool(p, ~neutral)
    BY <1>17
  <2>2. p = absorbing
    <3>1. CASE e.kind = "and"
      BY <1>8, <1>13, <2>1, <3>1
    <3>2. CASE e.kind = "or"
      BY <1>8, <1>13, <2>1, <3>2
    <3> QED
      BY <3>1, <3>2
  <2>3. ~Pan(j)
    BY <1>14, <1>17
  <2> HIDE DEF absorbing, Pan, neutral
  <2> QED
    BY <1>9, <1>17, <2>1, <2>2, <2>3 DEF j, S, Pan, absorbing
<1>18. CASE j = Literal(Bool(neutral)) /\ \A p \in F : IsBool(p, neutral)
  <2>1. ~Pan(j) /\ \A p \in F : ~Pan(p)
    BY <1>8, <1>13, <1>14, <1>16, <1>18
  <2> HIDE DEF Pan
  <2> QED
    BY <1>11, <2>1 DEF j, S, Pan
<1>19. CASE j \in F /\ \A p \in F : IsBool(p, neutral) \/ p = j
  <2>1. Pan(j) <=> \E p \in F : Pan(p)
    BY <1>8, <1>13, <1>16, <1>19
  <2> HIDE DEF Pan
  <2> QED
    BY <1>11, <2>1 DEF j, S, Pan
<1>20. CASE \E kept \in Seq(Expr) :
               /\ ToSet(kept) = {p \in F : ~IsBool(p, neutral)}
               /\ j = [kind |-> e.kind, children |-> kept]
  <2>1. PICK kept \in Seq(Expr) : /\ ToSet(kept) = {p \in F : ~IsBool(p, neutral)}
                                  /\ j = [kind |-> e.kind, children |-> kept]
    BY <1>20
  <2>2. Pan(j) <=> \E p \in ToSet(kept) : Pan(p)
    BY <1>1, <2>1, NodePanics
  <2>3. Pan(j) <=> \E p \in F : Pan(p)
    BY <1>8, <1>13, <1>16, <2>1, <2>2
  <2> HIDE DEF Pan
  <2> QED
    BY <1>11, <2>3 DEF j, S, Pan
<1> QED
  BY <1>15, <1>17, <1>18, <1>19, <1>20

\* The batches of the assumption.
IsBatch(b) == b \in [columns : Seq(Seq(Values)), selection : SUBSET (Nat \ {0}), numRows : Nat]

\* A set of naturals has a least member.
LEMMA LeastNat ==
    ASSUME NEW T \in SUBSET Nat, T # {}
    PROVE  \E t \in T : \A u \in T : t <= u
<1>1. PICK t \in T : \A u \in T : ~(<<u, t>> \in OpToRel(<, Nat))
  BY WFMin, NatLessThanWellFounded, Zenon
<1>2. ASSUME NEW u \in T PROVE t <= u
  <2> SUFFICES ASSUME u < t PROVE FALSE
    OBVIOUS
  <2>1. <<u, t>> \in OpToRel(<, Nat)
    BY DEF OpToRel
  <2> QED
    BY <1>1, <2>1, Zenon
<1> QED
  BY <1>2

\* A set of i64 has a least and a greatest member.
LEMMA LeastMost ==
    ASSUME NEW S \in SUBSET Values, S # {}
    PROVE  /\ Min(S) \in S /\ \A x \in S : Min(S) <= x
           /\ Max(S) \in S /\ \A x \in S : x <= Max(S)
<1>1. IntBound \in Nat \ {0} /\ S \subseteq Int
  BY IntBoundAssumption DEF Values
<1>2. \E x \in S : \A y \in S : x <= y
  <2> DEFINE T == {x + IntBound : x \in S}
  <2>1. T \subseteq Nat /\ T # {}
    BY <1>1 DEF Values
  <2> HIDE DEF T
  <2>2. PICK t \in T : \A u \in T : t <= u
    BY <2>1, LeastNat
  <2>3. PICK x \in S : t = x + IntBound
    BY DEF T
  <2>4. \A y \in S : y + IntBound \in T
    BY DEF T
  <2>5. ASSUME NEW y \in S PROVE x <= y
    <3>1. x + IntBound <= y + IntBound
      BY <2>2, <2>3, <2>4
    <3>2. x \in Int /\ y \in Int /\ IntBound \in Int
      BY <1>1
    <3> QED
      BY <3>1, <3>2
  <2> QED
    BY <2>5
<1>3. \E x \in S : \A y \in S : x >= y
  <2> DEFINE T == {(IntBound - 1) - x : x \in S}
  <2>1. T \subseteq Nat /\ T # {}
    <3>1. \A x \in S : x \in Int /\ x <= IntBound - 1 /\ (IntBound - 1) - x \in Nat
      BY <1>1 DEF Values
    <3> QED
      BY <3>1
  <2> HIDE DEF T
  <2>2. PICK t \in T : \A u \in T : t <= u
    BY <2>1, LeastNat
  <2>3. PICK x \in S : t = (IntBound - 1) - x
    BY DEF T
  <2>4. \A y \in S : (IntBound - 1) - y \in T
    BY DEF T
  <2>5. \A y \in S : x >= y
    BY <1>1, <2>2, <2>3, <2>4
  <2> QED
    BY <2>5
<1>4. Min(S) \in S /\ \A x \in S : Min(S) <= x
  BY <1>2 DEF Min
<1>5. Max(S) \in S /\ \A x \in S : Max(S) >= x
  BY <1>3 DEF Max
<1> QED
  BY <1>1, <1>4, <1>5

\* The rows that survive and are rows of the batch.
LEMMA RowsForm ==
    ASSUME NEW b, IsBatch(b)
    PROVE  /\ Rows(b) = b.selection \cap (1 .. b.numRows)
           /\ b.numRows \in Nat
           /\ \A idx \in DOMAIN b.columns : b.columns[idx] \in Seq(Values)
           /\ b.columns \in Seq(Seq(Values))
<1>1. b.columns \in Seq(Seq(Values)) /\ b.selection \subseteq Nat \ {0} /\ b.numRows \in Nat
  BY DEF IsBatch
<1> QED
  BY <1>1 DEF Rows

\* A column that can be read has a value in every row.
LEMMA Readable ==
    ASSUME NEW b, IsBatch(b), NEW idx \in DOMAIN b.columns, ~ReadPanics(idx, b),
           NEW row \in Rows(b)
    PROVE  b.columns[idx][row] \in Values /\ row \in DOMAIN b.columns[idx]
BY RowsForm DEF ReadPanics

(***************************************************************************)
(* Zone maps: the statistics bound the values that filters read.           *)
(***************************************************************************)
LEMMA StatsBound ==
    ASSUME NEW b, IsBatch(b), NEW idx \in DOMAIN b.columns, ~ReadPanics(idx, b),
           NEW row \in Rows(b)
    PROVE  /\ FromBatch(b).min[idx] \in Int /\ FromBatch(b).max[idx] \in Int
           /\ FromBatch(b).min[idx] <= b.columns[idx][row]
           /\ b.columns[idx][row] <= FromBatch(b).max[idx]
<1> DEFINE col == b.columns[idx]
           v == col[row]
           C == Counted(col, b)
<1>1. v \in Values /\ row \in DOMAIN col
  BY Readable
<1>2. /\ b.numRows \in Nat /\ row \in 1 .. b.numRows /\ col \in Seq(Values)
  BY RowsForm
<1>3. IntBound \in Nat \ {0}
  BY IntBoundAssumption
<1> DEFINE n == Min({Len(col), b.numRows})
<1>4. n \in {Len(col), b.numRows} /\ n <= Len(col) /\ n <= b.numRows
  <2>1. Len(col) \in Nat
    BY <1>2
  <2> DEFINE S == {Len(col), b.numRows}
  <2>2. \E x \in S : \A y \in S : x <= y
    BY <1>2, <2>1
  <2>3. Min(S) \in S /\ \A y \in S : Min(S) <= y
    <3> HIDE DEF S
    <3> QED
      BY <2>2 DEF Min
  <2> QED
    BY <2>3
<1>5. n \in Nat /\ 1 .. n \subseteq DOMAIN col /\ row \in 1 .. n
  <2> DEFINE len == Len(col)
  <2>1. len \in Nat /\ DOMAIN col = 1 .. len
    BY <1>2
  <2>2. n \in {len, b.numRows} /\ n <= len /\ row \in 1 .. len
    BY <1>1, <1>4, <2>1
  <2> HIDE DEF len, n
  <2>3. n \in Nat /\ row \in 1 .. n
    BY <1>2, <2>1, <2>2
  <2>4. 1 .. n \subseteq 1 .. len
    BY <2>1, <2>2, <2>3
  <2> QED
    BY <2>1, <2>3, <2>4
<1>6. C = {col[r] : r \in 1 .. n}
  BY DEF Counted
<1> HIDE DEF n, C
<1>7. C \subseteq Values /\ v \in C
  BY <1>2, <1>5, <1>6
<1>8. IntBound - 1 \in Values /\ -IntBound \in Values
  BY <1>3 DEF Values
<1>9. b.numRows # 0
  BY <1>2
<1>10. /\ FromBatch(b).min[idx] = Min(C \cup {IntBound - 1})
       /\ FromBatch(b).max[idx] = Max(C \cup {-IntBound})
  BY <1>9 DEF FromBatch, C
<1>11. /\ Min(C \cup {IntBound - 1}) \in Values /\ Min(C \cup {IntBound - 1}) <= v
  BY <1>7, <1>8, LeastMost
<1>12. /\ Max(C \cup {-IntBound}) \in Values /\ v <= Max(C \cup {-IntBound})
  BY <1>7, <1>8, LeastMost
<1> QED
  BY <1>3, <1>10, <1>11, <1>12 DEF Values

-----------------------------------------------------------------------------
\* A multiple of m strictly between -m and m is 0.
LEMMA NoMultiple ==
    ASSUME NEW m \in Nat \ {0}, NEW d \in Int, -m < m * d, m * d < m
    PROVE  d = 0
<1>1. CASE d >= 1
  <2>1. m * d >= m
    BY <1>1
  <2> QED
    BY <2>1
<1>2. CASE d <= -1
  <2>1. m * d <= -m
    BY <1>2
  <2> QED
    BY <2>1
<1> QED
  BY <1>1, <1>2

\* A difference of two i64 wraps to 0 only if it is 0.
LEMMA WrapZero ==
    ASSUME NEW x \in Values, NEW y \in Values
    PROVE  Wrap(x - y) = 0 <=> x = y
<1> DEFINE m == 2 * IntBound
           d == x - y
           q == (d + IntBound) \div m
           r == (d + IntBound) % m
<1>1. IntBound \in Nat \ {0} /\ m \in Nat \ {0} /\ d \in Int /\ -m < d /\ d < m
  BY IntBoundAssumption DEF Values
<1>2. q \in Int /\ r \in 0 .. m - 1 /\ d + IntBound = m * q + r
  <2>1. \A k \in Nat \ {0}, a \in Int :
          a \div k \in Int /\ a % k \in 0 .. k - 1 /\ a = k * (a \div k) + (a % k)
    OBVIOUS
  <2>2. d + IntBound \in Int
    BY <1>1
  <2> HIDE DEF m, d
  <2> QED
    BY <1>1, <2>1, <2>2 DEF q, r
<1>3. Wrap(x - y) = r - IntBound
  BY DEF Wrap
<1>4. ASSUME Wrap(x - y) = 0 PROVE x = y
  <2>1. r = IntBound
    <3> HIDE DEF m, d, q, r
    <3> QED
      BY <1>1, <1>2, <1>3, <1>4
  <2>2. d = m * q
    <3> HIDE DEF m, d, q, r
    <3>1. m * q \in Int
      BY <1>1, <1>2
    <3> QED
      BY <1>1, <1>2, <2>1, <3>1
  <2>3. q = 0
    <3> HIDE DEF m, d, q, r
    <3> QED
      BY <1>1, <1>2, <2>2, NoMultiple
  <2>4. d = 0
    BY <1>1, <2>2, <2>3
  <2> QED
    BY <2>4 DEF Values
<1>5. ASSUME x = y PROVE Wrap(x - y) = 0
  <2>1. x - y = 0
    BY <1>5 DEF Values
  <2>2. 0 \in Int /\ (0 + IntBound) % (2 * IntBound) = IntBound
    BY <1>1
  <2> QED
    BY <1>1, <2>1, <2>2 DEF Wrap
<1> QED
  BY <1>4, <1>5

(***************************************************************************)
(* Exchanging the operands of an operator other than / changes nothing for *)
(* the rows it leaves.                                                     *)
(***************************************************************************)
LEMMA FlippedHolds ==
    ASSUME NEW op \in (Comparisons \cup Arithmetic) \ {"Div"}, NEW x \in Values, NEW y \in Values
    PROVE  HoldsOn(FlippedOp(op), x, y) <=> HoldsOn(op, y, x)
<1>1. x \in Int /\ y \in Int
  BY IntBoundAssumption DEF Values
<1>2. CASE op \in Comparisons
  <2>1. FlippedOp(op) \in Comparisons
    BY <1>2 DEF Comparisons, FlippedOp
  <2>2. Compare(FlippedOp(op), x, y) <=> Compare(op, y, x)
    <3>1. CASE op = "Eq"
      BY <3>1 DEF FlippedOp, Compare
    <3>2. CASE op = "NotEq"
      BY <3>2 DEF FlippedOp, Compare
    <3>3. CASE op = "Lt"
      BY <1>1, <3>3 DEF FlippedOp, Compare
    <3>4. CASE op = "LtEq"
      BY <1>1, <3>4 DEF FlippedOp, Compare
    <3>5. CASE op = "Gt"
      BY <1>1, <3>5 DEF FlippedOp, Compare
    <3>6. CASE op = "GtEq"
      BY <1>1, <3>6 DEF FlippedOp, Compare
    <3> QED
      BY <1>2, <3>1, <3>2, <3>3, <3>4, <3>5, <3>6 DEF Comparisons
  <2> QED
    BY <1>2, <2>1, <2>2 DEF HoldsOn
<1>3. CASE op \in {"Add", "Sub", "Mul"}
  <2>1. FlippedOp(op) = op /\ op \notin Comparisons
    BY <1>3 DEF FlippedOp, Comparisons
  <2>2. Wrap(Compute(op, x, y)) = 0 <=> Wrap(Compute(op, y, x)) = 0
    <3>1. CASE op = "Add"
      <4>1. x + y = y + x
        BY <1>1
      <4> QED
        BY <3>1, <4>1 DEF Compute
    <3>2. CASE op = "Sub"
      <4>1. Compute(op, x, y) = x - y /\ Compute(op, y, x) = y - x
        BY <3>2 DEF Compute
      <4> QED
        BY <4>1, WrapZero
    <3>3. CASE op = "Mul"
      <4>1. x * y = y * x
        BY <1>1
      <4> QED
        BY <3>3, <4>1 DEF Compute
    <3> QED
      BY <1>3, <3>1, <3>2, <3>3
  <2> QED
    BY <2>1, <2>2 DEF HoldsOn
<1> QED
  BY <1>2, <1>3 DEF Arithmetic

\* A column on one side of an operator, a literal on the other.
ColLiteral(e) ==
    /\ e.kind = "binary"
    /\ \/ e.left.kind = "column" /\ e.right.kind = "literal"
       \/ e.left.kind = "literal" /\ e.right.kind = "column"

\* Columns, literals and operators on one of each are simple already.
LEMMA SimpleAlready ==
    ASSUME NEW e \in Expr, e.kind \in {"column", "literal"} \/ ColLiteral(e)
    PROVE  Simplify[e] = e
<1>1. Simplify[e] = SimplifyStep(Simplify, e)
  BY SimplifyUnfolds
<1>2. CASE e.kind \in {"column", "literal"}
  BY <1>1, <1>2 DEF SimplifyStep
<1>3. CASE ColLiteral(e)
  <2>1. e = BinaryOp(e.op, e.left, e.right) /\ e.left \in Expr /\ e.right \in Expr
    BY <1>3, ExprShape DEF ColLiteral
  <2>2. \A x \in Expr : x.kind \in {"column", "literal"} => Simplify[x] = x
    BY SimplifyUnfolds DEF SimplifyStep
  <2>3. Simplify[e.left] = e.left /\ Simplify[e.right] = e.right
    BY <1>3, <2>1, <2>2 DEF ColLiteral
  <2>4. ~(e.left.kind = "literal" /\ e.right.kind = "literal")
    BY <1>3 DEF ColLiteral
  <2> QED
    BY <1>1, <1>3, <2>1, <2>3, <2>4 DEF SimplifyStep, ColLiteral
<1> QED
  BY <1>2, <1>3

\* The column of such an operator.
ColOf(e) == IF e.left.kind = "column" THEN e.left.idx ELSE e.right.idx

\* The operator as if the column were on the left.
OpOf(e) == IF e.left.kind = "column" THEN e.op ELSE FlippedOp(e.op)

\* The literal.
LitOf(e) == IF e.left.kind = "column" THEN e.right.sv ELSE e.left.sv

\* The fast path: such an operator reads the rows of the column, if anything.
LEMMA ColLiteralEvaluates ==
    ASSUME NEW e \in Expr, ColLiteral(e), NEW b
    PROVE  /\ EvaluateImpl(e, b) = EvalColBinLiteral(ColOf(e), OpOf(e), LitOf(e), b)
           /\ ~EvaluatePanics(e, b) =>
                 ColOf(e) \in DOMAIN b.columns
                 /\ (LitOf(e).type = "i64" => ~ReadPanics(ColOf(e), b))
<1>1. EvaluateImpl(e, b) = EvaluateStep(Evaluation(b), e, b)
  BY EvaluationUnfolds
<1>2. EvaluatePanics(e, b) = PanicsStep(Panics(b), e, b)
  BY PanicsUnfolds
<1>3. CASE e.left.kind = "column" /\ e.right.kind = "literal"
  BY <1>1, <1>2, <1>3 DEF ColLiteral, EvaluateStep, PanicsStep, ColBinLiteralPanics, ColOf, OpOf, LitOf
<1>4. CASE e.left.kind = "literal" /\ e.right.kind = "column"
  BY <1>1, <1>2, <1>4 DEF ColLiteral, EvaluateStep, PanicsStep, ColBinLiteralPanics, ColOf, OpOf, LitOf
<1> QED
  BY <1>3, <1>4 DEF ColLiteral

\* An operator on two i64 literals folds to what it computes.
LEMMA FoldedLiterals ==
    ASSUME NEW e \in Expr, e.kind = "binary", IsI64(e.left), IsI64(e.right),
           ~(e.op = "Div" /\ e.right.sv.v = 0)
    PROVE  /\ Simplify[e].kind = "literal"
           /\ Truthy(Simplify[e].sv) <=> HoldsOn(e.op, e.left.sv.v, e.right.sv.v)
<1> DEFINE x == e.left.sv
           y == e.right.sv
<1>1. Simplify[e] = SimplifyStep(Simplify, e)
  BY SimplifyUnfolds
<1>2. e.op \in Comparisons \cup Arithmetic /\ e.left \in Expr /\ e.right \in Expr
  BY ExprShape
<1>3. Simplify[e.left] = e.left /\ Simplify[e.right] = e.right
  BY <1>2, SimpleAlready DEF IsI64
<1>4. Simplify[e] = FoldBinary(e.op, x, y)
  BY <1>1, <1>3 DEF SimplifyStep, IsI64
<1>5. x.type = "i64" /\ y.type = "i64"
  BY DEF IsI64
<1>6. \A sv : Literal(sv).kind = "literal" /\ Literal(sv).sv = sv
  BY DEF Literal
<1>7. CASE e.op \in Comparisons
  <2>1. Simplify[e] = Literal(Bool(Compare(e.op, x.v, y.v)))
    BY <1>4, <1>5, <1>7 DEF FoldBinary, Comparisons, Arithmetic
  <2>2. \A c : Truthy(Bool(c)) <=> c
    BY DEF Truthy, Bool
  <2>3. Simplify[e].kind = "literal" /\ Simplify[e].sv = Bool(Compare(e.op, x.v, y.v))
    BY <1>6, <2>1
  <2> QED
    BY <1>7, <2>2, <2>3 DEF HoldsOn
<1>8. CASE e.op \notin Comparisons
  <2>1. Simplify[e] = Literal(I64(Wrap(Compute(e.op, x.v, y.v))))
    BY <1>2, <1>4, <1>5, <1>8 DEF FoldBinary, Truthy
  <2>2. \A v : Truthy(I64(v)) <=> v # 0
    BY DEF Truthy, I64
  <2>3. Simplify[e].kind = "literal" /\ Simplify[e].sv = I64(Wrap(Compute(e.op, x.v, y.v)))
    BY <1>6, <2>1
  <2> QED
    BY <1>8, <2>2, <2>3 DEF HoldsOn
<1> QED
  BY <1>7, <1>8

\* What a filter's operators are.
LEMMA FilterBinary ==
    ASSUME NEW e \in Expr, e.kind = "binary", IsFilter[e]
    PROVE  \/ /\ ColLiteral(e) /\ LitOf(e).type = "i64"
              /\ e.left.kind = "literal" => e.op # "Div"
           \/ /\ IsI64(e.left) /\ IsI64(e.right)
              /\ ~(e.op = "Div" /\ e.right.sv.v = 0)
BY FilterUnfolds DEF FilterStep, ColLiteral, LitOf, IsI64

\* The parts of a filter are filters.
LEMMA FilterParts ==
    ASSUME NEW e \in Expr, IsFilter[e], e.kind \in {"not", "and", "or"}
    PROVE  /\ e.kind = "not" => IsFilter[e.inner]
           /\ e.kind \in {"and", "or"} => \A c \in ToSet(e.children) : IsFilter[c]
<1>1. FilterStep(IsFilter, e)
  BY FilterUnfolds, Zenon
<1>2. CASE e.kind = "not"
  BY <1>1, <1>2 DEF FilterStep
<1>3. CASE e.kind \in {"and", "or"}
  <2>1. \A i \in DOMAIN e.children : IsFilter[e.children[i]]
    BY <1>1, <1>3 DEF FilterStep
  <2> QED
    BY <1>3, <2>1 DEF ToSet
<1> QED
  BY <1>2, <1>3

\* When an In list panics.
LEMMA InPanics ==
    ASSUME NEW e \in Expr, e.kind = "in", NEW b
    PROVE  EvaluatePanics(e, b) <=>
             e.idx \notin DOMAIN b.columns \/ (e.values # <<>> /\ ReadPanics(e.idx, b))
BY PanicsUnfolds DEF PanicsStep

(***************************************************************************)
(* Simplification brings no panic to a filter.                             *)
(***************************************************************************)
LEMMA FilterPanics ==
    ASSUME NEW b
    PROVE  \A e \in Expr :
             IsFilter[e] /\ ~EvaluatePanics(e, b) => ~EvaluatePanics(Simplify[e], b)
<1> DEFINE S == {e \in Expr :
                   IsFilter[e] /\ ~EvaluatePanics(e, b) => ~EvaluatePanics(Simplify[e], b)}
<1>1. ASSUME NEW e \in Expr, Parts(e) \subseteq S PROVE e \in S
  <2> SUFFICES ASSUME IsFilter[e], ~EvaluatePanics(e, b)
               PROVE  ~EvaluatePanics(Simplify[e], b)
    OBVIOUS
  <2>1. e.kind \in Kinds /\ Parts(e) \subseteq Expr
    BY PartForm
  <2>2. Simplify[e] = SimplifyStep(Simplify, e) /\ Simplify[e] \in Expr
    BY SimplifyUnfolds
  <2>3. CASE e.kind \in {"column", "literal"}
    BY <2>3, SimpleAlready
  <2>4. CASE e.kind = "binary"
    <3>1. CASE ColLiteral(e)
      BY <3>1, SimpleAlready
    <3>2. CASE ~ColLiteral(e)
      <4>1. Simplify[e].kind = "literal"
        BY <2>4, <3>2, FilterBinary, FoldedLiterals
      <4> QED
        BY <2>2, <4>1, NodePanics
    <3> QED
      BY <3>1, <3>2
  <2>5. CASE e.kind = "not"
    <3>1. e.inner \in S /\ e.inner \in Expr
      BY <1>1, <2>1, <2>5 DEF Parts
    <3>2. ~EvaluatePanics(Simplify[e.inner], b)
      BY <2>5, <3>1, FilterParts, NodePanics
    <3>3. Simplify[e] = PushNot(Simplify[e.inner]) /\ Simplify[e.inner] \in Expr
      BY <2>2, <2>5, <3>1, SimplifyUnfolds DEF SimplifyStep
    <3> QED
      BY <2>2, <3>2, <3>3, PushNotPanics
  <2>6. CASE e.kind \in {"and", "or"}
    <3>1. \A c \in ToSet(e.children) : c \in S
      BY <1>1, <2>6 DEF Parts, ToSet
    <3>2. \A c \in ToSet(e.children) : IsFilter[c] /\ ~EvaluatePanics(c, b)
      BY <2>6, FilterParts, NodePanics
    <3>3. \A c \in ToSet(e.children) : ~EvaluatePanics(Simplify[c], b)
      BY <3>1, <3>2
    <3> QED
      BY <2>6, <3>3, JunctionPanics
  <2>7. CASE e.kind = "in"
    <3>1. e.idx \in Nat \ {0} /\ e.values \in Seq(Values)
      BY <2>7, ExprShape
    <3>2. Simplify[e] = SimplifyIn(e.idx, e.values)
      BY <2>2, <2>7 DEF SimplifyStep
    <3>3. e.idx \in DOMAIN b.columns /\ (e.values = <<>> \/ ~ReadPanics(e.idx, b))
      BY <2>7, InPanics
    <3>4. ToSet(e.values) # {} => e.values # <<>>
      BY DEF ToSet
    <3>5. CASE Simplify[e] = Literal(Bool(FALSE))
      BY <2>2, <3>5, NodePanics DEF Literal
    <3>6. CASE \E v \in Values :
                  /\ ToSet(e.values) = {v}
                  /\ Simplify[e] = BinaryOp("Eq", Column(e.idx), Literal(I64(v)))
      <4>1. PICK v \in Values : /\ ToSet(e.values) = {v}
                                /\ Simplify[e] = BinaryOp("Eq", Column(e.idx), Literal(I64(v)))
        BY <3>6
      <4>2. ~ReadPanics(e.idx, b)
        BY <3>3, <3>4, <4>1
      <4>3. EvaluatePanics(Simplify[e], b) = PanicsStep(Panics(b), Simplify[e], b)
        BY <2>2, PanicsUnfolds
      <4>4. PanicsStep(Panics(b), Simplify[e], b) = ColBinLiteralPanics(e.idx, "Eq", I64(v), b)
        BY <4>1 DEF PanicsStep, BinaryOp, Column, Literal
      <4>5. ~ColBinLiteralPanics(e.idx, "Eq", I64(v), b)
        BY <3>3, <4>2 DEF ColBinLiteralPanics, DivOverflows
      <4> QED
        BY <4>3, <4>4, <4>5
    <3>7. CASE \E ws \in Seq(Values) :
                  /\ ToSet(ws) = ToSet(e.values) /\ ws # <<>>
                  /\ Simplify[e] = In(e.idx, ws)
      <4>1. PICK ws \in Seq(Values) : /\ ToSet(ws) = ToSet(e.values) /\ ws # <<>>
                                      /\ Simplify[e] = In(e.idx, ws)
        BY <3>7
      <4>2. ToSet(ws) # {}
        BY <4>1 DEF ToSet
      <4>3. ~ReadPanics(e.idx, b)
        BY <3>3, <3>4, <4>1, <4>2
      <4>4. Simplify[e].kind = "in" /\ Simplify[e].idx = e.idx
        BY <4>1 DEF In
      <4> QED
        BY <2>2, <3>3, <4>3, <4>4, InPanics
    <3> QED
      BY <3>1, <3>2, <3>5, <3>6, <3>7, InForm
  <2> QED
    BY <2>1, <2>3, <2>4, <2>5, <2>6, <2>7 DEF Kinds
<1> HIDE DEF S
<1>2. Expr \subseteq S
  BY <1>1, TreeInduction
<1> QED
  BY <1>2 DEF S

\* What the reference says of a column, a literal and an operator on them.
LEMMA OperandRow ==
    ASSUME NEW b, NEW row
    PROVE  /\ \A e \in Expr : e.kind = "column" => EvalValue(e, b, row) = b.columns[e.idx][row]
           /\ \A e \in Expr : IsI64(e) => EvalValue(e, b, row) = e.sv.v
           /\ \A e \in Expr : e.kind = "binary" =>
                 (EvalRow(e, b, row) <=>
                    HoldsOn(e.op, EvalValue(e.left, b, row), EvalValue(e.right, b, row)))
<1>1. \A e \in Expr : e.kind = "column" => EvalValue(e, b, row) = b.columns[e.idx][row]
  BY ValueUnfolds DEF ValueStep
<1>2. \A e \in Expr : IsI64(e) => EvalValue(e, b, row) = e.sv.v
  BY ValueUnfolds DEF ValueStep, IsI64
<1>3. ASSUME NEW e \in Expr, e.kind = "binary"
      PROVE  EvalRow(e, b, row) = HoldsOn(e.op, EvalValue(e.left, b, row), EvalValue(e.right, b, row))
  <2>1. EvalRow(e, b, row) = RowStep(Holding(b, row), e, b, row)
    BY EvalRowUnfolds, RowUnfolds
  <2> QED
    BY <1>3, <2>1 DEF RowStep
<1> QED
  BY <1>1, <1>2, <1>3

\* A filter's operators hold on the rows the reference says.
LEMMA BinaryRow ==
    ASSUME NEW b, IsBatch(b), NEW e \in Expr, e.kind = "binary", IsFilter[e],
           ~EvaluatePanics(e, b), NEW row \in Rows(b)
    PROVE  row \in EvaluateImpl(Simplify[e], b) <=> EvalRow(e, b, row)
<1>1. /\ e.left \in Expr /\ e.right \in Expr /\ e.op \in Comparisons \cup Arithmetic
      /\ e.left.kind = "literal" => e.left.sv \in ScalarValue
  BY ExprShape
<1>2. EvalRow(e, b, row) <=>
        HoldsOn(e.op, EvalValue(e.left, b, row), EvalValue(e.right, b, row))
  BY OperandRow
<1>3. CASE ColLiteral(e) /\ LitOf(e).type = "i64" /\ (e.left.kind = "literal" => e.op # "Div")
  <2>1. Simplify[e] = e
    BY <1>3, SimpleAlready
  <2>2. /\ EvaluateImpl(e, b) = EvalColBinLiteral(ColOf(e), OpOf(e), LitOf(e), b)
        /\ ColOf(e) \in DOMAIN b.columns /\ ~ReadPanics(ColOf(e), b)
    BY <1>3, ColLiteralEvaluates
  <2>3. row \in EvaluateImpl(e, b) <=> HoldsOn(OpOf(e), b.columns[ColOf(e)][row], LitOf(e).v)
    BY <1>3, <2>2 DEF EvalColBinLiteral
  <2>4. CASE e.left.kind = "column"
    <3>1. /\ EvalValue(e.left, b, row) = b.columns[ColOf(e)][row]
          /\ EvalValue(e.right, b, row) = LitOf(e).v
          /\ OpOf(e) = e.op
      BY <1>1, <1>3, <2>4, OperandRow DEF ColOf, LitOf, OpOf, ColLiteral, IsI64
    <3> QED
      BY <1>2, <2>1, <2>3, <3>1
  <2>5. CASE e.left.kind = "literal"
    <3>1. /\ EvalValue(e.right, b, row) = b.columns[ColOf(e)][row]
          /\ EvalValue(e.left, b, row) = LitOf(e).v
          /\ OpOf(e) = FlippedOp(e.op) /\ LitOf(e) = e.left.sv
      <4>1. e.right.kind = "column" /\ ColOf(e) = e.right.idx /\ OpOf(e) = FlippedOp(e.op)
        BY <1>3, <2>5 DEF ColLiteral, ColOf, OpOf
      <4>2. LitOf(e) = e.left.sv /\ IsI64(e.left)
        BY <1>3, <2>5 DEF LitOf, IsI64
      <4>3. EvalValue(e.left, b, row) = e.left.sv.v
        BY <1>1, <4>2, OperandRow
      <4>4. EvalValue(e.right, b, row) = b.columns[e.right.idx][row]
        BY <1>1, <4>1, OperandRow
      <4> QED
        BY <4>1, <4>2, <4>3, <4>4
    <3>2. LitOf(e).v \in Values
      BY <1>1, <1>3, <2>5, <3>1, ScalarForm
    <3>3. b.columns[ColOf(e)][row] \in Values
      BY <2>2, Readable
    <3>4. e.op \in (Comparisons \cup Arithmetic) \ {"Div"}
      BY <1>1, <1>3, <2>5
    <3>5. HoldsOn(FlippedOp(e.op), b.columns[ColOf(e)][row], LitOf(e).v)
            <=> HoldsOn(e.op, LitOf(e).v, b.columns[ColOf(e)][row])
      BY <3>2, <3>3, <3>4, FlippedHolds
    <3> QED
      BY <1>2, <2>1, <2>3, <3>1, <3>5
  <2> QED
    BY <1>3, <2>4, <2>5 DEF ColLiteral
<1>4. CASE IsI64(e.left) /\ IsI64(e.right) /\ ~(e.op = "Div" /\ e.right.sv.v = 0)
  <2>1. /\ Simplify[e].kind = "literal" /\ Simplify[e] \in Expr
        /\ Truthy(Simplify[e].sv) <=> HoldsOn(e.op, e.left.sv.v, e.right.sv.v)
    BY <1>4, FoldedLiterals, SimplifyUnfolds
  <2>2. row \in EvaluateImpl(Simplify[e], b) <=> Truthy(Simplify[e].sv)
    BY <2>1, LiteralEvaluates DEF Rows
  <2>3. EvalValue(e.left, b, row) = e.left.sv.v /\ EvalValue(e.right, b, row) = e.right.sv.v
    BY <1>1, <1>4, OperandRow
  <2> QED
    BY <1>2, <2>1, <2>2, <2>3
<1> QED
  BY <1>3, <1>4, FilterBinary

\* An In list holds on the rows with a value that is in the list.
LEMMA InEvaluates ==
    ASSUME NEW e \in Expr, e.kind = "in", NEW b
    PROVE  EvaluateImpl(e, b) = {row \in Rows(b) : b.columns[e.idx][row] \in ToSet(e.values)}
<1>1. \A v : v \in ToSet(e.values) => BloomContains(e.values, v)
  BY DEF BloomContains
<1>2. \A v : IsIn(v, e.values) <=> v \in ToSet(e.values)
  BY <1>1 DEF IsIn
<1>3. EvaluateImpl(e, b) = {row \in Rows(b) : IsIn(b.columns[e.idx][row], e.values)}
  BY EvaluationUnfolds DEF EvaluateStep
<1> QED
  BY <1>2, <1>3

\* So does what simplify makes of it.
LEMMA SimplifiedIn ==
    ASSUME NEW e \in Expr, e.kind = "in", NEW b
    PROVE  EvaluateImpl(Simplify[e], b) =
             {row \in Rows(b) : b.columns[e.idx][row] \in ToSet(e.values)}
<1>1. e.idx \in Nat \ {0} /\ e.values \in Seq(Values)
  BY ExprShape
<1>2. Simplify[e] = SimplifyIn(e.idx, e.values) /\ Simplify[e] \in Expr
  BY SimplifyUnfolds DEF SimplifyStep
<1>3. CASE ToSet(e.values) = {} /\ Simplify[e] = Literal(Bool(FALSE))
  BY <1>3, BoolEvaluates
<1>4. CASE \E v \in Values :
              /\ ToSet(e.values) = {v}
              /\ Simplify[e] = BinaryOp("Eq", Column(e.idx), Literal(I64(v)))
  <2>1. PICK v \in Values : /\ ToSet(e.values) = {v}
                            /\ Simplify[e] = BinaryOp("Eq", Column(e.idx), Literal(I64(v)))
    BY <1>4
  <2> DEFINE s == Simplify[e]
  <2>2. ColLiteral(s) /\ ColOf(s) = e.idx /\ OpOf(s) = "Eq" /\ LitOf(s) = I64(v)
    BY <2>1 DEF ColLiteral, ColOf, OpOf, LitOf, BinaryOp, Column, Literal
  <2>3. EvaluateImpl(s, b) = EvalColBinLiteral(e.idx, "Eq", I64(v), b)
    BY <1>2, <2>2, ColLiteralEvaluates
  <2>4. \A x : HoldsOn("Eq", x, v) <=> x = v
    BY DEF HoldsOn, Compare, Comparisons
  <2>5. I64(v).type = "i64" /\ I64(v).v = v
    BY DEF I64
  <2>6. EvaluateImpl(s, b) = {row \in Rows(b) : b.columns[e.idx][row] = v}
    BY <2>3, <2>4, <2>5 DEF EvalColBinLiteral
  <2> QED
    BY <2>1, <2>6
<1>5. CASE \E ws \in Seq(Values) :
              /\ ToSet(ws) = ToSet(e.values) /\ ws # <<>>
              /\ Simplify[e] = In(e.idx, ws)
  <2>1. PICK ws \in Seq(Values) : /\ ToSet(ws) = ToSet(e.values)
                                  /\ Simplify[e] = In(e.idx, ws)
    BY <1>5
  <2>2. Simplify[e].kind = "in" /\ Simplify[e].idx = e.idx /\ Simplify[e].values = ws
    BY <2>1 DEF In
  <2>3. EvaluateImpl(Simplify[e], b)
          = {row \in Rows(b) : b.columns[Simplify[e].idx][row] \in ToSet(Simplify[e].values)}
    BY <1>2, <2>2, InEvaluates
  <2> QED
    BY <2>1, <2>2, <2>3
<1>6. \/ ToSet(e.values) = {} /\ Simplify[e] = Literal(Bool(FALSE))
      \/ \E v \in Values :
            /\ ToSet(e.values) = {v}
            /\ Simplify[e] = BinaryOp("Eq", Column(e.idx), Literal(I64(v)))
      \/ \E ws \in Seq(Values) :
            /\ ToSet(ws) = ToSet(e.values) /\ ws # <<>>
            /\ Simplify[e] = In(e.idx, ws)
  <2> DEFINE idx == e.idx
             vs == e.values
  <2>1. idx \in Nat \ {0} /\ vs \in Seq(Values)
    BY <1>1
  <2> HIDE DEF idx, vs
  <2>2. \/ ToSet(vs) = {} /\ SimplifyIn(idx, vs) = Literal(Bool(FALSE))
        \/ \E v \in Values :
              /\ ToSet(vs) = {v}
              /\ SimplifyIn(idx, vs) = BinaryOp("Eq", Column(idx), Literal(I64(v)))
        \/ \E ws \in Seq(Values) :
              /\ ToSet(ws) = ToSet(vs) /\ ws # <<>>
              /\ SimplifyIn(idx, vs) = In(idx, ws)
    BY <2>1, InForm
  <2> QED
    BY <1>2, <2>2, Zenon DEF idx, vs
<1> QED
  BY <1>3, <1>4, <1>5, <1>6

(***************************************************************************)
(* On a filter that can be evaluated, the simplified expression leaves the *)
(* rows the reference leaves.                                              *)
(***************************************************************************)
LEMMA FilterRows ==
    ASSUME NEW b, IsBatch(b), NEW row \in Rows(b)
    PROVE  \A e \in Expr :
             IsFilter[e] /\ ~EvaluatePanics(e, b) =>
                 (row \in EvaluateImpl(Simplify[e], b) <=> EvalRow(e, b, row))
<1> DEFINE Same(e) == row \in EvaluateImpl(Simplify[e], b) <=> EvalRow(e, b, row)
           S == {e \in Expr : IsFilter[e] /\ ~EvaluatePanics(e, b) => Same(e)}
<1>1. ASSUME NEW e \in Expr, Parts(e) \subseteq S PROVE e \in S
  <2> SUFFICES ASSUME IsFilter[e], ~EvaluatePanics(e, b) PROVE Same(e)
    OBVIOUS
  <2>1. e.kind \in Kinds /\ Parts(e) \subseteq Expr
    BY PartForm
  <2>2. Simplify[e] = SimplifyStep(Simplify, e) /\ Simplify[e] \in Expr
    BY SimplifyUnfolds
  <2>3. /\ EvalRow(e, b, row) = RowStep(Holding(b, row), e, b, row)
        /\ \A c \in Expr : Holding(b, row)[c] = EvalRow(c, b, row)
    BY EvalRowUnfolds, RowUnfolds
  <2>4. row \in b.selection
    BY DEF Rows
  <2>5. CASE e.kind = "column"
    <3>1. Simplify[e] = e
      BY <2>5, SimpleAlready
    <3>2. EvaluateImpl(e, b) = {r \in Rows(b) : b.columns[e.idx][r] # 0}
      BY <2>5, EvaluationUnfolds DEF EvaluateStep
    <3> QED
      BY <2>3, <2>5, <3>1, <3>2 DEF RowStep
  <2>6. CASE e.kind = "literal"
    <3>1. Simplify[e] = e
      BY <2>6, SimpleAlready
    <3> QED
      BY <2>3, <2>4, <2>6, <3>1, LiteralEvaluates DEF RowStep
  <2>7. CASE e.kind = "binary"
    BY <2>7, BinaryRow
  <2>8. CASE e.kind = "not"
    <3>1. e.inner \in S /\ e.inner \in Expr
      BY <1>1, <2>1, <2>8 DEF Parts
    <3>2. Same(e.inner)
      BY <2>8, <3>1, FilterParts, NodePanics
    <3>3. Simplify[e] = PushNot(Simplify[e.inner]) /\ Simplify[e.inner] \in Expr
      BY <2>2, <2>8, <3>1, SimplifyUnfolds DEF SimplifyStep
    <3>4. EvaluateImpl(Simplify[e], b) = b.selection \ EvaluateImpl(Simplify[e.inner], b)
      BY <2>2, <3>3, PushNotEvaluates
    <3>5. EvalRow(e, b, row) <=> ~EvalRow(e.inner, b, row)
      BY <2>3, <2>8, <3>1 DEF RowStep
    <3> QED
      BY <2>4, <3>2, <3>4, <3>5
  <2>9. CASE e.kind \in {"and", "or"}
    <3> DEFINE C == ToSet(e.children)
               On(c) == row \in EvaluateImpl(Simplify[c], b)
    <3>1. \A c \in C : c \in S
      BY <1>1, <2>9 DEF Parts, ToSet
    <3>2. \A c \in C : IsFilter[c] /\ ~EvaluatePanics(c, b)
      BY <2>9, FilterParts, NodePanics
    <3>3. \A c \in C : On(c) <=> EvalRow(c, b, row)
      BY <3>1, <3>2
    <3>4. row \in EvaluateImpl(Simplify[e], b)
            <=> AllOrAny(e.kind, {Simplify[c] : c \in C}, b, row)
      BY <2>4, <2>9, SimplifiedJunction
    <3>5. \A c \in C : c \in Expr
      BY <3>1
    <3>6. CASE e.kind = "and"
      <4>1. AllOrAny(e.kind, {Simplify[c] : c \in C}, b, row) <=> \A c \in C : On(c)
        BY <3>6 DEF AllOrAny
      <4>2. EvalRow(e, b, row) <=> \A i \in DOMAIN e.children : Holding(b, row)[e.children[i]]
        BY <2>3, <3>6 DEF RowStep
      <4>3. EvalRow(e, b, row) <=> \A c \in C : EvalRow(c, b, row)
        BY <2>3, <3>5, <4>2 DEF ToSet
      <4> QED
        BY <3>3, <3>4, <4>1, <4>3
    <3>7. CASE e.kind = "or"
      <4>1. AllOrAny(e.kind, {Simplify[c] : c \in C}, b, row) <=> \E c \in C : On(c)
        BY <3>7 DEF AllOrAny
      <4>2. EvalRow(e, b, row) <=> \E i \in DOMAIN e.children : Holding(b, row)[e.children[i]]
        BY <2>3, <3>7 DEF RowStep
      <4>3. EvalRow(e, b, row) <=> \E c \in C : EvalRow(c, b, row)
        BY <2>3, <3>5, <4>2 DEF ToSet
      <4> QED
        BY <3>3, <3>4, <4>1, <4>3
    <3> QED
      BY <2>9, <3>6, <3>7
  <2>10. CASE e.kind = "in"
    <3>1. row \in EvaluateImpl(Simplify[e], b) <=> b.columns[e.idx][row] \in ToSet(e.values)
      BY <2>10, SimplifiedIn
    <3>2. EvalRow(e, b, row) <=> \E i \in DOMAIN e.values : b.columns[e.idx][row] = e.values[i]
      BY <2>3, <2>10 DEF RowStep
    <3> QED
      BY <3>1, <3>2 DEF ToSet
  <2> QED
    BY <2>1, <2>5, <2>6, <2>7, <2>8, <2>9, <2>10 DEF Kinds
<1> HIDE DEF S
<1>2. Expr \subseteq S
  BY <1>1, TreeInduction
<1> QED
  BY <1>2 DEF S

-----------------------------------------------------------------------------
(***************************************************************************)
(* The normal form: no junction below a simplified expression has TRUE or  *)
(* FALSE for a part.                                                       *)
(***************************************************************************)
NoBoolPart(x) ==
    x.kind \in {"and", "or"} =>
        \A c \in ToSet(x.children), v \in BOOLEAN : ~IsBool(c, v)

\* The expressions in normal form all the way down.
Clean == UNION {S \in SUBSET Expr : \A x \in S : Parts(x) \subseteq S /\ NoBoolPart(x)}

\* They are the expressions in normal form whose parts are in normal form.
LEMMA CleanForm ==
    /\ Clean \subseteq Expr
    /\ \A x \in Clean : Parts(x) \subseteq Clean /\ NoBoolPart(x)
    /\ \A x \in Expr : Parts(x) \subseteq Clean /\ NoBoolPart(x) => x \in Clean
<1> DEFINE Closed(S) == \A x \in S : Parts(x) \subseteq S /\ NoBoolPart(x)
<1>1. Clean \subseteq Expr
  BY DEF Clean
<1>2. \A x : x \in Clean <=> \E S \in SUBSET Expr : Closed(S) /\ x \in S
  BY DEF Clean
<1>3. \A x \in Clean : Parts(x) \subseteq Clean /\ NoBoolPart(x)
  BY <1>2
<1>4. ASSUME NEW x \in Expr, Parts(x) \subseteq Clean, NoBoolPart(x) PROVE x \in Clean
  <2>1. Clean \cup {x} \in SUBSET Expr
    BY <1>1
  <2>2. Closed(Clean \cup {x})
    BY <1>3, <1>4
  <2> QED
    BY <1>2, <2>1, <2>2
<1> QED
  BY <1>1, <1>3, <1>4

\* Leaves are clean.
LEMMA LeavesClean == Leaves \subseteq Clean
<1>1. Operands \subseteq Expr /\ Leaves \subseteq Expr
  BY LeafIn, ExpressionsAssumption DEF Expr
<1>2. \A x \in Operands : Parts(x) = {} /\ NoBoolPart(x)
  BY OperandForm DEF IsOperand, Parts, NoBoolPart
<1>3. Operands \subseteq Clean
  BY <1>1, <1>2, CleanForm
<1>4. \A x \in Leaves : Parts(x) \subseteq Operands /\ NoBoolPart(x)
  BY LeafForm DEF IsOperand, IsInList, Parts, NoBoolPart
<1> QED
  BY <1>1, <1>3, <1>4, CleanForm

\* Pushing a Not into a clean expression leaves it clean.
LEMMA PushNotClean ==
    ASSUME NEW x \in Clean, PushNot(x) \in Expr
    PROVE  PushNot(x) \in Clean
<1>1. x \in Expr /\ Parts(x) \subseteq Clean
  BY CleanForm
<1>2. \A y : Not(y).kind = "not" /\ Not(y).inner = y
  BY DEF Not
<1>3. ASSUME NEW y \in Clean, Not(y) \in Expr PROVE Not(y) \in Clean
  <2>1. Parts(Not(y)) = {y}
    BY <1>2 DEF Parts
  <2>2. NoBoolPart(Not(y))
    BY <1>2 DEF NoBoolPart
  <2> QED
    BY <1>3, <2>1, <2>2, CleanForm
<1>4. CASE x.kind = "not"
  BY <1>1, <1>4 DEF PushNot, Parts
<1>5. CASE x.kind \in {"and", "or"}
  <2> DEFINE neg == Negated(x.children)
             y == PushNot(x)
  <2>1. y.kind \in {"and", "or"} /\ y.children = neg
    BY <1>5 DEF PushNot, And, Or
  <2>2. \A i \in DOMAIN x.children : x.children[i] \in Clean
    BY <1>1, <1>5 DEF Parts
  <2>3. DOMAIN neg = DOMAIN x.children /\ \A i \in DOMAIN neg : neg[i] = Not(x.children[i])
    BY DEF Negated
  <2>4. Parts(y) = ToSet(neg)
    BY <2>1 DEF Parts, ToSet
  <2>5. Parts(y) \subseteq Expr
    BY PartForm
  <2>6. \A i \in DOMAIN neg : neg[i] \in Clean
    BY <1>3, <2>2, <2>3, <2>4, <2>5 DEF ToSet
  <2>7. \A c \in ToSet(neg) : c \in Clean /\ c.kind = "not"
    BY <1>2, <2>3, <2>6 DEF ToSet
  <2>8. NoBoolPart(y)
    BY <2>1, <2>7 DEF NoBoolPart, IsBool
  <2> HIDE DEF y, neg
  <2>9. y \in Clean
    BY <2>4, <2>7, <2>8, CleanForm DEF y
  <2> QED
    BY <2>9 DEF y
<1>6. CASE x.kind \notin {"not", "and", "or"}
  BY <1>3, <1>6 DEF PushNot
<1> QED
  BY <1>4, <1>5, <1>6

\* Simplified expressions are clean.
LEMMA SimplifyClean == \A e \in Expr : Simplify[e] \in Clean
<1> DEFINE S == {e \in Expr : Simplify[e] \in Clean}
<1>1. ASSUME NEW e \in Expr, Parts(e) \subseteq S PROVE e \in S
  <2> SUFFICES Simplify[e] \in Clean
    OBVIOUS
  <2>1. e.kind \in Kinds /\ Parts(e) \subseteq Expr
    BY PartForm
  <2>2. Simplify[e] = SimplifyStep(Simplify, e) /\ Simplify[e] \in Expr
    BY SimplifyUnfolds
  <2>3. CASE e.kind \in {"column", "literal"}
    <3>1. e \in Operands
      BY <2>3, ExprShape, OperandIn
    <3> QED
      BY <2>3, <3>1, SimpleAlready, LeavesClean DEF Leaves
  <2>4. CASE e.kind = "in"
    <3>1. Simplify[e] = SimplifyIn(e.idx, e.values)
      BY <2>2, <2>4 DEF SimplifyStep
    <3>2. e.idx \in Nat \ {0} /\ e.values \in Seq(Values)
      BY <2>4, ExprShape
    <3> QED
      BY <3>1, <3>2, InForm, LeavesClean
  <2>5. CASE e.kind = "binary"
    <3> DEFINE x == Simplify[e.left]
               y == Simplify[e.right]
    <3>1. x \in Clean /\ y \in Clean
      BY <1>1, <2>5 DEF Parts
    <3>2. Simplify[e] = IF x.kind = "literal" /\ y.kind = "literal"
                        THEN FoldBinary(e.op, x.sv, y.sv)
                        ELSE BinaryOp(e.op, x, y)
      BY <2>2, <2>5 DEF SimplifyStep
    <3>3. x \in Expr /\ y \in Expr /\ e.op \in Comparisons \cup Arithmetic
      BY <2>5, <3>1, ExprShape, CleanForm
    <3> HIDE DEF x, y
    <3>4. CASE x.kind = "literal" /\ y.kind = "literal"
      <4>1. x.sv \in ScalarValue /\ y.sv \in ScalarValue
        BY <3>3, <3>4, ExprShape
      <4> QED
        BY <3>2, <3>3, <3>4, <4>1, FoldForm, LeavesClean
    <3>5. CASE ~(x.kind = "literal" /\ y.kind = "literal")
      <4>1. Simplify[e] = BinaryOp(e.op, x, y)
        BY <3>2, <3>5
      <4>2. Parts(Simplify[e]) = {x, y} /\ NoBoolPart(Simplify[e])
        BY <4>1 DEF BinaryOp, Parts, NoBoolPart
      <4> QED
        BY <2>2, <3>1, <4>2, CleanForm
    <3> QED
      BY <3>4, <3>5
  <2>6. CASE e.kind = "not"
    <3>1. Simplify[e.inner] \in Clean
      BY <1>1, <2>6 DEF Parts
    <3>2. Simplify[e] = PushNot(Simplify[e.inner])
      BY <2>2, <2>6 DEF SimplifyStep
    <3> QED
      BY <2>2, <3>1, <3>2, PushNotClean
  <2>7. CASE e.kind \in {"and", "or"}
    <3> DEFINE parts == [i \in DOMAIN e.children |-> Simplify[e.children[i]]]
               flat == Flattened(e.kind, parts)
               j == Simplify[e]
               k == e.kind
               neutral == k = "and"
    <3>1. j = Junction(e.kind, flat)
      BY <2>2, <2>7 DEF SimplifyStep
    <3>2. e.children \in Seq(Expr)
      BY <2>7, ExprShape
    <3>3. \A i \in DOMAIN e.children : Simplify[e.children[i]] \in Clean
      BY <1>1, <2>7 DEF Parts
    <3>4. parts \in Seq(Clean)
      BY <3>2, <3>3
    <3>5. ASSUME NEW p \in Clean, p.kind = k PROVE p.children \in Seq(Clean)
      <4>1. p \in Expr /\ Parts(p) \subseteq Clean
        BY CleanForm
      <4>2. p.children \in Seq(Expr)
        BY <2>7, <3>5, <4>1, ExprShape
      <4>3. \A i \in DOMAIN p.children : p.children[i] \in Clean
        BY <2>7, <3>5, <4>1 DEF Parts
      <4> QED
        BY <4>2, <4>3
    <3> HIDE DEF parts
    <3>6. flat \in Seq(Clean)
      BY <3>4, <3>5, FlattenedForm
    <3> HIDE DEF flat
    <3>7. IsJunction(j, k, flat, Clean)
      BY <3>1, <3>6, JunctionForm
    <3>8. ToSet(flat) \subseteq Clean
      BY <3>6, FiniteValues
    <3>9. \A v : Literal(Bool(v)) \in Clean
      BY OperandIn, LeavesClean DEF Leaves
    <3> HIDE DEF j, k
    <3>10. \/ \E v : j = Literal(Bool(v))
           \/ j \in ToSet(flat)
           \/ \E kept \in Seq(Clean) :
                 /\ ToSet(kept) = {p \in ToSet(flat) : ~IsBool(p, neutral)}
                 /\ \A p \in ToSet(flat) : ~IsBool(p, ~neutral)
                 /\ j = [kind |-> k, children |-> kept]
      BY <3>7, Zenon DEF IsJunction
    <3>11. ASSUME NEW kept \in Seq(Clean),
                  ToSet(kept) = {p \in ToSet(flat) : ~IsBool(p, neutral)},
                  \A p \in ToSet(flat) : ~IsBool(p, ~neutral),
                  j = [kind |-> k, children |-> kept]
           PROVE  j \in Clean
      <4>1. Parts(j) = ToSet(kept) /\ j.children = kept
        BY <2>7, <3>11 DEF Parts, ToSet, k
      <4>2. \A c \in ToSet(kept) : ~IsBool(c, TRUE) /\ ~IsBool(c, FALSE)
        <5>1. CASE neutral
          BY <3>11, <5>1
        <5>2. CASE ~neutral
          BY <3>11, <5>2
        <5> QED
          BY <5>1, <5>2
      <4>3. NoBoolPart(j)
        BY <4>1, <4>2 DEF NoBoolPart
      <4>4. Parts(j) \subseteq Clean
        BY <3>8, <3>11, <4>1
      <4> QED
        BY <2>2, <4>3, <4>4, CleanForm DEF j
    <3> QED
      BY <3>8, <3>9, <3>10, <3>11 DEF j
  <2> QED
    BY <2>1, <2>3, <2>4, <2>5, <2>6, <2>7 DEF Kinds
<1> HIDE DEF S
<1>2. Expr \subseteq S
  BY <1>1, TreeInduction
<1> QED
  BY <1>2 DEF S

-----------------------------------------------------------------------------
\* A column and an i64: no value between the bounds of a pruned column passes.
LEMMA PrunedColumn ==
    ASSUME NEW b, IsBatch(b), NEW idx \in DOMAIN b.columns, ~ReadPanics(idx, b),
           NEW row \in Rows(b), NEW op \in Comparisons \cup Arithmetic, NEW v \in Values,
           CanPruneColOp(idx, op, v, FromBatch(b))
    PROVE  ~HoldsOn(op, b.columns[idx][row], v)
<1> DEFINE least == FromBatch(b).min[idx]
           most == FromBatch(b).max[idx]
           w == b.columns[idx][row]
<1>1. least \in Int /\ most \in Int /\ least <= w /\ w <= most
  BY StatsBound
<1>2. v \in Int /\ w \in Int
  BY Readable, IntBoundAssumption DEF Values
<1>3. CASE op \in {"Add", "Sub", "Mul", "Div", "NotEq"}
  BY <1>3 DEF CanPruneColOp
<1>4. CASE op \in {"Gt", "Lt", "Eq", "GtEq", "LtEq"}
  <2>1. CASE op = "Gt"
    <3>1. most <= v
      BY <2>1 DEF CanPruneColOp
    <3>2. ~(w > v)
      <4> HIDE DEF least, most, w
      <4> QED
        BY <1>1, <1>2, <3>1
    <3> QED
      BY <2>1, <3>2 DEF HoldsOn, Comparisons, Compare
  <2>2. CASE op = "Lt"
    <3>1. least >= v
      BY <2>2 DEF CanPruneColOp
    <3>2. ~(w < v)
      <4> HIDE DEF least, most, w
      <4> QED
        BY <1>1, <1>2, <3>1
    <3> QED
      BY <2>2, <3>2 DEF HoldsOn, Comparisons, Compare
  <2>3. CASE op = "Eq"
    <3>1. v < least \/ v > most
      BY <2>3 DEF CanPruneColOp
    <3>2. w # v
      <4> HIDE DEF least, most, w
      <4> QED
        BY <1>1, <1>2, <3>1
    <3> QED
      BY <2>3, <3>2 DEF HoldsOn, Comparisons, Compare
  <2>4. CASE op = "GtEq"
    <3>1. most < v
      BY <2>4 DEF CanPruneColOp
    <3>2. ~(w >= v)
      <4> HIDE DEF least, most, w
      <4> QED
        BY <1>1, <1>2, <3>1
    <3> QED
      BY <2>4, <3>2 DEF HoldsOn, Comparisons, Compare
  <2>5. CASE op = "LtEq"
    <3>1. least > v
      BY <2>5 DEF CanPruneColOp
    <3>2. ~(w <= v)
      <4> HIDE DEF least, most, w
      <4> QED
        BY <1>1, <1>2, <3>1
    <3> QED
      BY <2>5, <3>2 DEF HoldsOn, Comparisons, Compare
  <2> QED
    BY <1>4, <2>1, <2>2, <2>3, <2>4, <2>5
<1> QED
  BY <1>3, <1>4 DEF Comparisons, Arithmetic

\* What can_prune asks of an operator.
LEMMA PrunedBinary ==
    ASSUME NEW e \in Expr, e.kind = "binary", NEW stats, CanPruneExpr(e, stats)
    PROVE  /\ ColLiteral(e) /\ LitOf(e).type = "i64" /\ LitOf(e).v \in Values
           /\ OpOf(e) \in Comparisons \cup Arithmetic
           /\ CanPruneColOp(ColOf(e), OpOf(e), LitOf(e).v, stats)
<1>1. PruneStep(Pruning(stats), e, stats)
  BY CanPruneUnfolds, PruneUnfolds
<1>2. /\ e.op \in Comparisons \cup Arithmetic
      /\ e.left \in Expr /\ e.right \in Expr
  BY ExprShape
<1>3. \/ /\ e.left.kind = "column" /\ IsI64(e.right)
         /\ CanPruneColOp(e.left.idx, e.op, e.right.sv.v, stats)
      \/ /\ e.right.kind = "column" /\ IsI64(e.left)
         /\ CanPruneColOp(e.right.idx, FlippedOp(e.op), e.left.sv.v, stats)
  BY <1>1, Zenon DEF PruneStep, IsI64
<1>4. FlippedOp(e.op) \in Comparisons \cup Arithmetic
  BY <1>2 DEF FlippedOp, Comparisons, Arithmetic
<1>5. \A x \in Expr : IsI64(x) => x.kind = "literal" /\ x.sv.type = "i64" /\ x.sv.v \in Values
  <2>1. \A sv \in ScalarValue : sv.type = "i64" => sv.v \in Values
    BY DEF ScalarValue, Bool, Null
  <2> QED
    BY <2>1, ExprShape DEF IsI64
<1>6. CASE /\ e.left.kind = "column" /\ IsI64(e.right)
           /\ CanPruneColOp(e.left.idx, e.op, e.right.sv.v, stats)
  BY <1>2, <1>5, <1>6 DEF ColLiteral, ColOf, OpOf, LitOf
<1>7. CASE /\ e.right.kind = "column" /\ IsI64(e.left)
           /\ CanPruneColOp(e.right.idx, FlippedOp(e.op), e.left.sv.v, stats)
  <2>1. e.left.kind = "literal"
    BY <1>2, <1>5, <1>7
  <2> QED
    BY <1>2, <1>4, <1>5, <1>7, <2>1 DEF ColLiteral, ColOf, OpOf, LitOf
<1> QED
  BY <1>3, <1>6, <1>7

(***************************************************************************)
(* can_prune is conservative: if it skips the batch of an expression that  *)
(* evaluates at all, the expression leaves none of the rows of the batch.  *)
(***************************************************************************)
LEMMA PrunedRows ==
    ASSUME NEW b, IsBatch(b), NEW row \in Rows(b)
    PROVE  \A e \in Expr :
             CanPruneExpr(e, FromBatch(b)) /\ ~EvaluatePanics(Simplify[e], b) =>
                 row \notin EvaluateImpl(Simplify[e], b)
<1> DEFINE stats == FromBatch(b)
           S == {e \in Expr :
                   CanPruneExpr(e, stats) /\ ~EvaluatePanics(Simplify[e], b) =>
                       row \notin EvaluateImpl(Simplify[e], b)}
<1>1. row \in b.selection
  BY RowsForm
<1>2. DOMAIN stats.min = DOMAIN b.columns
  BY DEF FromBatch
<1> HIDE DEF stats
<1>3. ASSUME NEW e \in Expr, Parts(e) \subseteq S PROVE e \in S
  <2> SUFFICES ASSUME CanPruneExpr(e, stats), ~EvaluatePanics(Simplify[e], b)
               PROVE  row \notin EvaluateImpl(Simplify[e], b)
    OBVIOUS
  <2>1. e.kind \in Kinds /\ Parts(e) \subseteq Expr
    BY PartForm
  <2>2. PruneStep(Pruning(stats), e, stats)
    BY CanPruneUnfolds, PruneUnfolds
  <2>3. \A x \in Expr : CanPruneExpr(x, stats) <=> Pruning(stats)[x]
    BY CanPruneUnfolds
  <2>4. e.kind \notin {"column", "literal", "not"}
    BY <2>2 DEF PruneStep
  <2>5. CASE e.kind = "binary"
    <3>1. /\ ColLiteral(e) /\ LitOf(e).type = "i64" /\ LitOf(e).v \in Values
          /\ OpOf(e) \in Comparisons \cup Arithmetic
          /\ CanPruneColOp(ColOf(e), OpOf(e), LitOf(e).v, stats)
      BY <2>5, PrunedBinary
    <3>2. Simplify[e] = e
      BY <3>1, SimpleAlready
    <3>3. ColOf(e) \in DOMAIN b.columns /\ ~ReadPanics(ColOf(e), b)
      BY <3>1, <3>2, ColLiteralEvaluates
    <3>4. ~HoldsOn(OpOf(e), b.columns[ColOf(e)][row], LitOf(e).v)
      BY <3>1, <3>3, PrunedColumn DEF stats
    <3>5. EvaluateImpl(e, b) = EvalColBinLiteral(ColOf(e), OpOf(e), LitOf(e), b)
      BY <3>1, ColLiteralEvaluates
    <3> QED
      BY <3>2, <3>4, <3>5 DEF EvalColBinLiteral
  <2>6. CASE e.kind \in {"and", "or"}
    <3> DEFINE P == {Simplify[c] : c \in ToSet(e.children)}
               absorbing == Literal(Bool(e.kind = "or"))
    <3>1. e.children \in Seq(Expr) /\ ToSet(e.children) \subseteq Expr
      BY <2>6, ExprShape, FiniteValues
    <3>2. \A c \in ToSet(e.children) : c \in S
      BY <1>3, <2>6 DEF Parts, ToSet
    <3>3. EvaluateImpl(Simplify[e], b) = {r \in b.selection : AllOrAny(e.kind, P, b, r)}
      BY <2>6, SimplifiedJunction
    <3>4. \/ \A p \in P : ~EvaluatePanics(p, b)
          \/ /\ Simplify[e] = absorbing
             /\ \/ absorbing \in P
                \/ \E p \in P : p.kind = e.kind /\ absorbing \in ToSet(p.children)
      BY <2>6, JunctionPanics
    <3>5. \A c \in ToSet(e.children) :
            CanPruneExpr(c, stats) /\ ~EvaluatePanics(Simplify[c], b) =>
              row \notin EvaluateImpl(Simplify[c], b)
      BY <3>2
    <3>6. CASE e.kind = "and"
      <4>1. PICK c \in ToSet(e.children) : CanPruneExpr(c, stats)
        <5>1. \E i \in DOMAIN e.children : Pruning(stats)[e.children[i]]
          BY <2>2, <3>6 DEF PruneStep
        <5>2. \E c \in ToSet(e.children) : Pruning(stats)[c]
          BY <5>1 DEF ToSet
        <5> QED
          BY <2>3, <3>1, <5>2
      <4>2. CASE \A p \in P : ~EvaluatePanics(p, b)
        <5>1. row \notin EvaluateImpl(Simplify[c], b) /\ Simplify[c] \in P
          BY <3>5, <4>1, <4>2
        <5> QED
          BY <3>3, <3>6, <5>1 DEF AllOrAny
      <4>3. CASE Simplify[e] = absorbing
        <5>1. Simplify[e] = Literal(Bool(FALSE))
          BY <3>6, <4>3
        <5> QED
          BY <5>1, BoolEvaluates
      <4> QED
        BY <3>4, <4>2, <4>3
    <3>7. CASE e.kind = "or"
      <4>1. \A c \in ToSet(e.children) : CanPruneExpr(c, stats)
        <5>1. \A i \in DOMAIN e.children : Pruning(stats)[e.children[i]]
          BY <2>2, <3>7 DEF PruneStep
        <5>2. \A c \in ToSet(e.children) : Pruning(stats)[c]
          BY <5>1 DEF ToSet
        <5> QED
          BY <2>3, <3>1, <5>2
      <4>2. CASE \A p \in P : ~EvaluatePanics(p, b)
        <5>1. \A p \in P : row \notin EvaluateImpl(p, b)
          BY <3>5, <4>1, <4>2
        <5> QED
          BY <3>3, <3>7, <5>1 DEF AllOrAny
      <4>3. absorbing = Literal(Bool(TRUE))
        BY <3>7
      <4>4. CASE absorbing \in P
        <5>1. PICK c \in ToSet(e.children) : Simplify[c] = absorbing
          BY <4>4
        <5>2. Simplify[c] \in Expr
          BY <3>1, SimplifyUnfolds
        <5>3. Simplify[c].kind = "literal"
          BY <5>1 DEF Literal
        <5>4. ~EvaluatePanics(Simplify[c], b)
          BY <5>2, <5>3, NodePanics
        <5>5. row \notin EvaluateImpl(Simplify[c], b)
          BY <3>5, <4>1, <5>1, <5>4
        <5>6. EvaluateImpl(Simplify[c], b) = b.selection
          BY <4>3, <5>1, BoolEvaluates
        <5> QED
          BY <1>1, <5>5, <5>6
      <4>5. CASE \E p \in P : p.kind = e.kind /\ absorbing \in ToSet(p.children)
        <5>1. PICK c \in ToSet(e.children) :
                /\ Simplify[c].kind = e.kind /\ absorbing \in ToSet(Simplify[c].children)
          BY <4>5
        <5>2. NoBoolPart(Simplify[c])
          BY <3>1, SimplifyClean, CleanForm
        <5>3. IsBool(absorbing, TRUE)
          BY <4>3 DEF IsBool, Literal
        <5> HIDE DEF absorbing
        <5> QED
          BY <3>7, <5>1, <5>2, <5>3 DEF NoBoolPart
      <4> QED
        BY <3>4, <4>2, <4>4, <4>5
    <3> QED
      BY <2>6, <3>6, <3>7
  <2>7. CASE e.kind = "in"
    <3>1. e.idx \in Nat \ {0} /\ e.values \in Seq(Values)
      BY <2>7, ExprShape
    <3>2. Simplify[e] = SimplifyIn(e.idx, e.values) /\ Simplify[e] \in Expr
      BY <2>7, SimplifyUnfolds DEF SimplifyStep
    <3> SUFFICES ASSUME row \in EvaluateImpl(Simplify[e], b) PROVE FALSE
      OBVIOUS
    <3>3. b.columns[e.idx][row] \in ToSet(e.values)
      BY <2>7, SimplifiedIn
    <3>4. CanPruneIn(e.idx, e.values, stats)
      BY <2>2, <2>7 DEF PruneStep
    <3>5. e.idx \in DOMAIN b.columns /\ ~ReadPanics(e.idx, b)
      <4>1. CASE Simplify[e] = Literal(Bool(FALSE))
        BY <4>1, BoolEvaluates
      <4>2. CASE \E v \in Values :
                    /\ ToSet(e.values) = {v}
                    /\ Simplify[e] = BinaryOp("Eq", Column(e.idx), Literal(I64(v)))
        <5>1. PICK v \in Values : Simplify[e] = BinaryOp("Eq", Column(e.idx), Literal(I64(v)))
          BY <4>2
        <5>2. /\ ColLiteral(Simplify[e]) /\ ColOf(Simplify[e]) = e.idx
              /\ LitOf(Simplify[e]).type = "i64"
          BY <5>1 DEF ColLiteral, ColOf, LitOf, BinaryOp, Column, Literal, I64
        <5> QED
          BY <3>2, <5>2, ColLiteralEvaluates
      <4>3. CASE \E ws \in Seq(Values) :
                    /\ ToSet(ws) = ToSet(e.values) /\ ws # <<>>
                    /\ Simplify[e] = In(e.idx, ws)
        <5>1. PICK ws \in Seq(Values) : ws # <<>> /\ Simplify[e] = In(e.idx, ws)
          BY <4>3
        <5>2. Simplify[e].kind = "in" /\ Simplify[e].idx = e.idx /\ Simplify[e].values # <<>>
          BY <5>1 DEF In
        <5> QED
          BY <3>2, <5>2, InPanics
      <4> QED
        BY <3>1, <3>2, <4>1, <4>2, <4>3, InForm
    <3>6. /\ stats.min[e.idx] \in Int /\ stats.max[e.idx] \in Int
          /\ stats.min[e.idx] <= b.columns[e.idx][row]
          /\ b.columns[e.idx][row] <= stats.max[e.idx]
      BY <3>5, StatsBound DEF stats
    <3>7. b.columns[e.idx][row] \in Int
      BY <3>5, Readable, IntBoundAssumption DEF Values
    <3>8. \A v \in ToSet(e.values) : v < stats.min[e.idx] \/ v > stats.max[e.idx]
      BY <1>2, <3>4, <3>5 DEF CanPruneIn
    <3> QED
      BY <3>3, <3>6, <3>7, <3>8
  <2> QED
    BY <2>1, <2>4, <2>5, <2>6, <2>7 DEF Kinds
<1> HIDE DEF S
<1>4. Expr \subseteq S
  BY <1>3, TreeInduction
<1> QED
  BY <1>4 DEF S, stats

-----------------------------------------------------------------------------
(***************************************************************************)
(* A scan is three calls in a row; what each has left behind.              *)
(***************************************************************************)
\* The arguments are those of the assumption.
ScanInputs == expr \in Exprs /\ batch \in Batches

\* What can_prune has returned, once it has.
PrunedSoFar ==
    IF phase = "prune" THEN ~pruned ELSE pruned = CanPrune(expr, FromBatch(batch))

\* What simplify has returned, once it has.
SimplifiedSoFar ==
    /\ phase \in {"prune", "simplify"} => simplified = expr
    /\ phase \in {"evaluate", "returned"} => simplified = Simplify[expr]

\* Rows survive only an evaluation that has returned ...
SurvivorsSoFar ==
    IF phase = "returned"
    THEN ~EvaluatePanics(simplified, batch) /\ survivors = EvaluateImpl(simplified, batch)
    ELSE survivors = {}

\* ... and the evaluation of the simplified expression is what panics last.
PanickedSoFar ==
    phase = "evaluatePanicked" => EvaluatePanics(Simplify[expr], batch)

\* All of it.
ScanIInv ==
    ScanInputs /\ PrunedSoFar /\ SimplifiedSoFar /\ SurvivorsSoFar /\ PanickedSoFar

\* It holds initially.
LEMMA ScanInitIInv == ScanInit => ScanIInv
BY DEF ScanInit, ScanIInv, ScanInputs, PrunedSoFar, SimplifiedSoFar, SurvivorsSoFar, PanickedSoFar

\* can_prune is called.
LEMMA PruneIInv == ScanIInv /\ Prune => ScanIInv'
<1> SUFFICES ASSUME ScanIInv, Prune
             PROVE  ScanIInv'
  OBVIOUS
<1> USE DEF ScanIInv, Prune
<1>1. ScanInputs'
  BY DEF ScanInputs
<1>2. PrunedSoFar'
  BY DEF PrunedSoFar
<1>3. SimplifiedSoFar' /\ SurvivorsSoFar' /\ PanickedSoFar'
  BY DEF SimplifiedSoFar, SurvivorsSoFar, PanickedSoFar
<1> QED
  BY <1>1, <1>2, <1>3

\* simplify is called.
LEMMA SimplifyExprIInv == ScanIInv /\ SimplifyExpr => ScanIInv'
<1> SUFFICES ASSUME ScanIInv, SimplifyExpr
             PROVE  ScanIInv'
  OBVIOUS
<1> USE DEF ScanIInv, SimplifyExpr
<1>1. ScanInputs'
  BY DEF ScanInputs
<1>2. PrunedSoFar'
  BY DEF PrunedSoFar
<1>3. SimplifiedSoFar'
  BY DEF SimplifiedSoFar
<1>4. SurvivorsSoFar'
  BY DEF SurvivorsSoFar
<1>5. PanickedSoFar'
  BY DEF PanickedSoFar
<1> QED
  BY <1>1, <1>2, <1>3, <1>4, <1>5

\* The simplified expression is evaluated.
LEMMA EvaluateIInv == ScanIInv /\ Evaluate => ScanIInv'
<1> SUFFICES ASSUME ScanIInv, Evaluate
             PROVE  ScanIInv'
  OBVIOUS
<1> USE DEF ScanIInv, Evaluate
<1>1. ScanInputs'
  BY DEF ScanInputs
<1>2. PrunedSoFar'
  BY DEF PrunedSoFar
<1>3. SimplifiedSoFar'
  BY DEF SimplifiedSoFar
<1>4. SurvivorsSoFar'
  BY DEF SurvivorsSoFar
<1>5. PanickedSoFar'
  BY DEF PanickedSoFar, SimplifiedSoFar
<1> QED
  BY <1>1, <1>2, <1>3, <1>4, <1>5

\* Every step of a scan preserves the invariant.
LEMMA ScanNextIInv == ScanIInv /\ [ScanNext]_scanVars => ScanIInv'
<1>1. ASSUME ScanIInv, UNCHANGED scanVars
      PROVE  ScanIInv'
  <2> USE <1>1 DEF scanVars, ScanIInv
  <2>1. ScanInputs' /\ PrunedSoFar' /\ SimplifiedSoFar'
    BY DEF ScanInputs, PrunedSoFar, SimplifiedSoFar
  <2>2. SurvivorsSoFar' /\ PanickedSoFar'
    BY DEF SurvivorsSoFar, PanickedSoFar
  <2> QED
    BY <2>1, <2>2
<1> QED
  BY <1>1, PruneIInv, SimplifyExprIInv, EvaluateIInv DEF ScanNext

\* So it holds throughout a scan.
LEMMA ScanInvariant == ScanSpec => []ScanIInv
BY ScanInitIInv, ScanNextIInv, PTL DEF ScanSpec

\* Its inputs are an expression and a batch.
LEMMA ScanFacts ==
    ASSUME ScanIInv
    PROVE  /\ expr \in Expr /\ IsBatch(batch)
           /\ Simplify[expr] \in Expr
           /\ survivors \subseteq EvaluateImpl(Simplify[expr], batch)
           /\ phase = "returned" => /\ ~EvaluatePanics(Simplify[expr], batch)
                                    /\ survivors = EvaluateImpl(Simplify[expr], batch)
<1>1. expr \in Expr /\ IsBatch(batch)
  BY FilterAssumption DEF ScanIInv, ScanInputs, IsBatch
<1>2. Simplify[expr] \in Expr
  BY <1>1, SimplifyUnfolds
<1>3. phase = "returned" => /\ ~EvaluatePanics(Simplify[expr], batch)
                            /\ survivors = EvaluateImpl(Simplify[expr], batch)
  BY DEF ScanIInv, SimplifiedSoFar, SurvivorsSoFar
<1>4. phase # "returned" => survivors = {}
  BY DEF ScanIInv, SurvivorsSoFar
<1> QED
  BY <1>1, <1>2, <1>3, <1>4

-----------------------------------------------------------------------------
(***************************************************************************)
(* Late materialisation: whatever the expression and the batch, no row     *)
(* survives the simplified expression that was not selected.               *)
(***************************************************************************)
THEOREM SelectionKept == ScanSpec => []SelectionRespected
<1>1. ScanIInv => SelectionRespected
  BY ScanFacts, EvaluationUnfolds DEF SelectionRespected
<1> QED
  BY <1>1, ScanInvariant, PTL

(***************************************************************************)
(* can_prune is conservative: a batch it skips, whatever the expression    *)
(* and the zone map, has no row that evaluate_expr lets through.           *)
(***************************************************************************)
THEOREM PruningSound == ScanSpec => []PruneSound
<1>1. ASSUME ScanIInv, phase = "returned", pruned
      PROVE  survivors \cap (1 .. batch.numRows) = {}
  <2>1. /\ IsBatch(batch) /\ expr \in Expr
        /\ ~EvaluatePanics(Simplify[expr], batch)
        /\ survivors = EvaluateImpl(Simplify[expr], batch)
        /\ survivors \subseteq batch.selection
    BY <1>1, ScanFacts, EvaluationUnfolds
  <2>2. CanPrune(expr, FromBatch(batch))
    BY <1>1 DEF ScanIInv, PrunedSoFar
  <2>3. survivors \cap (1 .. batch.numRows) \subseteq Rows(batch)
    BY <2>1, RowsForm
  <2>4. CASE FromBatch(batch).count = 0
    <3>1. batch.numRows = 0
      BY <2>4 DEF FromBatch
    <3> QED
      BY <3>1
  <2>5. CASE CanPruneExpr(expr, FromBatch(batch))
    BY <2>1, <2>3, <2>5, PrunedRows
  <2> QED
    BY <2>2, <2>4, <2>5 DEF CanPrune
<1>2. ScanIInv => PruneSound
  BY <1>1 DEF PruneSound
<1> QED
  BY <1>2, ScanInvariant, PTL

(***************************************************************************)
(* The vectorised evaluation of a filter, with simplification, fast paths, *)
(* the bloom filter and bitmaps in between, leaves exactly the rows that   *)
(* the row-by-row evaluation of the tests leaves, for every filter, every  *)
(* batch, every width of the integers and every hash of the bloom filter.  *)
(***************************************************************************)
THEOREM RowByRow == ScanSpec => []MatchesRowByRow
<1>1. ASSUME ScanIInv, phase = "returned", IsFilter[expr], ~EvaluatePanics(expr, batch)
      PROVE  survivors \cap (1 .. batch.numRows) = {row \in Rows(batch) : EvalRow(expr, batch, row)}
  <2>1. /\ IsBatch(batch) /\ expr \in Expr
        /\ survivors = EvaluateImpl(Simplify[expr], batch)
        /\ survivors \subseteq batch.selection
    BY <1>1, ScanFacts, EvaluationUnfolds
  <2>2. Rows(batch) = batch.selection \cap (1 .. batch.numRows)
    BY <2>1, RowsForm
  <2>3. \A row \in Rows(batch) :
          row \in EvaluateImpl(Simplify[expr], batch) <=> EvalRow(expr, batch, row)
    BY <1>1, <2>1, FilterRows
  <2>4. \A row \in Rows(batch) : row \in survivors <=> EvalRow(expr, batch, row)
    BY <2>1, <2>3
  <2>5. survivors \cap (1 .. batch.numRows) = {row \in Rows(batch) : row \in survivors}
    BY <2>1, <2>2
  <2> QED
    BY <2>4, <2>5
<1>2. ScanIInv => MatchesRowByRow
  BY <1>1 DEF MatchesRowByRow
<1> QED
  BY <1>2, ScanInvariant, PTL

(***************************************************************************)
(* Flattening, De Morgan, In lists and folded literals add no read and no  *)
(* division to a filter: where evaluating the simplified one panics,       *)
(* evaluating it as it was written would.                                  *)
(***************************************************************************)
THEOREM NoNewPanics == ScanSpec => []PanicsOnlyAsWritten
<1>1. ASSUME ScanIInv, phase = "evaluatePanicked", IsFilter[expr]
      PROVE  EvaluatePanics(expr, batch)
  <2>1. EvaluatePanics(Simplify[expr], batch)
    BY <1>1 DEF ScanIInv, PanickedSoFar
  <2>2. expr \in Expr
    BY <1>1, ScanFacts
  <2> QED
    BY <1>1, <2>1, <2>2, FilterPanics
<1>2. ScanIInv => PanicsOnlyAsWritten
  BY <1>1 DEF PanicsOnlyAsWritten
<1> QED
  BY <1>2, ScanInvariant, PTL
=============================================================================
