---------------------------- MODULE SortMergeJoin ----------------------------
(***************************************************************************)
(* sort_merge_join and left_outer_join (src/engine/join.rs), one step per  *)
(* turn of a loop.  left and right are the key columns, sorted; a payload  *)
(* is known by its row, so an output row is <<i, j>>, row i of left joined *)
(* with row j of right, where j is NoRow for None.                         *)
(***************************************************************************)
EXTENDS Integers, Sequences

CONSTANTS Key,
          MaxLen    \* the longest column of an input

ASSUME JoinAssumption == Key \subseteq Int /\ MaxLen \in Nat

NoRow == 0

VARIABLES left, right,
          kind,        \* "inner" or "outer"
          li, ri,      \* the cursors
          lk,          \* the key of the run at hand
          dup,         \* dup_ri, where its run in right begins
          rj,          \* the cursor inside it
          pc,          \* "scan", "run", "skip" or "returned"
          result

inputs == <<left, right, kind>>
vars == <<inputs, li, ri, lk, dup, rj, pc, result>>

Sorted(s) == \A i, j \in DOMAIN s : i <= j => s[i] <= s[j]

Columns == {s \in UNION {[1 .. n -> Key] : n \in 0 .. MaxLen} : Sorted(s)}

AtLeft(k) == li <= Len(left) /\ left[li] = k
AtRight(j, k) == j <= Len(right) /\ right[j] = k

-----------------------------------------------------------------------------
Init ==
    /\ left \in Columns /\ right \in Columns
    /\ kind \in {"inner", "outer"}
    /\ li = 1 /\ ri = 1
    /\ lk = 0 /\ dup = 1 /\ rj = 1
    /\ pc = "scan"
    /\ result = <<>>

FinishedWithRight == li > Len(left) \/ ri > Len(right)

\* The head of the main loop.
Finished == li > Len(left) \/ (kind = "inner" /\ ri > Len(right))

Return ==
    /\ pc = "scan"
    /\ Finished
    /\ pc' = "returned"
    /\ UNCHANGED <<inputs, li, ri, lk, dup, rj, result>>

SkipRightForgotten ==
    /\ pc = "scan"
    /\ ~Finished
    /\ ri <= Len(right) /\ right[ri] < left[li]
    /\ UNCHANGED vars

GallopRight ==
    /\ pc = "scan"
    /\ ~Finished
    /\ ri <= Len(right) /\ right[ri] < left[li]
    /\ ri' = ri + 2
    /\ UNCHANGED <<inputs, li, lk, dup, rj, pc, result>>

SkipRight ==
    /\ pc = "scan"
    /\ ~Finished
    /\ ri <= Len(right) /\ right[ri] < left[li]
    /\ ri' = ri + 1
    /\ UNCHANGED <<inputs, li, lk, dup, rj, pc, result>>

\* A row of left without a match: the outer join emits it.
SkipLeft ==
    /\ pc = "scan"
    /\ ~Finished
    /\ ri <= Len(right) => left[li] < right[ri]
    /\ li' = li + 1
    /\ result' = IF kind = "outer" THEN Append(result, <<li, NoRow>>) ELSE result
    /\ UNCHANGED <<inputs, ri, lk, dup, rj, pc>>

BeginRun ==
    /\ pc = "scan"
    /\ ~Finished
    /\ AtRight(ri, left[li])
    /\ lk' = left[li]
    /\ dup' = ri /\ rj' = ri
    /\ pc' = "run"
    /\ UNCHANGED <<inputs, li, ri, result>>

Emit ==
    /\ pc = "run"
    /\ AtLeft(lk) /\ AtRight(rj, lk)
    /\ result' = Append(result, <<li, rj>>)
    /\ rj' = rj + 1
    /\ UNCHANGED <<inputs, li, ri, lk, dup, pc>>

NextLeftFromHere ==
    /\ pc = "run"
    /\ AtLeft(lk) /\ ~AtRight(rj, lk)
    /\ li' = li + 1
    /\ UNCHANGED <<inputs, ri, lk, dup, rj, pc, result>>

\* The next row of left meets the run of right from its start.
NextLeft ==
    /\ pc = "run"
    /\ AtLeft(lk) /\ ~AtRight(rj, lk)
    /\ li' = li + 1
    /\ rj' = dup
    /\ UNCHANGED <<inputs, ri, lk, dup, pc, result>>

EndRun ==
    /\ pc = "run"
    /\ ~AtLeft(lk)
    /\ ri' = dup
    /\ pc' = "skip"
    /\ UNCHANGED <<inputs, li, lk, dup, rj, result>>

SkipRun ==
    /\ pc = "skip"
    /\ AtRight(ri, lk)
    /\ ri' = ri + 1
    /\ UNCHANGED <<inputs, li, lk, dup, rj, pc, result>>

Resume ==
    /\ pc = "skip"
    /\ ~AtRight(ri, lk)
    /\ pc' = "scan"
    /\ UNCHANGED <<inputs, li, ri, lk, dup, rj, result>>

Next ==
    \/ SkipRight \/ SkipLeft \/ BeginRun
    \/ Emit \/ NextLeft \/ EndRun
    \/ SkipRun \/ Resume
    \/ Return

\* The thread that joins keeps running.
Spec == Init /\ [][Next]_vars /\ WF_vars(Next)

-----------------------------------------------------------------------------
(***************************************************************************)
(* Types; no cursor is more than one past the end of its column, so no     *)
(* access is out of bounds.                                                *)
(***************************************************************************)
TypeOK ==
    /\ left \in Columns /\ right \in Columns
    /\ kind \in {"inner", "outer"}
    /\ li \in 1 .. Len(left) + 1
    /\ {ri, dup, rj} \subseteq 1 .. Len(right) + 1
    /\ lk \in Key \cup {0}
    /\ pc \in {"scan", "run", "skip", "returned"}
    /\ result \in Seq((1 .. Len(left)) \X (0 .. Len(right)))

Matching(i) == {j \in DOMAIN right : right[j] = left[i]}

\* What the join says about row i of left.
RowsOf(i) ==
    IF Matching(i) = {} /\ kind = "outer" THEN {<<i, NoRow>>}
                                           ELSE {<<i, j>> : j \in Matching(i)}

\* The join of the first n rows of left.
Joined(n) == UNION {RowsOf(i) : i \in 1 .. n}

Emitted == {result[n] : n \in DOMAIN result}

(***************************************************************************)
(* Nothing is missed and nothing is made up, with any number of duplicates *)
(* on both sides: at every moment the output holds the join of exactly the *)
(* rows of left before the cursor, and of the row at the cursor the pairs  *)
(* up to rj.                                                               *)
(***************************************************************************)
EmittedSoFar ==
    pc # "returned" =>
        Emitted = Joined(li - 1)
                    \cup {<<li, j>> : j \in IF pc = "run" THEN dup .. rj - 1 ELSE {}}

\* Every row of left has been joined.
AllEmitted == pc = "returned" => Emitted = Joined(Len(left))

\* Pairs are listed by their row of left and, within it, by their row of right.
Before(p, q) == p[1] < q[1] \/ (p[1] = q[1] /\ p[2] < q[2])

EmittedInOrder ==
    \A m, n \in DOMAIN result : m < n => Before(result[m], result[n])

(***************************************************************************)
(* When it returns, also when right ran out first, the output is the join, *)
(* in order, and hence with no pair twice.                                 *)
(***************************************************************************)
ReturnsJoin ==
    AllEmitted /\ (pc = "returned" => EmittedInOrder)

\* The join returns.
Returns == <>(pc = "returned")
=============================================================================
