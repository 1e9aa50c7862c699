----------------------------- MODULE FilterScan -----------------------------
(***************************************************************************)
(* A batch under a filter: BatchStatistics::from_batch and can_prune       *)
(* (src/engine/pruning.rs) say whether it may be skipped, and              *)
(* evaluate_expr, which simplifies the filter and evaluates the result,    *)
(* which of its rows survive.                                              *)
(***************************************************************************)
EXTENDS Expressions

CONSTANTS Exprs,     \* the filters
          Batches    \* the batches [columns, selection, numRows]

ASSUME FilterAssumption ==
    /\ Exprs \subseteq Expr
    /\ Batches \subseteq [columns : Seq(Seq(Values)), selection : SUBSET (Nat \ {0}), numRows : Nat]

VARIABLES expr, batch,
          phase,        \* "prune", "simplify", "evaluate", "returned",
                        \* "simplifyPanicked", "evaluatePanicked"
          pruned,       \* what can_prune has returned
          simplified,   \* what simplify has returned
          survivors     \* what evaluate_expr has returned

scanVars == <<expr, batch, phase, pruned, simplified, survivors>>

-----------------------------------------------------------------------------
CountedButLast(col, b) == {col[row] : row \in 1 .. Min({Len(col), b.numRows}) - 1}

\* The values that count for the statistics of a column.
Counted(col, b) == {col[row] : row \in 1 .. Min({Len(col), b.numRows})}

FromBatch(b) ==
    [min |-> [c \in DOMAIN b.columns |->
                IF b.numRows = 0 THEN 0
                ELSE Min(Counted(b.columns[c], b) \cup {IntBound - 1})],
     max |-> [c \in DOMAIN b.columns |->
                IF b.numRows = 0 THEN 0
                ELSE Max(Counted(b.columns[c], b) \cup {-IntBound})],
     count |-> b.numRows]

\* can_prune_col_op
CanPruneColOp(idx, op, val, stats) ==
    /\ idx \in DOMAIN stats.min
    /\ CASE op = "Gt" -> stats.max[idx] <= val
         [] op = "Lt" -> stats.min[idx] >= val
         [] op = "Eq" -> val < stats.min[idx] \/ val > stats.max[idx]
         [] op = "GtEq" -> stats.max[idx] < val
         [] op = "LtEq" -> stats.min[idx] > val
         [] OTHER -> FALSE

IsI64(e) == e.kind = "literal" /\ e.sv.type = "i64"

CanPruneIn(idx, values, stats) ==
    \/ idx \notin DOMAIN stats.min
    \/ /\ values # <<>>
       /\ \A v \in ToSet(values) : v < stats.min[idx] \/ v > stats.max[idx]

PruneStep(prune, e, stats) ==
    CASE e.kind \in {"column", "literal", "not"} -> FALSE
      [] e.kind = "binary" ->
           (CASE e.left.kind = "column" /\ IsI64(e.right) ->
                   CanPruneColOp(e.left.idx, e.op, e.right.sv.v, stats)
              [] e.right.kind = "column" /\ IsI64(e.left) ->
                   CanPruneColOp(e.right.idx, FlippedOp(e.op), e.left.sv.v, stats)
              [] OTHER -> FALSE)
      [] e.kind = "and" -> \E i \in DOMAIN e.children : prune[e.children[i]]
      [] e.kind = "or" -> \A i \in DOMAIN e.children : prune[e.children[i]]
      [] e.kind = "in" -> CanPruneIn(e.idx, e.values, stats)

CanPruneExpr(e, stats) ==
    LET prune[x \in Expr] == PruneStep(prune, x, stats) IN prune[e]

CanPrune(e, stats) == stats.count = 0 \/ CanPruneExpr(e, stats)

-----------------------------------------------------------------------------
ScanInit ==
    /\ expr \in Exprs
    /\ batch \in Batches
    /\ phase = "prune"
    /\ pruned = FALSE
    /\ simplified = expr
    /\ survivors = {}

Prune ==
    /\ phase = "prune"
    /\ pruned' = CanPrune(expr, FromBatch(batch))
    /\ phase' = "simplify"
    /\ UNCHANGED <<expr, batch, simplified, survivors>>

\* evaluate_expr: simplify ...
SimplifyExpr ==
    /\ phase = "simplify"
    /\ IF SimplifyPanics[expr]
       THEN phase' = "simplifyPanicked" /\ UNCHANGED simplified
       ELSE phase' = "evaluate" /\ simplified' = Simplify[expr]
    /\ UNCHANGED <<expr, batch, pruned, survivors>>

\* ... and evaluate.
Evaluate ==
    /\ phase = "evaluate"
    /\ IF EvaluatePanics(simplified, batch)
       THEN phase' = "evaluatePanicked" /\ UNCHANGED survivors
       ELSE phase' = "returned" /\ survivors' = EvaluateImpl(simplified, batch)
    /\ UNCHANGED <<expr, batch, pruned, simplified>>

ScanNext == Prune \/ SimplifyExpr \/ Evaluate

ScanSpec == ScanInit /\ [][ScanNext]_scanVars

-----------------------------------------------------------------------------
(***************************************************************************)
(* The filters the row-by-row evaluation of the tests is a reference for:  *)
(* every leaf compares or computes with a column on the left or an i64     *)
(* literal, and everything above is Not, And and Or.  (A quotient with the *)
(* column on the right, a folded division by zero, literals that are not   *)
(* i64 and binary operators over whole filters are evaluated otherwise.)   *)
(***************************************************************************)
FilterStep(filter, e) ==
    CASE e.kind \in {"column", "literal", "in"} -> TRUE
      [] e.kind = "binary" ->
           \/ e.left.kind = "column" /\ IsI64(e.right)
           \/ e.right.kind = "column" /\ IsI64(e.left) /\ e.op # "Div"
           \/ /\ IsI64(e.left) /\ IsI64(e.right)
              /\ ~(e.op = "Div" /\ e.right.sv.v = 0)
      [] e.kind = "not" -> filter[e.inner]
      [] e.kind \in {"and", "or"} -> \A i \in DOMAIN e.children : filter[e.children[i]]

IsFilter[e \in Expr] == FilterStep(IsFilter, e)

(***************************************************************************)
(* On such a filter, simplification, the fast paths, the bloom filter and  *)
(* the bitmaps between them leave exactly the rows that the row-by-row     *)
(* evaluation leaves.                                                      *)
(***************************************************************************)
MatchesRowByRow ==
    phase = "returned" /\ IsFilter[expr] /\ ~EvaluatePanics(expr, batch) =>
        survivors \cap (1 .. batch.numRows) = {row \in Rows(batch) : EvalRow(expr, batch, row)}

(***************************************************************************)
(* can_prune is conservative: whatever the expression, a batch it skips    *)
(* has no row that evaluate_expr would have let through.                   *)
(***************************************************************************)
PruneSound ==
    phase = "returned" /\ pruned => survivors \cap (1 .. batch.numRows) = {}

(***************************************************************************)
(* Evaluating a simplified filter panics only if evaluating it as written  *)
(* would: no rewrite moves or adds the read of a column that is missing or *)
(* too short, or a division of MIN by -1.  (Folding literals, before that, *)
(* is another matter: see SimplifyPreserves.)                              *)
(***************************************************************************)
PanicsOnlyAsWritten ==
    phase = "evaluatePanicked" /\ IsFilter[expr] => EvaluatePanics(expr, batch)

(***************************************************************************)
(* Late materialisation: whatever the expression is rewritten to, no row   *)
(* survives that was not selected.                                         *)
(***************************************************************************)
SelectionRespected == survivors \subseteq batch.selection

(***************************************************************************)
(* "The result is semantically equivalent to the input": evaluating the    *)
(* simplified expression gives the rows that evaluating the expression     *)
(* itself would give, and simplify does not panic on an expression whose   *)
(* evaluation would not.                                                   *)
(***************************************************************************)
SimplifyPreserves ==
    ~EvaluatePanics(expr, batch) =>
        /\ phase # "simplifyPanicked"
        /\ phase = "returned" => survivors = EvaluateImpl(expr, batch)
=============================================================================
