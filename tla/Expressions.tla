---------------------------- MODULE Expressions ----------------------------
(***************************************************************************)
(* Filter expressions: the tree, its evaluation to a selection bitmap, its *)
(* simplification (src/engine/expr.rs, simplify.rs, bloom.rs), and the     *)
(* row-by-row evaluation the tests compare with.                           *)
(*                                                                         *)
(* A batch is [columns, selection, numRows]: columns are sequences of i64, *)
(* the selection bitmap is the set of its one bits.  Rows are numbered     *)
(* from 1.  The arithmetic of f64 is left to the constants.                *)
(*                                                                         *)
(* What the code computes by recursion over the tree is a function on      *)
(* Expr, defined by one step that is given the function for the parts.     *)
(***************************************************************************)
EXTENDS Int64, SequencesExt

CONSTANTS MaxHeight,      \* of a tree; in the code the call stack bounds it
          SmallList,      \* longest In list without a bloom filter, 8 in the code
          U32Bound,       \* 2^32 in the code
          BloomBits(_),   \* the bits of a u32 in the filter
          Float,          \* f64
          FloatZero,
          FloatCompare(_, _, _), FloatCompute(_, _, _)   \* of an operator

ASSUME ExpressionsAssumption ==
    MaxHeight \in Nat /\ SmallList \in Nat /\ U32Bound \in Nat \ {0}

-----------------------------------------------------------------------------
I64(v) == [type |-> "i64", v |-> v]
F64(v) == [type |-> "f64", v |-> v]
Bool(b) == [type |-> "bool", v |-> IF b THEN 1 ELSE 0]
Null == [type |-> "null", v |-> 0]

Column(idx) == [kind |-> "column", idx |-> idx]
Literal(sv) == [kind |-> "literal", sv |-> sv]
BinaryOp(op, left, right) == [kind |-> "binary", op |-> op, left |-> left, right |-> right]
Not(inner) == [kind |-> "not", inner |-> inner]
And(children) == [kind |-> "and", children |-> children]
Or(children) == [kind |-> "or", children |-> children]
In(idx, values) == [kind |-> "in", idx |-> idx, values |-> values]

Comparisons == {"Eq", "NotEq", "Lt", "LtEq", "Gt", "GtEq"}
Arithmetic == {"Add", "Sub", "Mul", "Div"}

ASSUME FloatAssumption ==
    /\ FloatZero \in Float
    /\ \A op \in Comparisons : \A x, y \in Float : FloatCompare(op, x, y) \in BOOLEAN
    /\ \A op \in Arithmetic : \A x, y \in Float : FloatCompute(op, x, y) \in Float

Values == -IntBound .. IntBound - 1

ScalarValue ==
    [type : {"i64"}, v : Values] \cup [type : {"f64"}, v : Float]
      \cup {Bool(FALSE), Bool(TRUE), Null}

Operands ==
    [kind : {"column"}, idx : Nat \ {0}] \cup [kind : {"literal"}, sv : ScalarValue]

BinariesOf(S) == [kind : {"binary"}, op : Comparisons \cup Arithmetic, left : S, right : S]

\* An operator on two operands counts as a leaf.
Leaves ==
    Operands \cup BinariesOf(Operands)
      \cup [kind : {"in"}, idx : Nat \ {0}, values : Seq(Values)]

\* One level more.
Grown(S) ==
    S \cup BinariesOf(S) \cup [kind : {"not"}, inner : S]
      \cup [kind : {"and", "or"}, children : Seq(S)]

Trees[height \in Nat] == IF height = 0 THEN Leaves ELSE Grown(Trees[height - 1])

Expr == Trees[MaxHeight]

Compare(op, x, y) ==
    CASE op = "Eq" -> x = y
      [] op = "NotEq" -> x # y
      [] op = "Lt" -> x < y
      [] op = "LtEq" -> x <= y
      [] op = "Gt" -> x > y
      [] op = "GtEq" -> x >= y

\* Integer division truncates towards zero.
Quotient(x, y) ==
    LET abs(z) == IF z < 0 THEN -z ELSE z
    IN  IF (x < 0) = (y < 0) THEN abs(x) \div abs(y) ELSE -(abs(x) \div abs(y))

Compute(op, x, y) ==
    CASE op = "Add" -> x + y
      [] op = "Sub" -> x - y
      [] op = "Mul" -> x * y
      [] op = "Div" -> IF y = 0 THEN 0 ELSE Quotient(x, y)

\* x / y panics in every build; the other operators wrap.
DivOverflows(op, x, y) == op = "Div" /\ x = -IntBound /\ y = -1

Truthy(sv) ==
    IF sv.type = "f64" THEN FloatCompare("NotEq", sv.v, FloatZero) ELSE sv.v # 0

\* The operator with its operands exchanged; arithmetic is left as it is.
FlippedOp(op) ==
    CASE op = "Lt" -> "Gt" [] op = "LtEq" -> "GtEq"
      [] op = "Gt" -> "Lt" [] op = "GtEq" -> "LtEq"
      [] OTHER -> op

-----------------------------------------------------------------------------
(***************************************************************************)
(* evaluate_expr_impl.                                                     *)
(***************************************************************************)
Rows(b) == {row \in b.selection : row <= b.numRows}

\* A comparison or a computation on one value; a number is true unless zero.
HoldsOn(op, x, y) ==
    IF op \in Comparisons THEN Compare(op, x, y) ELSE Wrap(Compute(op, x, y)) # 0

EvalColBinLiteral(idx, op, sv, b) ==
    {row \in Rows(b) : sv.type = "i64" /\ HoldsOn(op, b.columns[idx][row], sv.v)}

EvalBinopBitmaps(op, left, right) ==
    CASE op = "Eq" -> left \cap right
      [] op = "NotEq" -> (left \cup right) \ (left \cap right)
      [] op = "Gt" -> left \ right
      [] op = "GtEq" -> left
      [] op = "Lt" -> right \ left
      [] op = "LtEq" -> right
      [] OTHER -> left \cup right

\* v as u32
AsU32(v) == v % U32Bound

\* The filter of the list has all bits of v set.
BloomContains(values, v) ==
    BloomBits(AsU32(v)) \subseteq UNION {BloomBits(AsU32(w)) : w \in ToSet(values)}

IsIn(v, values) ==
    v \in ToSet(values) /\ (Len(values) > SmallList => BloomContains(values, v))

NotWithinRows(b, rows) == (1 .. b.numRows) \ rows

\* Not, within the selection.
NotWithin(b, rows) == b.selection \ rows

EvaluateStep(eval, e, b) ==
    CASE e.kind = "column" -> {row \in Rows(b) : b.columns[e.idx][row] # 0}
      [] e.kind = "literal" -> IF Truthy(e.sv) THEN b.selection ELSE {}
      [] e.kind = "binary" ->
           (CASE e.left.kind = "column" /\ e.right.kind = "literal" ->
                   EvalColBinLiteral(e.left.idx, e.op, e.right.sv, b)
              [] e.left.kind = "literal" /\ e.right.kind = "column" ->
                   EvalColBinLiteral(e.right.idx, FlippedOp(e.op), e.left.sv, b)
              [] OTHER -> EvalBinopBitmaps(e.op, eval[e.left], eval[e.right]))
      [] e.kind = "not" -> NotWithin(b, eval[e.inner])
      [] e.kind = "and" ->
           IF e.children = <<>> THEN b.selection
           ELSE {row \in eval[e.children[1]] :
                   \A i \in DOMAIN e.children : row \in eval[e.children[i]]}
      [] e.kind = "or" -> UNION {eval[e.children[i]] : i \in DOMAIN e.children}
      [] e.kind = "in" -> {row \in Rows(b) : IsIn(b.columns[e.idx][row], e.values)}

Evaluation(b) == LET eval[e \in Expr] == EvaluateStep(eval, e, b) IN eval

EvaluateImpl(e, b) == Evaluation(b)[e]

\* Reading the column for the rows of the batch leaves its bounds.
ReadPanics(idx, b) == ~ (Rows(b) \subseteq DOMAIN b.columns[idx])

ColBinLiteralPanics(idx, op, sv, b) ==
    \/ idx \notin DOMAIN b.columns
    \/ /\ sv.type = "i64"
       /\ \/ ReadPanics(idx, b)
          \/ \E row \in Rows(b) : DivOverflows(op, b.columns[idx][row], sv.v)

\* The evaluation leaves the columns or divides MIN by -1.
PanicsStep(panics, e, b) ==
    CASE e.kind = "column" -> e.idx \notin DOMAIN b.columns \/ ReadPanics(e.idx, b)
      [] e.kind = "literal" -> FALSE
      [] e.kind = "binary" ->
           (CASE e.left.kind = "column" /\ e.right.kind = "literal" ->
                   ColBinLiteralPanics(e.left.idx, e.op, e.right.sv, b)
              [] e.left.kind = "literal" /\ e.right.kind = "column" ->
                   ColBinLiteralPanics(e.right.idx, e.op, e.left.sv, b)
              [] OTHER -> panics[e.left] \/ panics[e.right])
      [] e.kind = "not" -> panics[e.inner]
      [] e.kind \in {"and", "or"} -> \E i \in DOMAIN e.children : panics[e.children[i]]
      [] e.kind = "in" ->
           e.idx \notin DOMAIN b.columns \/ (e.values # <<>> /\ ReadPanics(e.idx, b))

Panics(b) == LET panics[e \in Expr] == PanicsStep(panics, e, b) IN panics

EvaluatePanics(e, b) == Panics(b)[e]

-----------------------------------------------------------------------------
(***************************************************************************)
(* simplify.                                                               *)
(***************************************************************************)
FoldBinary(op, l, r) ==
    LET both(type) == l.type = type /\ r.type = type
        defined == op = "Div" => Truthy(r)
    IN  CASE both("i64") /\ op \in Comparisons -> Literal(Bool(Compare(op, l.v, r.v)))
          [] both("i64") /\ op \in Arithmetic /\ defined ->
               Literal(I64(Wrap(Compute(op, l.v, r.v))))
          [] both("f64") /\ op \in Comparisons -> Literal(Bool(FloatCompare(op, l.v, r.v)))
          [] both("f64") /\ op \in Arithmetic /\ defined ->
               Literal(F64(FloatCompute(op, l.v, r.v)))
          [] both("bool") /\ op \in {"Eq", "NotEq"} -> Literal(Bool(Compare(op, l.v, r.v)))
          [] OTHER -> BinaryOp(op, Literal(l), Literal(r))

Negated(children) == [i \in DOMAIN children |-> Not(children[i])]

PushNotWithoutSwap(s) ==
    CASE s.kind = "not" -> s.inner
      [] s.kind = "and" -> And(Negated(s.children))
      [] s.kind = "or" -> Or(Negated(s.children))
      [] OTHER -> Not(s)

\* Double negation and De Morgan's laws.
PushNot(s) ==
    CASE s.kind = "not" -> s.inner
      [] s.kind = "and" -> Or(Negated(s.children))
      [] s.kind = "or" -> And(Negated(s.children))
      [] OTHER -> Not(s)

IsBool(e, v) == e.kind = "literal" /\ e.sv = Bool(v)

\* And is neutral in TRUE and absorbed by FALSE, Or the other way round.
Junction(kind, parts) ==
    LET neutral == kind = "and"
        kept == FlattenSeq([i \in DOMAIN parts |->
                    IF IsBool(parts[i], neutral) THEN <<>> ELSE <<parts[i]>>])
    IN  IF \E i \in DOMAIN parts : IsBool(parts[i], ~neutral) THEN Literal(Bool(~neutral))
        ELSE CASE kept = <<>> -> Literal(Bool(neutral))
               [] Len(kept) = 1 -> kept[1]
               [] OTHER -> [kind |-> kind, children |-> kept]

SimplifyInNextColumn(idx, values) ==
    LET unique == SetToSeq(ToSet(values))
    IN  CASE unique = <<>> -> Literal(Bool(FALSE))
          [] Len(unique) = 1 -> BinaryOp("Eq", Column(idx + 1), Literal(I64(unique[1])))
          [] OTHER -> In(idx, unique)

\* Without duplicates; in which order does not matter.
SimplifyIn(idx, values) ==
    LET unique == SetToSeq(ToSet(values))
    IN  CASE unique = <<>> -> Literal(Bool(FALSE))
          [] Len(unique) = 1 -> BinaryOp("Eq", Column(idx), Literal(I64(unique[1])))
          [] OTHER -> In(idx, unique)

\* Nested junctions of one kind become one.
Flattened(kind, parts) ==
    FlattenSeq([i \in DOMAIN parts |->
                  IF parts[i].kind = kind THEN parts[i].children ELSE <<parts[i]>>])

SimplifyStep(simplify, e) ==
    CASE e.kind \in {"column", "literal"} -> e
      [] e.kind = "binary" ->
           LET l == simplify[e.left]
               r == simplify[e.right]
           IN  IF l.kind = "literal" /\ r.kind = "literal"
               THEN FoldBinary(e.op, l.sv, r.sv)
               ELSE BinaryOp(e.op, l, r)
      [] e.kind = "not" -> PushNot(simplify[e.inner])
      [] e.kind \in {"and", "or"} ->
           Junction(e.kind, Flattened(e.kind,
                       [i \in DOMAIN e.children |-> simplify[e.children[i]]]))
      [] e.kind = "in" -> SimplifyIn(e.idx, e.values)

Simplify[e \in Expr] == SimplifyStep(Simplify, e)

\* A division is folded that overflows.
SimplifyPanics[e \in Expr] ==
    CASE e.kind \in {"column", "literal", "in"} -> FALSE
      [] e.kind = "binary" ->
           LET l == Simplify[e.left]
               r == Simplify[e.right]
           IN  \/ SimplifyPanics[e.left] \/ SimplifyPanics[e.right]
               \/ /\ l.kind = "literal" /\ r.kind = "literal"
                  /\ l.sv.type = "i64" /\ r.sv.type = "i64"
                  /\ DivOverflows(e.op, l.sv.v, r.sv.v)
      [] e.kind = "not" -> SimplifyPanics[e.inner]
      [] e.kind \in {"and", "or"} -> \E i \in DOMAIN e.children : SimplifyPanics[e.children[i]]

-----------------------------------------------------------------------------
(***************************************************************************)
(* eval_row and eval_value of the tests: one row at a time, and numbers    *)
(* instead of bitmaps below a binary operator.                             *)
(***************************************************************************)
ValueStep(value, e, b, row) ==
    CASE e.kind = "column" -> b.columns[e.idx][row]
      [] e.kind = "literal" -> IF e.sv.type = "i64" THEN e.sv.v ELSE 0
      [] e.kind = "binary" ->
           IF e.op \in Comparisons
           THEN IF Compare(e.op, value[e.left], value[e.right]) THEN 1 ELSE 0
           ELSE Wrap(Compute(e.op, value[e.left], value[e.right]))
      [] OTHER -> 0

EvalValue(e, b, row) ==
    LET value[x \in Expr] == ValueStep(value, x, b, row) IN value[e]

RowStep(holds, e, b, row) ==
    CASE e.kind = "column" -> b.columns[e.idx][row] # 0
      [] e.kind = "literal" -> Truthy(e.sv)
      [] e.kind = "binary" ->
           HoldsOn(e.op, EvalValue(e.left, b, row), EvalValue(e.right, b, row))
      [] e.kind = "not" -> ~holds[e.inner]
      [] e.kind = "and" -> \A i \in DOMAIN e.children : holds[e.children[i]]
      [] e.kind = "or" -> \E i \in DOMAIN e.children : holds[e.children[i]]
      [] e.kind = "in" -> \E i \in DOMAIN e.values : b.columns[e.idx][row] = e.values[i]

EvalRow(e, b, row) ==
    LET holds[x \in Expr] == RowStep(holds, x, b, row) IN holds[e]
=============================================================================
