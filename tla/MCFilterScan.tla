---------------------------- MODULE MCFilterScan ----------------------------
(***************************************************************************)
(* i64 is -4 .. 3 and u32 is 0 .. 3, so -1 and 3 are one u32.  The bloom   *)
(* filter is used from three values on; the two bits of a u32 overlap with *)
(* those of the others, so there are false positives.  The filters are     *)
(* every operator on a column and a literal, three levels of Not, And and  *)
(* Or over a few leaves, and binary operators over whole filters.  Two of  *)
(* the columns are shorter than some of the batches say they are.  An f64  *)
(* has two binary places and saturates at 2.0.                             *)
(***************************************************************************)
EXTENDS FilterScan

MCBloomBits(k) == {k % 3, (k + 1) % 3}

MCFloat == -8 .. 8

MCFloatCompare(op, x, y) == Compare(op, x, y)

MCFloatCompute(op, x, y) ==
    LET exact == CASE op = "Mul" -> (x * y) \div 4
                   [] op = "Div" -> Compute(op, 4 * x, y)
                   [] OTHER -> Compute(op, x, y)
    IN  Max({-8, Min({8, exact})})

N(v) == Literal(I64(v))
Quarters(v) == Literal(F64(v))
AllOps == Comparisons \cup Arithmetic

Simple ==
    UNION {{BinaryOp(op, Column(1), N(v)), BinaryOp(op, N(v), Column(1)),
            BinaryOp(op, N(v), N(-4)), BinaryOp(op, N(v), N(0))} :
              op \in AllOps, v \in {-4, -1, 0, 2}}

BasicFilters ==
    {Literal(Bool(TRUE)), Literal(Bool(FALSE)), Column(2),
     BinaryOp("Gt", Column(1), N(0)), BinaryOp("LtEq", N(1), Column(1)),
     In(1, <<3, 3>>), In(2, <<-1, 2, 1>>)}

OtherLeaves ==
    {Literal(Null), Quarters(4), Quarters(0), In(1, <<>>), In(2, <<3, 1, 0>>), In(1, <<2, 1>>),
     Column(3), In(3, <<1, 2>>), In(3, <<>>),
     BinaryOp("Div", N(-4), N(-1)), BinaryOp("Gt", Column(1), Quarters(0)),
     BinaryOp("Gt", Quarters(4), Quarters(0)), BinaryOp("Add", Quarters(4), Quarters(-4)),
     BinaryOp("Div", Quarters(4), Quarters(8)), BinaryOp("Div", Quarters(4), Quarters(0)),
     BinaryOp("Eq", Literal(Bool(TRUE)), Literal(Bool(FALSE)))}

Junctions(S, T) ==
    {And(<<>>), Or(<<>>)} \cup UNION {{And(<<s>>), Or(<<s>>)} : s \in S}
      \cup UNION {{And(<<s, t>>), Or(<<s, t>>)} : s \in S, t \in T}

Nots(S) == {Not(s) : s \in S}

Once == Nots(BasicFilters) \cup Junctions(BasicFilters, BasicFilters)
Twice == Nots(Once) \cup Junctions(BasicFilters, Once)

Sides ==
    {Column(1), N(2), N(0), And(<<Column(1)>>), Not(Not(Column(2))),
     BinaryOp("Gt", Column(1), N(0))}

Nested == {BinaryOp(op, l, r) : op \in AllOps, l \in Sides, r \in Sides}

MCExprs ==
    Simple \cup BasicFilters \cup OtherLeaves \cup Once \cup Twice \cup Nots(Twice)
      \cup Nested \cup Nots(OtherLeaves)

MCBatches ==
    [columns : {<<<<-4, 0, 3>>, <<1, -1, 2>>>>, <<<<2, 1, 1>>, <<-1, -2, 0>>>>,
                <<<<3, -4>>, <<0>>>>},
     selection : {{1, 2, 3}, {2, 3}},
     numRows : {0, 2, 3}]

\* A column compared with zero, hidden from the fast path by a double negation.
Hidden == {BinaryOp("Gt", Not(Not(Column(1))), N(0))}

\* i64::MIN / -1 of two literals, on which SimplifyPreserves fails as well.
MinByMinusOne == {BinaryOp("Div", N(-4), N(-1))}
=============================================================================
