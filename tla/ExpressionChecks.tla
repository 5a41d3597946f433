--------------------------- MODULE ExpressionChecks ---------------------------
(***************************************************************************)
(* The semantic pass over expressions (expr_ops.cpp): types, conversions,  *)
(* constants and cautions.  Check returns the tree with the casts the pass *)
(* inserts and the values it folds.  The model is of -source 1.4, which    *)
(* does not box, and leaves the floating types out.                        *)
(***************************************************************************)
EXTENDS JavaExpressions
LOCAL INSTANCE SequencesExt

Done(e, type, kids, val, report, warn) ==
  [e EXCEPT !.type = type, !.kids = kids, !.val = val,
            !.err = report \/ \E i \in DOMAIN kids : kids[i].err,
            !.warn = @ \cup warn \cup UNION {kids[i].warn : i \in DOMAIN kids}]
Reported(e) == [e EXCEPT !.type = "none", !.err = TRUE]
-----------------------------------------------------------------------------
(***************************************************************************)
(* Conversions.                                                            *)
(***************************************************************************)
\* Flawed: a char does not widen to a long.
CharIsNotLong(target, source) ==
  \/ target = "long" /\ source \in {"int", "short", "byte"}
  \/ target = "int" /\ source \in {"char", "short", "byte"}
  \/ target = "short" /\ source = "byte"

CanWideningPrimitiveConvert(target, source) ==
  \/ target = "long" /\ source \in Simple
  \/ target = "int" /\ source \in {"char", "short", "byte"}
  \/ target = "short" /\ source = "byte"

CanNarrowingPrimitiveConvert(target, source) ==
  \/ target = "byte" /\ source \in {"long", "int", "char", "short"}
  \/ target = "char" /\ source \in {"long", "int", "short", "byte"}
  \/ target = "short" /\ source \in {"long", "int", "char"}
  \/ target = "int" /\ source = "long"

CanMethodInvocationConvert(target, source) ==
  /\ target # "none"
  /\ \/ source = "none"
     \/ source \in Primitive /\ (source = target \/ CanWideningPrimitiveConvert(target, source))
     \/ /\ IsReference(source) /\ target \notin Primitive
        /\ source = "null" \/ IsSubtype(source, target)

IsIntValueRepresentableInType(e, type) ==
  /\ IsConstant(e) /\ e.type \in Simple
  /\ \/ type \in {"int", "none"}
     \/ type \in Simple /\ Value(e).n \in Lowest(type) .. Highest(type)

CanAssignmentConvert(target, e) ==
  LET uncast(b) == IF b.k = "cast" THEN b.kids[1] ELSE b
  IN  \/ target = "none" \/ e.type = "none"
      \/ CanMethodInvocationConvert(target, e.type)
      \/ e.k = "cond" /\ \A i \in {2, 3} :
           CanMethodInvocationConvert(target, uncast(e.kids[i]).type)
      \/ IsIntValueRepresentableInType(e, target)

CanCastConvert(target, source) ==
  /\ target # "null"
  /\ \/ source = target \/ "none" \in {source, target}
     \/ source \in Primitive /\ ( \/ CanWideningPrimitiveConvert(target, source)
                                  \/ CanNarrowingPrimitiveConvert(target, source) )
     \/ /\ IsReference(source) /\ IsReference(target)
        /\ source = "null" \/ IsSubtype(target, source) \/ IsSubtype(source, target)

CastValue(target, e) ==
  IF target = e.type \/ e.type = "none" \/ ~IsConstant(e) THEN e.val
  ELSE IF e.type = "String" \/ target \notin Primitive \cup {"String"} THEN <<>>
  ELSE IF target = "String" THEN <<Text(Printed(Value(e), e.type))>>
  ELSE <<Whole(Wrapped(Value(e).n, target))>>

\* A cast the compiler generates is told from one of the program.
ConvertToType(e, target) ==
  IF e.type \in {"null", "none", target} THEN e
  ELSE Done([Cast(target, e) EXCEPT !.op = "generated"], target, <<e>>, CastValue(target, e), FALSE, {})

PromoteUnaryNumericExpression(e) ==
  CASE e.type = "none" -> e
    [] e.type # "none" /\ e.type \notin Numeric -> Reported(e)
    [] e.type \in {"byte", "short", "char"} -> ConvertToType(e, "int")
    [] OTHER -> e

\* The common type of two operands, and the operands in it.
BinaryNumericPromotion(l, r) ==
  IF {l.type, r.type} \subseteq Numeric
  THEN LET type == IF "long" \in {l.type, r.type} THEN "long" ELSE "int"
       IN  [type |-> type, l |-> ConvertToType(l, type), r |-> ConvertToType(r, type), bad |-> FALSE]
  ELSE [type |-> "none", l |-> l, r |-> r,
        bad |-> {l.type, r.type} \ Numeric # {"none"}]
-----------------------------------------------------------------------------
(***************************************************************************)
(* The cautions about constants that overflow.  T(-y) wraps around.        *)
(***************************************************************************)
\* Flawed: off by one at the sum of two negative numbers.
AdditionOffByOne(x, y, t) ==
  \/ x = 0 \/ y = 0
  \/ x < 0 /\ y < 0 /\ x >= Lowest(t) - y - 1
  \/ x < 0 /\ y > 0
  \/ x > 0 /\ y < 0
  \/ x > 0 /\ y > 0 /\ x =< Highest(t) - y

CheckIntegerAddition(x, y, t) ==
  \/ x = 0 \/ y = 0
  \/ x < 0 /\ y < 0 /\ x >= Lowest(t) - y
  \/ x < 0 /\ y > 0
  \/ x > 0 /\ y < 0
  \/ x > 0 /\ y > 0 /\ x =< Highest(t) - y
CheckIntegerSubtraction(x, y, t) == CheckIntegerAddition(x, Wrapped(-y, t), t)
CheckIntegerMultiplication(x, y, t) ==
  \/ x \in {0, 1} \/ y \in {0, 1}
  \/ x < 0 /\ y < 0 /\ Wrapped(-x, t) =< Truncated(Highest(t), Wrapped(-y, t))
  \/ x < 0 /\ y > 0 /\ x >= Truncated(Lowest(t), y)
  \/ x > 0 /\ y < 0 /\ y >= Truncated(Lowest(t), x)
  \/ x > 0 /\ y > 0 /\ x =< Highest(t) \div y
CheckIntegerDivision(x, y, t) == y # 0 /\ ~(x = Lowest(t) /\ y = -1)

Safe(op, x, y, t) ==
  CASE op = "+" -> CheckIntegerAddition(x, y, t)
    [] op = "-" -> CheckIntegerSubtraction(x, y, t)
    [] op = "*" -> CheckIntegerMultiplication(x, y, t)
    [] op = "/" -> CheckIntegerDivision(x, y, t)
    [] OTHER -> TRUE

IsZeroConstant(e) == IsConstant(e) /\ e.type \in {"int", "long"} /\ Value(e).n = 0
ShiftCaution(leftType, count) ==
  IF IsConstant(count) /\ Value(count).n \notin 0 .. Bits[IF leftType = "long" THEN "long" ELSE "int"] - 1
  THEN {"shift"} ELSE {}
-----------------------------------------------------------------------------
(***************************************************************************)
(* Utf8LiteralTable::CheckStringConstant: the constants that stand next to *)
(* each other in a concatenation become one, the others "".  The walk is   *)
(* at a node of the tree, given by its path; st is [lits, left, edits]:    *)
(* the literals collected, the leftmost constant's path and form, and what *)
(* is to be changed at which path.                                         *)
(***************************************************************************)
Edited(st, path, field, x) == [st EXCEPT !.edits = Append(@, [path |-> path, field |-> field, x |-> x])]

CollectStrings(st) ==
  LET left == st.left[1]
      done == [st EXCEPT !.lits = <<>>, !.left = <<>>]
  IN  IF Len(st.lits) = 1 /\ left.null THEN done
      ELSE Edited(done, left.path, "val", <<Text(FlattenSeq(st.lits))>>)

RECURSIVE EndsInKnownString(_, _, _)
\* [st, known]: whether e ends in a known string.
EndsInKnownString(e, path, st) ==
  LET known(s) == [st |-> s, known |-> TRUE]
      here == [path |-> path, null |-> FALSE]
      literal(text) ==
        known(IF st.left = <<>>
              THEN [st EXCEPT !.lits = <<text>>, !.left = <<[here EXCEPT !.null = e.k = "null"]>>]
              ELSE Edited([st EXCEPT !.lits = Append(@, text)], path, "val", <<Text(<<>>)>>))
      isLeft(s, i) == s.left # <<>> /\ s.left[1].path = Append(path, i)
      unknown(s) == [st |-> IF s.left = <<>> THEN s ELSE CollectStrings(s), known |-> FALSE]
      goesOn(i) == IsConstant(e.kids[i]) \/ e.kids[i].type = e.type
      wrapped(k) ==
        IF ~k.known THEN unknown(k.st)
        ELSE known(IF isLeft(k.st, 1)
                      /\ IF e.k = "cast" THEN e.kids[1].type = e.type ELSE ~k.st.left[1].null
                   THEN [k.st EXCEPT !.left = <<here>>] ELSE k.st)
      binary(s) ==
        IF ~goesOn(2) THEN unknown(s)
        ELSE LET r == EndsInKnownString(e.kids[2], Append(path, 2), s) IN
             IF ~r.known THEN unknown(r.st)
             ELSE known(IF isLeft(r.st, 1) /\ "null" \notin {e.kids[1].k, e.kids[2].k}
                        THEN [r.st EXCEPT !.left = <<here>>]
                        ELSE Edited(r.st, Append(path, 2), "type", e.type))
  IN  CASE IsConstant(e) -> literal(Value(e).s)
        [] ~IsConstant(e) /\ e.k = "binary" ->
             binary(IF goesOn(1) THEN EndsInKnownString(e.kids[1], Append(path, 1), st).st ELSE st)
        [] ~IsConstant(e) /\ e.k \in {"cast", "paren"} ->
             wrapped(EndsInKnownString(e.kids[1], Append(path, 1), st))
        [] ~IsConstant(e) /\ e.k = "null" -> literal(<<<<"null", 0>>>>)
        [] OTHER -> unknown(st)

RECURSIVE WithEdits(_, _, _)
WithEdits(e, path, edits) ==
  LET mine == SelectSeq(edits, LAMBDA d : d.path = path)
      apply(n, d) == IF d.field = "val" THEN [n EXCEPT !.val = d.x] ELSE [n EXCEPT !.type = d.x]
      below == \E i \in DOMAIN edits : Len(edits[i].path) > Len(path) /\ IsPrefix(path, edits[i].path)
  IN  FoldLeft(apply,
               IF ~below THEN e
               ELSE [e EXCEPT !.kids = [i \in DOMAIN @ |-> WithEdits(@[i], Append(path, i), edits)]],
               mine)

CheckStringConstant(e) ==
  LET walk == EndsInKnownString(e, <<>>, [lits |-> <<>>, left |-> <<>>, edits |-> <<>>])
  IN  WithEdits(e, <<>>, (IF walk.known THEN CollectStrings(walk.st) ELSE walk.st).edits)

StringChecked(e) == IF e.type = "String" /\ ~IsConstant(e) THEN CheckStringConstant(e) ELSE e
-----------------------------------------------------------------------------
(***************************************************************************)
(* The operators, on operands already checked.                             *)
(***************************************************************************)
\* The result of an arithmetic operator on promoted operands.
Folded(e, p) ==
  LET constant == IsConstant(p.l) /\ IsConstant(p.r) /\ p.type \in {"int", "long"}
      zero == e.op \in {"/", "%"} /\ p.type # "none" /\ IsZeroConstant(p.r)
      x == Value(p.l).n
      y == Value(p.r).n
  IN  Done(e, p.type, <<p.l, p.r>>,
           IF constant /\ ~zero THEN <<Whole(Arithmetic(e.op, x, y, p.type))>> ELSE <<>>,
           p.bad,
           IF zero THEN {"zero"}
           ELSE IF constant /\ ~Safe(e.op, x, y, p.type) THEN {"overflow"} ELSE {})

\* An operand of a concatenation.
InString(e) ==
  CASE e.type = "void" -> Reported(e)
    [] e.type = "null" \/ IsConstant(e) -> [e EXCEPT !.val = CastValue("String", e), !.type = "String"]
    [] OTHER -> e
ProcessPLUS(e, l, r) ==
  IF "none" \in {l.type, r.type} THEN Done(e, "none", <<l, r>>, <<>>, FALSE, {})
  ELSE IF "String" \in {l.type, r.type}
  THEN Done(e, IF "void" \in {l.type, r.type} THEN "none" ELSE "String",
            <<InString(l), InString(r)>>, <<>>, FALSE, {})
  ELSE Folded(e, BinaryNumericPromotion(l, r))

ProcessShift(e, l, r) ==
  LET left == PromoteUnaryNumericExpression(l)
      right == IF r.type \in Numeric THEN ConvertToType(r, "int") ELSE r
  IN  IF l.type \in Numeric /\ r.type \in Numeric
      THEN Done(e, left.type, <<left, right>>,
                IF IsConstant(left) /\ IsConstant(right)
                THEN <<Whole(Arithmetic(e.op, Value(left).n, Value(right).n, left.type))>> ELSE <<>>,
                FALSE, ShiftCaution(l.type, right))
      ELSE Done(e, "none", <<l, right>>, <<>>, {l.type, r.type} \ Numeric # {"none"},
                IF r.type \in Numeric THEN ShiftCaution(l.type, right) ELSE {})

ProcessComparison(e, p) ==
  Done(e, IF p.type = "none" THEN "none" ELSE "boolean", <<p.l, p.r>>,
       IF IsConstant(p.l) /\ IsConstant(p.r) /\ p.type # "none"
       THEN <<Whole(Truth(Compared(e.op, Value(p.l).n, Value(p.r).n)))>> ELSE <<>>,
       p.bad, {})

Logical(op, x, y) ==
  CASE op \in {"&", "&&"} -> Truth(x = 1 /\ y = 1)
    [] op \in {"|", "||"} -> Truth(x = 1 \/ y = 1)
    [] op = "^" -> Truth(x # y)
IsConstantTrue(e) == IsConstant(e) /\ e.type = "boolean" /\ Value(e).n # 0
IsConstantFalse(e) == IsConstant(e) /\ e.type = "boolean" /\ Value(e).n = 0

\* &, | and ^ with a boolean operand, && and ||.
ProcessLogical(e, l, r) ==
  Done(e, IF {l.type, r.type} = {"boolean"} THEN "boolean" ELSE "none", <<l, r>>,
       IF IsConstant(l) /\ IsConstant(r)
       THEN <<Whole(Logical(e.op, Truth(IsConstantTrue(l)), Truth(IsConstantTrue(r))))>> ELSE <<>>,
       ~({l.type, r.type} \subseteq {"boolean", "none"}), {})

ProcessEquality(e, l, r) ==
  LET p == IF {l.type, r.type} \subseteq Primitive /\ "boolean" \notin {l.type, r.type}
           THEN BinaryNumericPromotion(l, r) ELSE [l |-> l, r |-> r]
      legal == /\ "void" \notin {l.type, r.type}
               /\ IF {l.type, r.type} \subseteq Primitive
                  THEN ("boolean" \in {l.type, r.type}) => l.type = r.type
                  ELSE \/ CanCastConvert(l.type, r.type)
                       \/ l.type = "null" /\ IsReference(r.type)
  IN  Done(e, IF legal THEN "boolean" ELSE "none", <<p.l, p.r>>,
           IF IsConstant(p.l) /\ IsConstant(p.r)
           THEN <<Whole(Truth((e.op = "==") = (p.l.val = p.r.val)))>> ELSE <<>>,
           ~legal, {})

ProcessBinaryExpression(e, l, r) ==
  CASE e.op = "+" -> ProcessPLUS(e, l, r)
    [] e.op \in {"-", "*", "/", "%"} -> Folded(e, BinaryNumericPromotion(l, r))
    [] e.op \in ShiftOps -> ProcessShift(e, l, r)
    [] e.op \in CompareOps -> ProcessComparison(e, BinaryNumericPromotion(l, r))
    [] e.op \in BitOps /\ "boolean" \notin {l.type, r.type} -> Folded(e, BinaryNumericPromotion(l, r))
    [] e.op \in BitOps /\ "boolean" \in {l.type, r.type} -> ProcessLogical(e, l, r)
    [] e.op \in {"&&", "||"} -> ProcessLogical(e, l, r)
    [] e.op \in EqualOps -> ProcessEquality(e, StringChecked(l), StringChecked(r))

Foldable(p) == IsConstant(p) /\ p.type \in {"int", "long"}
ProcessMinus(e, p) ==
  Done(e, p.type, <<p>>, IF Foldable(p) THEN <<Whole(Wrapped(-Value(p).n, p.type))>> ELSE <<>>,
       FALSE, IF Foldable(p) /\ Value(p).n = Lowest(p.type) THEN {"overflow"} ELSE {})
ProcessTwiddle(e, p) ==
  Done(e, p.type, <<p>>, IF Foldable(p) THEN <<Whole(-Value(p).n - 1)>> ELSE <<>>, FALSE, {})
ProcessNot(e, p) ==
  Done(e, IF p.type = "boolean" THEN "boolean" ELSE "none", <<p>>,
       IF p.type = "boolean" /\ IsConstant(p) THEN <<Whole(Truth(~IsConstantTrue(p)))>> ELSE <<>>,
       p.type \notin {"boolean", "none"}, {})

\* ++ and --, before and after.
ProcessStep(e, p) ==
  LET variable == p.k \in {"local", "static", "field", "element"} /\ ~IsConstant(p)
  IN  Done(e, IF variable /\ p.type \in Numeric THEN p.type ELSE "none", <<p>>, <<>>,
           p.type # "none" /\ ~(variable /\ p.type \in Numeric), {})

ProcessArrayAccess(e, base, i) ==
  LET index == PromoteUnaryNumericExpression(i)
      legal == base.type \in ArrayTypes /\ index.type = "int"
  IN  Done(e, IF legal THEN ElementType(base.type) ELSE "none", <<base, index>>, <<>>,
           ~legal /\ "none" \notin {base.type, index.type}, {})

FindLeastUpperBound(s, t) ==
  CASE s = t \/ t = "null" -> s
    [] s # t /\ s = "null" -> t
    [] s # t /\ {s, t} \subseteq Numeric -> "none"
    [] s # t /\ {s, t} \subseteq Primitive /\ "boolean" \in {s, t} -> "Object"
    [] OTHER -> IF IsSubtype(s, t) THEN t ELSE IF IsSubtype(t, s) THEN s ELSE "Object"

\* The branches of a conditional and their common type.
Branches(a, b) ==
  LET fits(c, d) == d.type \in {"byte", "short", "char"} /\ IsIntValueRepresentableInType(c, d.type)
      in(type) == [type |-> type, l |-> ConvertToType(a, type), r |-> ConvertToType(b, type)]
      lub == FindLeastUpperBound(a.type, b.type)
      p == BinaryNumericPromotion(a, b)
  IN  IF {a.type, b.type} \cap {"none", "void"} # {} THEN [type |-> "none", l |-> a, r |-> b]
      ELSE IF lub # "none" THEN in(lub)
      ELSE IF fits(b, a) THEN in(a.type) ELSE IF fits(a, b) THEN in(b.type)
      ELSE [type |-> p.type, l |-> p.l, r |-> p.r]
ProcessConditionalExpression(e, c, p) ==
  Done(e, p.type, <<c, p.l, p.r>>,
       IF ~(IsConstant(p.l) /\ IsConstant(p.r)) \/ p.type = "none" THEN <<>>
       ELSE IF IsConstantTrue(c) THEN p.l.val ELSE IF IsConstantFalse(c) THEN p.r.val ELSE <<>>,
       c.type \notin {"boolean", "none"} \/ "void" \in {p.l.type, p.r.type}, {})

(***************************************************************************)
(* Assignments.  A compound one promotes its left hand side, which then    *)
(* stands in a cast, but has the type of the variable.                     *)
(***************************************************************************)
Assigned(e, type, l, r, warn) == Done(e, type, <<l, r>>, <<>>, type = "none", warn)
SimpleAssignment(e, l, r) ==
  IF l.type = r.type THEN Assigned(e, l.type, l, r, {})
  ELSE IF CanAssignmentConvert(l.type, r) THEN Assigned(e, l.type, l, ConvertToType(r, l.type), {})
  ELSE Assigned(e, "none", l, r, {})
ArithmeticAssignment(e, l, p) ==
  Assigned(e, IF p.type = "none" THEN "none" ELSE l.type, p.l, p.r,
           IF e.op \in {"/", "%"} /\ IsZeroConstant(p.r) THEN {"zero"} ELSE {})
ShiftAssignment(e, l, r) ==
  Assigned(e, IF {l.type, r.type} \subseteq Numeric THEN l.type ELSE "none",
           PromoteUnaryNumericExpression(l), ConvertToType(r, "int"),
           ShiftCaution(l.type, ConvertToType(r, "int")))
ProcessAssignmentExpression(e, l, r) ==
  IF {l.type, r.type} \cap {"none", "void"} # {} \/ l.k \notin {"local", "static", "field", "element"}
  THEN Done(e, "none", <<l, r>>, <<>>, "void" \in {l.type, r.type} \/ "none" \notin {l.type, r.type}, {})
  ELSE CASE e.op = "" -> SimpleAssignment(e, l, r)
         [] e.op = "+" /\ l.type = "String" ->
              Assigned(e, "String", l,
                       [r EXCEPT !.val = CastValue("String", r),
                                 !.type = IF IsConstant(r) THEN "String" ELSE @], {})
         [] e.op \in ShiftOps -> ShiftAssignment(e, l, r)
         [] e.op \in BitOps /\ l.type = "boolean" ->
              Assigned(e, IF r.type = "boolean" THEN "boolean" ELSE "none", l, r, {})
         [] OTHER -> ArithmeticAssignment(e, l, BinaryNumericPromotion(l, r))
-----------------------------------------------------------------------------
ProcessCastExpression(e, x) ==
  IF CanCastConvert(e.type, x.type) THEN Done(e, e.type, <<x>>, CastValue(e.type, x), FALSE, {})
  ELSE Done(e, "none", <<x>>, <<>>, TRUE, {})

ProcessParenthesized(e, x) ==
  IF x.type = "void" THEN Done(e, "none", <<x>>, <<>>, TRUE, {})
  ELSE Done(e, x.type, <<x>>, x.val, FALSE, {})

\* A call whose method is found when the argument can be converted to its formal parameter.
ProcessMethodInvocation(e, args) ==
  IF \A i \in DOMAIN args : CanMethodInvocationConvert(e.op, args[i].type)
  THEN Done(e, e.type, [i \in DOMAIN args |-> ConvertToType(args[i], e.op)], <<>>, FALSE, {})
  ELSE Done(e, "none", args, <<>>, TRUE, {})

RECURSIVE Check(_)
Check(e) ==
  LET kid(i) == Check(e.kids[i])
      number == e.k = "lit" /\ e.type \in {"int", "long"}
      negated == e.k = "unary" /\ e.op = "-" /\ e.kids[1].k = "lit" /\ e.kids[1].type \in {"int", "long"}
  IN  CASE number -> IF Value(e).n > Highest(e.type) THEN [Reported(e) EXCEPT !.val = <<>>] ELSE e
        [] negated ->
             LET n == Value(e.kids[1]).n
                 type == e.kids[1].type
             IN  IF n > Highest(type) + 1 THEN Done(e, "none", e.kids, <<>>, TRUE, {})
                 ELSE Done(e, type, e.kids, <<Whole(-n)>>, FALSE, {})
        [] e.k \in {"null", "this", "local", "static"} \/ (e.k = "lit" /\ ~number) -> e
        [] e.k = "field" -> LET base == kid(1) IN
             Done(e, IF base.type = "none" THEN "none" ELSE e.type, <<base>>, <<>>, FALSE, {})
        [] e.k = "element" -> ProcessArrayAccess(e, kid(1), kid(2))
        [] e.k = "call" ->
             ProcessMethodInvocation(e, [i \in DOMAIN e.kids |-> StringChecked(kid(i))])
        [] e.k = "cast" -> ProcessCastExpression(e, kid(1))
        [] e.k = "paren" -> ProcessParenthesized(e, kid(1))
        [] e.k = "unary" /\ ~negated ->
             (CASE e.op = "+" -> LET p == PromoteUnaryNumericExpression(kid(1)) IN
                                  Done(e, p.type, <<p>>, p.val, FALSE, {})
                [] e.op = "-" -> ProcessMinus(e, PromoteUnaryNumericExpression(kid(1)))
                [] e.op = "~" -> ProcessTwiddle(e, PromoteUnaryNumericExpression(kid(1)))
                [] e.op = "!" -> ProcessNot(e, kid(1)))
        [] e.k \in {"pre", "post"} -> ProcessStep(e, kid(1))
        [] e.k = "binary" -> ProcessBinaryExpression(e, kid(1), kid(2))
        [] e.k = "cond" ->
             ProcessConditionalExpression(e, kid(1), Branches(StringChecked(kid(2)), StringChecked(kid(3))))
        [] e.k = "assign" -> ProcessAssignmentExpression(e, kid(1), StringChecked(kid(2)))
=============================================================================
