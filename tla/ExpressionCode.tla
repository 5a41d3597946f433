---------------------------- MODULE ExpressionCode ----------------------------
(***************************************************************************)
(* The code generator for expressions (codegen/bytecode_expr.cpp,          *)
(* bytecode_ops.cpp, and the branches of bytecode_stmt.cpp), on the trees  *)
(* that ExpressionChecks returns.                                          *)
(*                                                                         *)
(* A generator g is [code, at, goto, label, depth, max]: the instructions  *)
(* so far, the place of each label (0 until it is defined), whether the    *)
(* last instruction is a goto, the place of the last label that has uses,  *)
(* and the words on the stack, now and at most.  An instruction is         *)
(* [op, t, n, s, v]: its name, its type or condition, a number or a label, *)
(* a text, and the name of a variable or a method.  That of a call has in  *)
(* its text the type of the argument.                                      *)
(***************************************************************************)
EXTENDS JavaExpressions
LOCAL INSTANCE SequencesExt

Generator0 == [code |-> <<>>, at |-> <<>>, goto |-> FALSE, label |-> -1, depth |-> 0, max |-> 0]

BranchOps == {"IF", "IFCMP", "IFACMP", "IFNULL", "IFNONNULL", "GOTO"}

\* stack_effect, with the corrections the callers of PutOp make for long values and calls.
StackEffect(op, t) ==
  CASE op \in {"ICONST", "BIPUSH", "SIPUSH", "LDC", "SCONST", "NULL", "THIS", "NEW", "DUP", "DUP_X1",
               "DUP_X2", "I2L"} -> 1
    [] op \in {"LCONST", "LDC2", "DUP2", "DUP2_X1", "DUP2_X2"} -> 2
    [] op \in {"LOAD", "GETSTATIC"} -> TypeWords(t)
    [] op \in {"STORE", "PUTSTATIC", "APPEND"} -> -TypeWords(t)
    [] op = "GETFIELD" -> TypeWords(t) - 1
    [] op = "PUTFIELD" -> -1 - TypeWords(t)
    [] op = "ALOAD" -> TypeWords(t) - 2
    [] op = "ASTORE" -> -2 - TypeWords(t)
    [] op \in {"POP", "IF", "IFNULL", "IFNONNULL", "L2I", "INIT"} \cup ShiftOps -> -1
    [] op \in {"POP2", "IFCMP", "IFACMP", "INITS"} -> -2
    [] op \in {"+", "-", "*", "/", "%", "&", "|", "^"} -> -TypeWords(t)
    [] op = "LCMP" -> -3
    [] OTHER -> 0

ChangeStack(g, i) ==
  LET depth == IF g.depth + i < 0 THEN 0 ELSE g.depth + i
  IN  [g EXCEPT !.depth = depth, !.max = IF i > 0 /\ depth > @ THEN depth ELSE @]

PutOp(g, op, t, n, s, v) ==
  ChangeStack([g EXCEPT !.code = Append(@, [op |-> op, t |-> t, n |-> n, s |-> s, v |-> v]),
                        !.goto = op = "GOTO"],
              StackEffect(op, t))
Op(g, op) == PutOp(g, op, "", 0, <<>>, "")
OpOf(g, op, t) == PutOp(g, op, t, 0, <<>>, "")
Push(g, op, n) == PutOp(g, op, "", n, <<>>, "")
PushText(g, s) == PutOp(g, "SCONST", "", 1, s, "")
Access(g, op, v) == PutOp(g, op, v.type, 0, <<>>, v.name)
Branch(g, op, t, lab) == PutOp(g, op, t, lab, <<>>, "")

NewLabel(g) == [g EXCEPT !.at = Append(@, 0)]
Newest(g) == Len(g.at)

\* A goto to the next instruction is removed, unless another label stands after it.
DefineLabel(g, lab) ==
  LET dead == g.goto /\ Last(g.code).n = lab /\ Len(g.code) # g.label
      code == IF dead THEN Front(g.code) ELSE g.code
      used == \E i \in DOMAIN code : code[i].op \in BranchOps /\ code[i].n = lab
  IN  [g EXCEPT !.code = code, !.goto = @ /\ ~dead, !.at[lab] = Len(code) + 1,
                !.label = IF used THEN Len(code) ELSE @]
-----------------------------------------------------------------------------
LoadImmediateInteger(g, n) ==
  LET put(op) == Push(g, op, n) IN
  CASE n \in -1 .. 5 -> put("ICONST")
    [] n \notin -1 .. 5 /\ n \in Lowest("byte") .. Highest("byte") -> put("BIPUSH")
    [] n \notin (-1 .. 5) \cup (Lowest("byte") .. Highest("byte")) /\ n \in Lowest("short") .. Highest("short") ->
         put("SIPUSH")
    [] n = Highest("char") -> Op(Push(g, "ICONST", -1), "I2C")
    [] OTHER -> put("LDC")

LoadLiteral(g, x, type) ==
  CASE type \in Simple \cup {"boolean"} -> LoadImmediateInteger(g, x.n)
    [] type = "String" -> PushText(g, x.s)
    [] type = "long" /\ x.n \in {0, 1} -> Push(g, "LCONST", x.n)
    [] type = "long" /\ x.n \in -1 .. 5 /\ x.n \notin {0, 1} -> Op(LoadImmediateInteger(g, x.n), "I2L")
    [] type = "long" /\ x.n \notin -1 .. 5 -> Push(g, "LDC2", x.n)

IsZero(e) == IsConstant(e) /\ e.type # "String" /\ Value(e).n = 0
IsOne(e) == IsConstant(e) /\ e.type # "String" /\ Value(e).n = 1

RECURSIVE StripNops(_)
\* The expression without parentheses and casts that need no code.
StripNops(e) ==
  LET sub == StripNops(e.kids[1])
      nop == \/ IsSubtype(sub.type, e.type)
             \/ sub.type = "byte" /\ e.type \in {"short", "int"}
             \/ sub.type \in {"short", "char"} /\ e.type = "int"
             \/ sub.type = "null"
  IN  IF IsConstant(e) THEN e
      ELSE CASE e.k = "paren" -> sub
             [] e.k = "cast" -> IF nop THEN sub ELSE e
             [] OTHER -> e
Ungenerated(e) == IF e.k = "cast" /\ e.op = "generated" THEN e.kids[1] ELSE e
-----------------------------------------------------------------------------
(***************************************************************************)
(* Casts, and operations of an int that stay within a narrow type.         *)
(***************************************************************************)
Half(g, target) ==
  CASE target = "byte" -> Op(g, "I2B") [] target = "char" -> Op(g, "I2C")
    [] target = "short" -> Op(g, "I2S") [] OTHER -> g
EmitCast(g, dest, source) ==
  CASE IsSubtype(source, dest) \/ source = "null" \/ (source \in Simple /\ dest = "int")
         \/ (source = "byte" /\ dest = "short") -> g
    [] source \in Simple /\ dest = "long" -> Op(g, "I2L")
    [] source \in Simple /\ dest \in {"byte", "short", "char"} \ {source} /\ (source # "byte" \/ dest = "char") ->
         Half(g, dest)
    [] source = "long" /\ dest # "long" -> Half(Op(g, "L2I"), dest)
    [] OTHER -> OpOf(g, "CHECKCAST", dest)
-----------------------------------------------------------------------------
RECURSIVE Emit(_, _, _), Concatenate(_, _, _), AppendString(_, _, _), BranchIf(_, _, _, _)
(***************************************************************************)
(* Variables.                                                              *)
(***************************************************************************)
LoadVariable(g, v) == Access(g, IF v.k = "local" THEN "LOAD" ELSE "GETSTATIC", v)
StoreVariable(g, v) == Access(g, IF v.k = "local" THEN "STORE" ELSE "PUTSTATIC", v)

\* The operands of a variable: EmitArrayAccessLhs, EmitFieldAccessLhsBase.
EmitLhs(g, v) ==
  CASE v.k = "element" -> Emit(Emit(g, v.kids[1], TRUE), v.kids[2], TRUE)
    [] v.k = "field" -> Emit(g, v.kids[1], TRUE)
    [] OTHER -> g
\* The value of a variable whose operands stay on the stack.
EmitLhsValue(g, v) ==
  CASE v.k = "element" -> OpOf(Op(EmitLhs(g, v), "DUP2"), "ALOAD", v.type)
    [] v.k = "field" -> Access(Op(EmitLhs(g, v), "DUP"), "GETFIELD", v)
    [] OTHER -> LoadVariable(g, v)
\* Flawed: a copy of one word, whatever the type.
KeepWord(g, v, need) ==
  IF ~need THEN g
  ELSE Op(g, CASE v.k = "element" -> "DUP_X2" [] v.k = "field" -> "DUP_X1" [] OTHER -> "DUP")

\* Keep a copy of the value on the stack under the operands of the variable.
Keep(g, v, need) ==
  LET wide == v.type = "long" IN
  CASE ~need -> g
    [] need /\ v.k = "element" -> Op(g, IF wide THEN "DUP2_X2" ELSE "DUP_X2")
    [] need /\ v.k = "field" -> Op(g, IF wide THEN "DUP2_X1" ELSE "DUP_X1")
    [] OTHER -> Op(g, IF wide THEN "DUP2" ELSE "DUP")
EmitStore(g, v) ==
  CASE v.k = "element" -> OpOf(g, "ASTORE", v.type)
    [] v.k = "field" -> Access(g, "PUTFIELD", v)
    [] OTHER -> StoreVariable(g, v)

(***************************************************************************)
(* ++ and --.                                                              *)
(***************************************************************************)
\* One more or less, in the type of the variable.
Bump(g, type, op) ==
  LET sign == IF op = "++" THEN "+" ELSE "-" IN
  IF type = "long" THEN OpOf(Push(g, "LCONST", 1), sign, "long")
  ELSE Half(OpOf(Push(g, "ICONST", 1), sign, "int"), type)
PutOpIINC(g, name, n) == PutOp(g, "IINC", "int", n, <<>>, name)

EmitPostUnaryExpression(g, e, need) ==
  LET v == StripNops(e.kids[1])
      by == IF e.op = "++" THEN 1 ELSE -1
  IN  IF v.k = "local" /\ v.type = "int"
      THEN PutOpIINC(IF need THEN LoadVariable(g, v) ELSE g, v.name, by)
      ELSE EmitStore(Bump(Keep(EmitLhsValue(g, v), v, need), v.type, e.op), v)
EmitPreUnaryIncrementExpression(g, e, need) ==
  LET v == StripNops(e.kids[1])
      by == IF e.op = "++" THEN 1 ELSE -1
      stepped == PutOpIINC(g, v.name, by)
  IN  IF v.k = "local" /\ v.type = "int" THEN IF need THEN LoadVariable(stepped, v) ELSE stepped
      ELSE EmitStore(Keep(Bump(EmitLhsValue(g, v), v.type, e.op), v, need), v)

EmitPreUnaryExpression(g, e, need) ==
  LET h == Emit(g, e.kids[1], need)
      int == e.type # "long"
  IN  IF ~need \/ e.op = "+" THEN h
      ELSE CASE e.op = "-" -> OpOf(h, "NEG", e.type)
             [] e.op = "~" ->
                  IF int THEN OpOf(Push(h, "ICONST", -1), "^", "int")
                  ELSE OpOf(OpOf(Push(h, "LCONST", 1), "NEG", "long"), "^", "long")
             [] e.op = "!" -> OpOf(Push(h, "ICONST", 1), "^", "int")
(***************************************************************************)
(* Strings.  A concatenation that stands first is built in one buffer.     *)
(***************************************************************************)
Concatenate(g, e, need) ==
  LET l == StripNops(e.kids[1])
      fresh == Op(Op(g, "NEW"), "DUP")
      start ==
        IF l.type = "String" /\ l.k = "binary" /\ ~IsConstant(l) THEN Concatenate(g, l, need)
        ELSE IF ~IsConstant(l) THEN AppendString(Op(fresh, "INIT"), e.kids[1], need)
        ELSE IF Value(l).s = <<>> \/ ~need THEN Op(fresh, "INIT")
        ELSE Op(PushText(fresh, Value(l).s), "INITS")
  IN  AppendString(start, e.kids[2], need)

AppendString(g, e0, need) ==
  LET e == StripNops(e0)
      text == Value(e).s
      type == e0.type
      method(h, t) == OpOf(h, "APPEND", t)
  IN  IF IsConstant(e)
      THEN IF text = <<>> \/ ~need THEN g
           ELSE IF Len(text) = 1 /\ text[1][1] = "char" THEN method(LoadImmediateInteger(g, text[1][2]), "char")
           ELSE method(PushText(g, text), type)
      ELSE IF e.k = "binary" /\ type = "String"
      THEN AppendString(AppendString(g, e.kids[1], need), e.kids[2], need)
      ELSE IF ~need /\ type \in Primitive THEN Emit(g, e, FALSE)
      ELSE method(Emit(g, e, TRUE), type)
(***************************************************************************)
(* Assignments.                                                            *)
(***************************************************************************)
EmitAssignmentExpression(g, e, need) ==
  LET l == e.kids[1]
      r == e.kids[2]
      casted == l.k = "cast"
      v == StripNops(IF casted THEN l.kids[1] ELSE l)
      type == IF casted THEN l.type ELSE e.type
      by == IF e.op = "-" THEN -Value(r).n ELSE Value(r).n
      increments == /\ v.k = "local" /\ ~casted /\ e.type = "int" /\ IsConstant(r) /\ e.op \in {"+", "-"}
                    /\ by \in Lowest("short") .. Highest("short")
      string(h) == AppendString(OpOf(Op(Op(Op(h, "NEW"), "DUP_X1"), "INIT"), "APPEND", "String"), r, TRUE)
      number(h) == OpOf(Emit(IF casted THEN EmitCast(h, l.type, v.type) ELSE h, r, TRUE), e.op,
                        IF type = "long" THEN "long" ELSE "int")
      value == CASE e.op = "" -> Emit(EmitLhs(g, v), r, TRUE)
                 [] e.op = "+" /\ v.type = "String" -> Op(string(EmitLhsValue(g, v)), "TOSTRING")
                 [] OTHER -> LET h == number(EmitLhsValue(g, v)) IN
                             IF casted THEN EmitCast(h, v.type, l.type) ELSE h
      stepped == PutOpIINC(g, v.name, by)
  IN  IF increments THEN IF need THEN LoadVariable(stepped, v) ELSE stepped
      ELSE EmitStore(Keep(value, v, need), v)

(***************************************************************************)
(* Casts, calls and the reading of variables.                              *)
(***************************************************************************)
Discard(g, type, need) ==
  IF need \/ type = "void" THEN g ELSE Op(g, IF type = "long" THEN "POP2" ELSE "POP")

EmitCastExpression(g, e, need) ==
  LET sub == e.kids[1]
      down == IsSubtype(e.type, sub.type)
  IN  IF need \/ down THEN Discard(EmitCast(Emit(g, sub, TRUE), e.type, sub.type), e.type, need)
      ELSE Emit(g, sub, FALSE)

\* CompleteCall takes the argument off the stack and puts the value on it.
EmitMethodInvocation(g, e, need) ==
  LET h == IF e.kids = <<>> THEN g ELSE Emit(g, e.kids[1], TRUE)
      called == PutOp(h, "CALL", e.type, Len(e.kids), <<<<e.op, 0>>>>, e.name)
  IN  Discard(ChangeStack(ChangeStack(called, IF e.kids = <<>> THEN 0 ELSE -TypeWords(e.op)), TypeWords(e.type)),
              e.type, need)

EmitFieldAccess(g, e, need) ==
  Discard(Access(Emit(g, e.kids[1], TRUE), "GETFIELD", e), e.type, need)
EmitArrayAccessRhs(g, e, need) == Discard(OpOf(EmitLhs(g, e), "ALOAD", e.type), e.type, need)
-----------------------------------------------------------------------------
(***************************************************************************)
(* Binary operators.                                                       *)
(***************************************************************************)
Flipped(g) == OpOf(Push(g, "ICONST", 1), "^", "int")
Nought(g, type) == Push(g, IF type = "long" THEN "LCONST" ELSE "ICONST", 0)
Both(g, e, need) == Emit(Emit(g, e.kids[1], need), e.kids[2], need)
\* Code that is skipped when a branch is taken.
Skipping(g, test, cond, e, need) ==
  LET lab == Newest(g) + 1 IN DefineLabel(Emit(BranchIf(NewLabel(g), test, cond, lab), e, need), lab)

\* The effects of the operands only, of which a division by zero is one.
EmitBinaryEffects(g, e) ==
  LET l == e.kids[1]
      r == e.kids[2]
      divide(h, type) == Discard(OpOf(h, e.op, type), type, FALSE)
      number(t) == IF t = "long" THEN "long" ELSE "int"
  IN  CASE e.op \in {"/", "%"} /\ IsZero(r) ->
             divide(Nought(Emit(g, Ungenerated(l), TRUE), Ungenerated(l).type), number(Ungenerated(l).type))
        [] e.op \in {"/", "%"} /\ ~IsConstant(r) -> divide(Both(g, e, TRUE), number(e.type))
        [] e.op \in {"||", "&&"} /\ IsConstant(r) -> Emit(g, l, FALSE)
        [] e.op = "||" /\ ~IsConstant(r) -> IF IsOne(l) THEN g ELSE Skipping(g, l, TRUE, r, FALSE)
        [] e.op = "&&" /\ ~IsConstant(r) -> IF IsZero(l) THEN g ELSE Skipping(g, l, FALSE, r, FALSE)
        [] OTHER -> Both(g, e, FALSE)

\* A comparison starts from false and corrects it.
EmitTruth(g, e) ==
  LET lab == Newest(g) + 1
      false == BranchIf(Push(NewLabel(g), "ICONST", 0), e, FALSE, lab)
  IN  DefineLabel(Push(Op(false, "POP"), "ICONST", 1), lab)
EmitOperator(g, e) ==
  CASE e.kids[1].type = "boolean" /\ e.op = "!=" -> OpOf(Both(g, e, TRUE), "^", "int")
    [] e.kids[1].type = "boolean" /\ e.op = "==" -> Flipped(OpOf(Both(g, e, TRUE), "^", "int"))
    [] e.kids[1].type # "boolean" /\ e.op \in EqualOps -> EmitTruth(g, e)
    [] e.op \in CompareOps \cup {"&&", "||"} -> EmitTruth(g, e)
    [] OTHER -> OpOf(Both(g, e, TRUE), e.op, IF e.type = "long" THEN "long" ELSE "int")

\* An operand 1 or true on the right, 0 or false on the right, and so on the left.
EmitRightOne(g, e) ==
  LET l == e.kids[1]
      true == IsOne(e.kids[2]) /\ e.kids[2].type = "boolean"
  IN  CASE IsOne(e.kids[2]) /\ e.op \in {"*", "/"} -> Emit(g, l, TRUE)
        [] true /\ e.op \in {"==", "&&", "&"} -> Emit(g, l, TRUE)
        [] true /\ e.op \in {"||", "|"} -> Push(Emit(g, l, FALSE), "ICONST", 1)
        [] true /\ e.op \in {"!=", "^"} -> Flipped(Emit(g, l, TRUE))
        [] OTHER -> EmitOperator(g, e)
EmitRightZero(g, e) ==
  LET l == Ungenerated(e.kids[1])
      zero == IsZero(e.kids[2])
  IN  CASE zero /\ e.op = "==" /\ l.type = "boolean" -> Flipped(Emit(g, l, TRUE))
        [] zero /\ ( \/ e.op \in {"+", "-", "|", "^", "||"} \cup ShiftOps
                     \/ e.op = "!=" /\ l.type = "boolean" ) -> Emit(g, e.kids[1], TRUE)
        [] zero /\ e.op \in {"*", "&", "&&"} -> Nought(Emit(g, l, FALSE), e.type)
        [] OTHER -> EmitRightOne(g, e)
EmitLeftOne(g, e) ==
  LET r == e.kids[2]
      true == IsOne(e.kids[1]) /\ e.kids[1].type = "boolean"
  IN  CASE IsOne(e.kids[1]) /\ e.op = "*" -> Emit(g, r, TRUE)
        [] true /\ e.op \in {"==", "&&", "&"} -> Emit(g, r, TRUE)
        [] true /\ e.op = "|" -> Push(Emit(g, r, FALSE), "ICONST", 1)
        [] true /\ e.op = "||" -> Push(g, "ICONST", 1)
        [] true /\ e.op \in {"!=", "^"} -> Flipped(Emit(g, r, TRUE))
        [] OTHER -> EmitRightZero(g, e)
EmitLeftZero(g, e) ==
  LET r == Ungenerated(e.kids[2])
      zero == IsZero(e.kids[1])
  IN  CASE zero /\ e.op = "&&" -> Push(g, "ICONST", 0)
        [] zero /\ e.op = "==" /\ r.type = "boolean" -> Flipped(Emit(g, r, TRUE))
        [] zero /\ ( \/ e.op \in {"+", "|", "^", "||"}
                     \/ e.op = "!=" /\ r.type = "boolean" ) -> Emit(g, e.kids[2], TRUE)
        [] zero /\ e.op \in {"*", "&"} \cup ShiftOps -> Nought(Emit(g, r, FALSE), e.type)
        [] zero /\ e.op = "-" -> OpOf(Emit(g, e.kids[2], TRUE), "NEG", e.type)
        [] OTHER -> EmitLeftOne(g, e)
EmitBinaryExpression(g, e, need) ==
  CASE e.type = "String" -> Op(Concatenate(g, e, need), IF need THEN "TOSTRING" ELSE "POP")
    [] e.type # "String" /\ ~need -> EmitBinaryEffects(g, e)
    [] e.type # "String" /\ need -> EmitLeftZero(g, e)
-----------------------------------------------------------------------------
(***************************************************************************)
(* The conditional operator.                                               *)
(***************************************************************************)
\* One branch is 0 or 1, put on the stack before the test and replaced by the other.
EmitCorrected(g, test, cond, constant, e, need) ==
  LET lab == Newest(g) + 1
      h == NewLabel(g)
      start == IF need THEN Push(h, "ICONST", Value(constant).n) ELSE h
      tested(b) == IF need THEN Op(b, "POP") ELSE b
  IN  DefineLabel(Emit(tested(BranchIf(start, test, cond, lab)), e, need), lab)
EmitTwoBranches(g, e, need) ==
  LET false == Newest(g) + 1
      end == Newest(g) + 2
      branch == Emit(BranchIf(NewLabel(NewLabel(g)), e.kids[1], FALSE, false), e.kids[2], need)
      other == ChangeStack(Branch(branch, "GOTO", "", end), IF need THEN -TypeWords(e.type) ELSE 0)
  IN  DefineLabel(Emit(DefineLabel(other, false), e.kids[3], need), end)
\* A choice of two constants.
EmitConstantBranches(g, e, need) ==
  LET test == e.kids[1]
      a == Value(e.kids[2])
      b == Value(e.kids[3])
      int == e.type \in Simple \cup {"boolean"}
  IN  CASE ~need -> Emit(g, test, FALSE)
        [] need /\ a = b -> Emit(Emit(g, test, FALSE), e.kids[2], TRUE)
        [] need /\ int /\ a.n = 1 /\ b.n = 0 -> Emit(g, test, TRUE)
        [] need /\ int /\ a.n = b.n + 1 /\ b.n # 0 ->
             OpOf(Emit(Emit(g, test, TRUE), e.kids[3], TRUE), "+", "int")
        [] need /\ int /\ a.n = b.n - 1 ->
             OpOf(Emit(Emit(g, e.kids[3], TRUE), test, TRUE), "-", "int")
        [] OTHER -> EmitTwoBranches(g, e, need)
EmitNull(g, need) == IF need THEN Op(g, "NULL") ELSE g
EmitConditionalExpression(g, e, need) ==
  LET test == e.kids[1]
      a == e.kids[2]
      b == e.kids[3]
      null == e.type = "null" /\ ~IsConstant(test)
      chosen(c) == IsConstant(c) /\ e.type # "null" /\ ~IsConstant(test)
      bit(c) == e.type \in Simple \cup {"boolean"} /\ (IsOne(c) \/ IsZero(c))
  IN  CASE IsConstant(test) -> Emit(g, IF IsZero(test) THEN b ELSE a, need)
        [] null /\ a.k = "null" /\ b.k = "null" -> EmitNull(Emit(g, test, FALSE), need)
        [] null /\ a.k # "null" /\ b.k = "null" -> EmitNull(Skipping(g, test, FALSE, a, FALSE), need)
        [] null /\ a.k = "null" /\ b.k # "null" -> EmitNull(Skipping(g, test, TRUE, b, FALSE), need)
        [] chosen(a) /\ IsConstant(b) -> EmitConstantBranches(g, e, need)
        [] chosen(a) /\ ~IsConstant(b) /\ bit(a) -> EmitCorrected(g, test, TRUE, a, b, need)
        [] chosen(b) /\ ~IsConstant(a) /\ bit(b) -> EmitCorrected(g, test, FALSE, b, a, need)
        [] OTHER -> EmitTwoBranches(g, e, need)
-----------------------------------------------------------------------------
(***************************************************************************)
(* A branch to a label if an expression is cond.                           *)
(***************************************************************************)
GotoIf(g, p, lab) == IF p THEN Branch(g, "GOTO", "", lab) ELSE g
\* Two branches, the first of which goes to lab or past the second.
BranchIfEither(g, a, first, b, cond, lab, over) ==
  LET skip == Newest(g) + 1
      h == NewLabel(g)
  IN  IF over THEN DefineLabel(BranchIf(BranchIf(h, a, first, skip), b, cond, lab), skip)
      ELSE BranchIf(BranchIf(g, a, first, lab), b, cond, lab)

BranchIfConditional(g, e, cond, lab) ==
  LET test == e.kids[1]
      a == e.kids[2]
      b == e.kids[3]
      other == Newest(g) + 1
      end == Newest(g) + 2
      first == BranchIf(BranchIf(NewLabel(NewLabel(g)), test, FALSE, other), a, cond, lab)
      second(h) == BranchIf(DefineLabel(Branch(h, "GOTO", "", end), other), b, cond, lab)
      bit(c) == IsOne(c) \/ IsZero(c)
      free == ~IsConstant(test)
  IN  CASE IsConstant(test) -> BranchIf(g, IF IsZero(test) THEN b ELSE a, cond, lab)
        [] free /\ bit(a) /\ bit(b) ->
             IF IsOne(a) = IsOne(b) THEN GotoIf(Emit(g, test, FALSE), cond = IsOne(a), lab)
             ELSE BranchIf(g, test, cond = IsOne(a), lab)
        [] free /\ bit(a) /\ ~bit(b) -> BranchIfEither(g, test, TRUE, b, cond, lab, cond # IsOne(a))
        [] free /\ ~bit(a) /\ bit(b) -> BranchIfEither(g, test, FALSE, a, cond, lab, cond # IsOne(b))
        [] OTHER -> DefineLabel(second(first), end)

\* && is over when an operand is false, || when one is true; e is on its stripped operands.
BranchIfShort(g, e, cond, lab) ==
  LET l == e.kids[1]
      r == e.kids[2]
      over == e.op = "||"
      ends(c) == IF over THEN IsOne(c) ELSE ~IsOne(c)
  IN  CASE IsConstant(l) -> IF ends(l) THEN GotoIf(g, cond = over, lab) ELSE BranchIf(g, r, cond, lab)
        [] ~IsConstant(l) /\ IsConstant(r) ->
             IF ends(r) THEN GotoIf(Emit(g, l, FALSE), cond = over, lab) ELSE BranchIf(g, l, cond, lab)
        [] OTHER -> BranchIfEither(g, l, over, r, cond, lab, cond # over)

If(g, op, test, cond, lab) ==
  Branch(g, op, IF cond THEN test
                ELSE CASE test = "==" -> "!=" [] test = "!=" -> "==" [] test = "<" -> ">="
                       [] test = "<=" -> ">" [] test = ">" -> "<=" [] test = ">=" -> "<", lab)
\* Flawed: 0 < x is compiled as x < 0.
Unmirrored(test) == test

Mirrored(test) ==
  CASE test = "<" -> ">" [] test = "<=" -> ">=" [] test = ">" -> "<" [] test = ">=" -> "<=" [] OTHER -> test

\* The operand that is not the constant c accepts.
Other(e, c(_)) == IF c(e.kids[1]) THEN e.kids[2] ELSE e.kids[1]
Either(e, c(_)) == c(e.kids[1]) \/ c(e.kids[2])

BranchIfEqual(g, e, cond, lab) ==
  LET l == e.kids[1]
      r == e.kids[2]
      equal == e.op = "=="
      test == IF equal THEN "==" ELSE "!="
      nulls == Emit(Emit(g, l, l.type # "null"), r, r.type # "null")
      int == l.type \in Simple
  IN  CASE "null" \in {l.type, r.type} ->
             IF l.type = r.type THEN GotoIf(nulls, cond = equal, lab)
             ELSE Branch(nulls, IF cond = equal THEN "IFNULL" ELSE "IFNONNULL", "", lab)
        [] l.type = "boolean" /\ Either(e, IsOne) -> BranchIf(g, Other(e, IsOne), cond = equal, lab)
        [] l.type = "boolean" /\ ~Either(e, IsOne) /\ Either(e, IsZero) ->
             BranchIf(g, Other(e, IsZero), cond # equal, lab)
        [] int /\ Either(e, IsZero) -> If(Emit(g, Other(e, IsZero), TRUE), "IF", test, cond, lab)
        [] int /\ ~Either(e, IsZero) -> If(Both(g, e, TRUE), "IFCMP", test, cond, lab)
        [] l.type = "boolean" /\ ~Either(e, IsOne) /\ ~Either(e, IsZero) ->
             If(Both(g, e, TRUE), "IFCMP", test, cond, lab)
        [] l.type = "long" /\ r.type # "null" -> If(Op(Both(g, e, TRUE), "LCMP"), "IF", test, cond, lab)
        [] OTHER -> If(Both(g, e, TRUE), "IFACMP", test, cond, lab)

\* | and & of booleans; e is the expression itself, b the same on stripped operands.
BranchIfBits(g, e, b, cond, lab) ==
  CASE e.op = "|" /\ Either(b, IsZero) -> BranchIf(g, Other(b, IsZero), cond, lab)
    [] e.op = "|" /\ ~Either(b, IsZero) /\ Either(b, IsOne) ->
         GotoIf(Emit(g, Other(b, IsOne), FALSE), cond, lab)
    [] e.op = "&" /\ Either(b, IsOne) -> BranchIf(g, Other(b, IsOne), cond, lab)
    [] e.op = "&" /\ ~Either(b, IsOne) /\ Either(b, IsZero) ->
         GotoIf(Emit(g, Other(b, IsZero), FALSE), ~cond, lab)
    [] OTHER -> If(Emit(g, e, TRUE), "IF", "!=", cond, lab)

BranchIfCompared(g, e, cond, lab) ==
  LET l == e.kids[1]
      r == e.kids[2]
  IN  CASE l.type = "long" -> If(Op(Both(g, e, TRUE), "LCMP"), "IF", e.op, cond, lab)
        [] l.type # "long" /\ IsZero(l) -> If(Emit(g, r, TRUE), "IF", Mirrored(e.op), cond, lab)
        [] l.type # "long" /\ ~IsZero(l) /\ IsZero(r) -> If(Emit(g, l, TRUE), "IF", e.op, cond, lab)
        [] OTHER -> If(Both(g, e, TRUE), "IFCMP", e.op, cond, lab)

BranchIfBinary(g, e, cond, lab) ==
  LET b == [e EXCEPT !.kids = <<StripNops(@[1]), StripNops(@[2])>>] IN
  CASE e.op \in {"&&", "||"} -> BranchIfShort(g, b, cond, lab)
    [] e.op \in {"^", "==", "!="} -> BranchIfEqual(g, b, cond, lab)
    [] e.op \in {"&", "|"} -> BranchIfBits(g, e, b, cond, lab)
    [] e.op \in CompareOps -> BranchIfCompared(g, b, cond, lab)

BranchIfStripped(g, e, cond, lab) ==
  CASE IsConstant(e) -> GotoIf(g, IsZero(e) # cond, lab)
    [] ~IsConstant(e) /\ e.k = "unary" -> BranchIf(g, e.kids[1], ~cond, lab)
    [] ~IsConstant(e) /\ e.k = "cond" -> BranchIfConditional(g, e, cond, lab)
    [] ~IsConstant(e) /\ e.k = "binary" -> BranchIfBinary(g, e, cond, lab)
    [] OTHER -> If(Emit(g, e, TRUE), "IF", "!=", cond, lab)
BranchIf(g, e, cond, lab) == BranchIfStripped(g, StripNops(e), cond, lab)
-----------------------------------------------------------------------------
EmitStripped(g, e, need) ==
  CASE IsConstant(e) -> IF need THEN LoadLiteral(g, Value(e), e.type) ELSE g
    [] ~IsConstant(e) /\ e.k \in {"local", "static"} -> IF need THEN LoadVariable(g, e) ELSE g
    [] ~IsConstant(e) /\ e.k = "this" -> IF need THEN Op(g, "THIS") ELSE g
    [] ~IsConstant(e) /\ e.k = "null" -> EmitNull(g, need)
    [] ~IsConstant(e) /\ e.k = "field" -> EmitFieldAccess(g, e, need)
    [] ~IsConstant(e) /\ e.k = "element" -> EmitArrayAccessRhs(g, e, need)
    [] ~IsConstant(e) /\ e.k = "call" -> EmitMethodInvocation(g, e, need)
    [] ~IsConstant(e) /\ e.k = "post" -> EmitPostUnaryExpression(g, e, need)
    [] ~IsConstant(e) /\ e.k = "pre" -> EmitPreUnaryIncrementExpression(g, e, need)
    [] ~IsConstant(e) /\ e.k = "unary" -> EmitPreUnaryExpression(g, e, need)
    [] ~IsConstant(e) /\ e.k = "cast" -> EmitCastExpression(g, e, need)
    [] ~IsConstant(e) /\ e.k = "binary" -> EmitBinaryExpression(g, e, need)
    [] ~IsConstant(e) /\ e.k = "cond" -> EmitConditionalExpression(g, e, need)
    [] ~IsConstant(e) /\ e.k = "assign" -> EmitAssignmentExpression(g, e, need)
Emit(g, e, need) == EmitStripped(g, StripNops(e), need)
=============================================================================
