-------------------------- MODULE CompileExpression -------------------------
(***************************************************************************)
(* The Java virtual machine, as far as the code of an expression needs it. *)
(*                                                                         *)
(* A machine m is [pc, stack, bufs, st, fault]: the next instruction; the  *)
(* words on the stack; the texts of the string buffers; the memory, calls  *)
(* and exception of JavaExpressions; and whether the verifier would have *)
(* refused the code.  A word is [k, x], its kind and value; a long is two. *)
(***************************************************************************)
EXTENDS ExpressionChecks, ExpressionCode

Machine0(mem) ==
  [pc |-> 1, stack |-> <<>>, bufs |-> <<>>, fault |-> FALSE,
   st |-> [mem |-> mem, ev |-> <<>>, exc |-> ""]]

KindOf(type) == IF type \in Simple \cup {"boolean"} THEN "int" ELSE "ref"
\* The kinds and the words of a value of a type.
Kinds(type) == CASE type = "long" -> <<"low", "high">> [] type = "void" -> <<>> [] OTHER -> <<KindOf(type)>>
Words(x, type) == [i \in DOMAIN Kinds(type) |-> [k |-> Kinds(type)[i], x |-> x]]
ArrayOf(type) == CHOOSE a \in ArrayTypes : ElementType(a) = type

\* The word at depth d under the top, which is at depth 0.
Under(m, d) == m.stack[Len(m.stack) - d]
Kept(m, n) == SubSeq(m.stack, 1, Len(m.stack) - n)
\* The words do not cut a long in two.
IsPair(a, b) == (a.k = "low" /\ b.k = "high") \/ {a.k, b.k} \cap {"low", "high"} = {}
Single(w) == w.k \notin {"low", "high"}
-----------------------------------------------------------------------------
\* The kinds of the operands of instruction i.
Takes(i) ==
  CASE i.op \in {"STORE", "PUTSTATIC"} -> Kinds(i.t)
    [] i.op = "GETFIELD" -> <<"ref">>
    [] i.op = "PUTFIELD" -> <<"ref">> \o Kinds(i.t)
    [] i.op = "ALOAD" -> <<"ref", "int">>
    [] i.op = "ASTORE" -> <<"ref", "int">> \o Kinds(i.t)
    [] i.op \in {"+", "-", "*", "/", "%"} \cup BitOps -> Kinds(i.t) \o Kinds(i.t)
    [] i.op \in ShiftOps -> Kinds(i.t) \o <<"int">>
    [] i.op = "NEG" -> Kinds(i.t)
    [] i.op \in {"IF", "I2B", "I2C", "I2S", "I2L"} -> <<"int">>
    [] i.op = "L2I" -> Kinds("long")
    [] i.op = "LCMP" -> Kinds("long") \o Kinds("long")
    [] i.op = "IFCMP" -> <<"int", "int">>
    [] i.op = "IFACMP" -> <<"ref", "ref">>
    [] i.op \in {"IFNULL", "IFNONNULL", "CHECKCAST"} -> <<"ref">>
    [] i.op = "CALL" -> IF i.n = 0 THEN <<>> ELSE Kinds(i.s[1][1])
    [] i.op = "INIT" -> <<"new">>
    [] i.op = "INITS" -> <<"new", "ref">>
    [] i.op = "APPEND" -> <<"new">> \o Kinds(i.t)
    [] i.op = "TOSTRING" -> <<"new">>
    [] OTHER -> <<>>
\* The number an instruction can hold.
Encodable(i) ==
  CASE i.op = "ICONST" -> i.n \in -1 .. 5
    [] i.op = "LCONST" -> i.n \in {0, 1}
    [] i.op = "BIPUSH" -> i.n \in Lowest("byte") .. Highest("byte")
    [] i.op \in {"SIPUSH", "IINC"} -> i.n \in Lowest("short") .. Highest("short")
    [] i.op = "LDC" -> i.n \in Lowest("int") .. Highest("int")
    [] OTHER -> TRUE
Shuffles == {"DUP", "DUP_X1", "DUP_X2", "DUP2", "DUP2_X1", "DUP2_X2", "POP", "POP2"}
Depth(op) ==
  CASE op \in {"DUP", "POP"} -> 1 [] op \in {"DUP_X1", "DUP2", "POP2"} -> 2
    [] op \in {"DUP_X2", "DUP2_X1"} -> 3 [] op = "DUP2_X2" -> 4
ShuffleLegal(m, op) ==
  /\ Len(m.stack) >= Depth(op)
  /\ op \in {"DUP", "POP", "DUP_X1", "DUP_X2"} => Single(Under(m, 0))
  /\ op \in {"DUP2", "POP2", "DUP2_X1", "DUP2_X2"} => IsPair(Under(m, 1), Under(m, 0))
  /\ op = "DUP_X1" => Single(Under(m, 1))
  /\ op = "DUP_X2" => IsPair(Under(m, 2), Under(m, 1))
  /\ op = "DUP2_X1" => Single(Under(m, 2))
  /\ op = "DUP2_X2" => IsPair(Under(m, 3), Under(m, 2))
Shuffled(m, op) ==
  LET top(n) == SubSeq(m.stack, Len(m.stack) - n + 1, Len(m.stack))
      copied(n) == Kept(m, Depth(op)) \o top(n) \o top(Depth(op))
  IN  CASE op \in {"POP", "POP2"} -> Kept(m, Depth(op))
        [] op \in {"DUP", "DUP_X1", "DUP_X2"} -> copied(1)
        [] op \in {"DUP2", "DUP2_X1", "DUP2_X2"} -> copied(2)

Legal(m, i) ==
  LET takes == Takes(i) IN
  /\ Encodable(i)
  /\ i.op \in Shuffles => ShuffleLegal(m, i.op)
  /\ Len(m.stack) >= Len(takes)
  /\ \A d \in 1 .. Len(takes) : Under(m, Len(takes) - d).k = takes[d]
  /\ i.op \in {"INIT", "INITS"} => ~m.bufs[Under(m, Len(takes) - 1).x.n].made
  /\ i.op \in {"APPEND", "TOSTRING"} => m.bufs[Under(m, Len(takes) - 1).x.n].made
-----------------------------------------------------------------------------
Goes(m, n, type, x) == [m EXCEPT !.stack = Kept(m, n) \o Words(x, type), !.pc = @ + 1]
Throws(m, exc) == [m EXCEPT !.st.exc = exc]
Sets(m, place, x) == [m EXCEPT !.st.mem[place] = x]
Jumps(m, n, taken, target) ==
  [m EXCEPT !.stack = Kept(m, n), !.pc = IF taken THEN target ELSE @ + 1]
Builds(m, n, buffer, text) ==
  [m EXCEPT !.bufs[buffer] = [made |-> TRUE, text |-> text], !.stack = Kept(m, n), !.pc = @ + 1]
Sign(x, y) == IF x < y THEN -1 ELSE IF x = y THEN 0 ELSE 1

\* Instructions on the memory; x is the value on the top.
Accesses(m, i, n) ==
  LET x == Under(m, 0).x
      place == <<i.v, 0>>
      array == Under(m, n - 1).x
      index == Under(m, n - 2).x.n
      element == <<ArrayOf(i.t), index>>
      wrong == CASE array.n = 0 -> "NullPointer" [] index \notin 0 .. ArrayLength - 1 -> "Bounds" [] OTHER -> ""
  IN  CASE i.op \in {"LOAD", "GETSTATIC"} -> Goes(m, 0, i.t, m.st.mem[place])
        [] i.op \in {"STORE", "PUTSTATIC"} -> Sets(Goes(m, n, "void", x), place, x)
        [] i.op \in {"GETFIELD", "PUTFIELD"} /\ array.n = 0 -> Throws(m, "NullPointer")
        [] i.op = "GETFIELD" /\ array.n # 0 -> Goes(m, n, i.t, m.st.mem[place])
        [] i.op = "PUTFIELD" /\ array.n # 0 -> Sets(Goes(m, n, "void", x), place, x)
        [] i.op \in {"ALOAD", "ASTORE"} /\ wrong # "" -> Throws(m, wrong)
        [] i.op = "ALOAD" /\ wrong = "" -> Goes(m, n, i.t, m.st.mem[element])
        [] i.op = "ASTORE" /\ wrong = "" -> Sets(Goes(m, n, "void", x), element, Converted(x, i.t))
        [] i.op = "IINC" ->
             Sets(Goes(m, 0, "void", x), place, Whole(Wrapped(m.st.mem[place].n + i.n, "int")))

\* Arithmetic, on the operands left and x.
Computes(m, i, n) ==
  LET x == Under(m, 0).x.n
      left == Under(m, n - 1).x.n
      int == IF i.t = "long" THEN "long" ELSE "int"
      gives(type, y) == Goes(m, n, type, Whole(y))
  IN  CASE i.op \in {"/", "%"} /\ x = 0 -> Throws(m, "Arithmetic")
        [] i.op \in {"+", "-", "*"} \cup BitOps \cup ShiftOps \/ (i.op \in {"/", "%"} /\ x # 0) ->
             gives(int, Arithmetic(i.op, left, x, int))
        [] i.op = "NEG" -> gives(int, Wrapped(-x, int))
        [] i.op = "I2L" -> gives("long", x)
        [] i.op = "L2I" -> gives("int", Wrapped(x, "int"))
        [] i.op = "I2B" -> gives("int", Wrapped(x, "byte"))
        [] i.op = "I2C" -> gives("int", Wrapped(x, "char"))
        [] i.op = "I2S" -> gives("int", Wrapped(x, "short"))
        [] i.op = "LCMP" -> gives("int", Sign(left, x))

Branching(m, i, n, at) ==
  LET x == Under(m, 0).x
      left == Under(m, n - 1).x
      to(p) == Jumps(m, n, p, at[i.n])
  IN  CASE i.op = "GOTO" -> to(TRUE)
        [] i.op = "IF" -> to(Compared(i.t, x.n, 0))
        [] i.op = "IFCMP" -> to(Compared(i.t, left.n, x.n))
        [] i.op = "IFACMP" -> to(Compared(i.t, left, x))
        [] i.op = "IFNULL" -> to(x.n = 0)
        [] i.op = "IFNONNULL" -> to(x.n # 0)

Strings(m, i, n) ==
  LET x == Under(m, 0).x
      buffer == Under(m, n - 1).x.n
      fresh == [m EXCEPT !.bufs = Append(@, [made |-> FALSE, text |-> <<>>]), !.pc = @ + 1,
                         !.stack = Append(@, [k |-> "new", x |-> Whole(Len(m.bufs) + 1)])]
      appended == Builds(m, n, buffer, m.bufs[buffer].text \o Printed(x, i.t))
  IN  CASE i.op = "NEW" -> fresh
        [] i.op = "INIT" -> Builds(m, 1, buffer, <<>>)
        [] i.op = "INITS" -> IF x.n = 0 THEN Throws(m, "NullPointer") ELSE Builds(m, 2, buffer, x.s)
        [] i.op = "APPEND" -> [appended EXCEPT !.stack = Append(@, Under(m, n - 1))]
        [] i.op = "TOSTRING" -> Goes(m, 1, "String", Text(m.bufs[buffer].text))

Calls(m, i, n) ==
  LET made == [m EXCEPT !.st.ev = Append(@, <<i.v, IF i.n = 0 THEN Whole(0) ELSE Under(m, 0).x>>)]
  IN  IF i.v \in Failing THEN Throws(made, "Thrown")
      ELSE Goes(made, n, i.t, IF i.t = "void" THEN Whole(0) ELSE Answer[i.v])

\* at gives the places of the labels.
Execute(m, i, at) ==
  LET n == Len(Takes(i)) IN
  CASE ~Legal(m, i) -> [m EXCEPT !.fault = TRUE]
    [] Legal(m, i) /\ i.op \in Shuffles -> [m EXCEPT !.stack = Shuffled(m, i.op), !.pc = @ + 1]
    [] Legal(m, i) /\ i.op \in {"ICONST", "BIPUSH", "SIPUSH", "LDC"} -> Goes(m, 0, "int", Whole(i.n))
    [] Legal(m, i) /\ i.op \in {"LCONST", "LDC2"} -> Goes(m, 0, "long", Whole(i.n))
    [] Legal(m, i) /\ i.op = "SCONST" -> Goes(m, 0, "String", Text(i.s))
    [] Legal(m, i) /\ i.op \in {"THIS", "NULL"} -> Goes(m, 0, "Object", Whole(Truth(i.op = "THIS")))
    [] Legal(m, i) /\ i.op = "CHECKCAST" -> [m EXCEPT !.pc = @ + 1]
    [] Legal(m, i) /\ i.op \in {"LOAD", "STORE", "GETSTATIC", "PUTSTATIC", "GETFIELD", "PUTFIELD", "ALOAD",
                               "ASTORE", "IINC"} -> Accesses(m, i, n)
    [] Legal(m, i) /\ i.op \in {"NEG", "I2L", "L2I", "I2B", "I2C", "I2S", "LCMP", "+", "-", "*", "/", "%"}
                               \cup BitOps \cup ShiftOps -> Computes(m, i, n)
    [] Legal(m, i) /\ i.op \in {"GOTO", "IF", "IFCMP", "IFACMP", "IFNULL", "IFNONNULL"} -> Branching(m, i, n, at)
    [] Legal(m, i) /\ i.op \in {"NEW", "INIT", "INITS", "APPEND", "TOSTRING"} -> Strings(m, i, n)
    [] Legal(m, i) /\ i.op = "CALL" -> Calls(m, i, n)

-----------------------------------------------------------------------------
(***************************************************************************)
(* An expression on its way through the compiler and the virtual machine:  *)
(* it is checked; code is emitted for its value, for its effect or for a   *)
(* test; and the code runs, one instruction at a time, from some memory.   *)
(***************************************************************************)
CONSTANTS Families,      \* sets of expressions
          Memories       \* the memories a run may start from

VARIABLES phase, expr, meaning, checked, mode, gen, start, m

vars == <<phase, expr, meaning, checked, mode, gen, start, m>>

NoMemory == <<>>
Init ==
  /\ \E family \in Families : expr \in family
  /\ phase = "parsed"
  /\ meaning = Typed(expr)
  /\ checked = expr
  /\ mode = "none"
  /\ gen = Generator0
  /\ start = NoMemory
  /\ m = Machine0(start)

CheckExpression ==
  /\ phase = "parsed"
  /\ checked' = Check(expr)
  /\ phase' = IF checked'.err THEN "rejected" ELSE "checked"
  /\ UNCHANGED <<expr, meaning, mode, gen, start, m>>

\* The value of a return statement, an expression statement, or the condition of a statement,
\* here one that leaves an object on the stack if it holds, and null if not.
Used(how) ==
  CASE how = "value" -> StringChecked(checked)
    [] how = "effect" -> checked
    [] how = "test" -> [Conditional(checked, This, Null) EXCEPT !.type = "Object"]
EmitCode(how) ==
  /\ phase = "checked"
  /\ how = "value" => checked.type # "void"
  /\ how = "effect" => checked.k \in {"assign", "pre", "post", "call"}
  /\ how = "test" => checked.type = "boolean"
  /\ mode' = how
  /\ checked' = Used(how)
  /\ gen' = Emit(Generator0, checked', how # "effect")
  /\ phase' = "emitted"
  /\ UNCHANGED <<expr, meaning, start, m>>

Enter ==
  /\ phase = "emitted"
  /\ start' \in Memories
  /\ m' = Machine0(start')
  /\ phase' = "running"
  /\ UNCHANGED <<expr, meaning, checked, mode, gen>>

Stopped == m.fault \/ m.st.exc # "" \/ m.pc > Len(gen.code)
Step ==
  /\ phase = "running"
  /\ ~Stopped
  /\ m' = Execute(m, gen.code[m.pc], gen.at)
  /\ UNCHANGED <<phase, expr, meaning, checked, mode, gen, start>>

Next == 
  \/ CheckExpression
  \/ \E how \in {"value", "effect", "test"} : EmitCode(how)
  \/ Enter
  \/ Step

Spec == Init /\ [][Next]_vars
-----------------------------------------------------------------------------
(***************************************************************************)
(* The semantic pass reports an error in exactly the expressions that the  *)
(* language does not allow, and gives the others the type of the language. *)
(* It is a constant of the compiler if and only if it is one of the        *)
(* language, and then of the same value: the conversions and the folding   *)
(* of expr_ops.cpp, and that of concatenations in lookup.cpp.              *)
(***************************************************************************)
TypedAsSpecified ==
  /\ phase = "rejected" => meaning.type = "none"
  /\ phase = "checked" => checked.type = meaning.type
  /\ (phase = "emitted" /\ mode = "value") => checked.val = meaning.val

RECURSIVE Overflows(_), OfLeast(_)
Overflows(e) ==
  \/ \E i \in DOMAIN e.kids : Overflows(e.kids[i])
  \/ /\ e.k = "binary" /\ e.op \in {"+", "-", "*", "/"} /\ e.type \in Numeric /\ IsConstant(e)
     /\ Exact(e.op, Value(e.kids[1]).n, Value(e.kids[2]).n, e.type) \notin Lowest(e.type) .. Highest(e.type)
  \/ /\ e.k = "unary" /\ e.op = "-" /\ e.kids[1].k # "lit" /\ IsConstant(e)
     /\ Value(e.kids[1]).n = Lowest(e.type)
OfLeast(e) ==
  \/ \E i \in DOMAIN e.kids : OfLeast(e.kids[i])
  \/ IsConstant(e) /\ e.type \in {"int", "long"} /\ Value(e).n = Lowest(e.type)

(***************************************************************************)
(* The compiler cautions against an overflow in a constant expression if   *)
(* and only if there is one, the least numbers aside, whose negation wraps *)
(* around in the checks themselves.                                        *)
(***************************************************************************)
OverflowIsCautioned ==
  (phase = "checked" /\ ~OfLeast(meaning)) => ("overflow" \in checked.warn) = Overflows(meaning)

Outcome == Eval(meaning, [mem |-> start, ev |-> <<>>, exc |-> ""])
Result(r) ==
  CASE mode = "value" -> Words(r.x, meaning.type)
    [] mode = "effect" -> <<>>
    [] mode = "test" -> Words(r.x, "Object")
EndsAs(r) ==
  /\ m.st = r.st
  /\ m.st.exc = "" => m.stack = Result(r)

(***************************************************************************)
(* No instruction finds operands on the stack that are not of its types,   *)
(* cuts a long value in two, uses a string buffer before its constructor,  *)
(* or holds a number that does not fit.  The max_stack of the method has   *)
(* room for every word, and what is left on the stack in the end is what   *)
(* the code generator counts there.                                        *)
(***************************************************************************)
NeverFaults ==
  /\ ~m.fault
  /\ Len(m.stack) =< gen.max
  /\ (phase = "running" /\ m.pc > Len(gen.code)) => Len(m.stack) = gen.depth

(***************************************************************************)
(* The code does what the language says of the expression: the same calls  *)
(* with the same arguments in the same order, the same stores, the same    *)
(* exception, and the same value, in each of the three uses of it.  It is  *)
(* about the shortcuts of the code generator for operands that are 0, 1,   *)
(* true, false or null, which drop or reorder code.  No instruction faults *)
(* on the way.                                                             *)
(***************************************************************************)
CodeMeansExpression ==
  /\ NeverFaults
  /\ (phase = "running" /\ Stopped) => EndsAs(Outcome)
=============================================================================
