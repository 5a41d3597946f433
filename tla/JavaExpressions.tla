--------------------------- MODULE JavaExpressions --------------------------
(***************************************************************************)
(* The trees of Java expressions, as the parser builds them and the        *)
(* semantic pass completes them, and the arithmetic of the language.       *)
(*                                                                         *)
(* A node is [k, type, op, name, kids, val, err, warn]: its kind; its type,*)
(* "" until it has been checked and "none" after an error; the value of a  *)
(* constant, <<x>>, or <<>>; whether an error was reported in it, and the  *)
(* cautions about it.  A value x is [n, s]: a number (of a boolean, 0 or   *)
(* 1; of a reference, 0 for null), and of a String its text, a sequence of *)
(* pieces <<how, n>>.                                                      *)
(*                                                                         *)
(* Types are boolean, byte, short, char, int, long, String, Object, "C"    *)
(* (a class), arrays of the primitive types, void and null.                *)
(***************************************************************************)
EXTENDS Integers, Sequences, Bitwise

CONSTANT Bits            \* the width of each integer type

ASSUME BitsAssumption ==
  /\ DOMAIN Bits = {"byte", "short", "char", "int", "long"}
  /\ \A t \in DOMAIN Bits : Bits[t] \in Nat \ {0}
  /\ Bits["byte"] < Bits["short"] /\ Bits["short"] = Bits["char"]
  /\ Bits["short"] < Bits["int"] /\ Bits["int"] < Bits["long"]

Whole(n) == [n |-> n, s |-> <<>>]
Text(s) == [n |-> 1, s |-> s]

Node(k, type, op, name, kids) ==
  [k |-> k, type |-> type, op |-> op, name |-> name, kids |-> kids, val |-> <<>>,
   err |-> FALSE, warn |-> {}]

\* A literal of a boolean or a char has a value; one of a number has its digits only.
Literal(type, n) ==
  [Node("lit", type, "", "", <<>>) EXCEPT !.val = <<Whole(n)>>]
StringLiteral(s) == [Node("lit", "String", "", "", <<>>) EXCEPT !.val = <<Text(s)>>]
Null == Node("null", "null", "", "", <<>>)
This == Node("this", "C", "", "", <<>>)
Local(type, name) == Node("local", type, "", name, <<>>)
Static(type, name) == Node("static", type, "", name, <<>>)
\* The name of a final local variable with a constant value.
Constant(type, n) == [Local(type, "constant") EXCEPT !.val = <<Whole(n)>>]
Field(base, type, name) == Node("field", type, "", name, <<base>>)
Element(base, index) == Node("element", "", "", "", <<base, index>>)
\* A call of a static method; the one argument, if any, is of type op.
Invoke(type, name, formal, args) == Node("call", type, formal, name, args)
Cast(type, e) == Node("cast", type, "", "", <<e>>)
Unary(op, e) == Node("unary", "", op, "", <<e>>)
PreStep(op, e) == Node("pre", "", op, "", <<e>>)
PostStep(op, e) == Node("post", "", op, "", <<e>>)
Binary(op, l, r) == Node("binary", "", op, "", <<l, r>>)
Conditional(c, a, b) == Node("cond", "", "", "", <<c, a, b>>)
Assignment(op, l, r) == Node("assign", "", op, "", <<l, r>>)
Paren(e) == Node("paren", "", "", "", <<e>>)

IsConstant(e) == e.val # <<>>
Value(e) == e.val[1]
-----------------------------------------------------------------------------
Simple == {"byte", "short", "char", "int"}      \* IsSimpleIntegerValueType, and IsIntegral
Numeric == Simple \cup {"long"}
Primitive == Numeric \cup {"boolean"}
ArrayTypes == {"boolean[]", "byte[]", "short[]", "char[]", "int[]", "long[]"}
ElementType(array) ==
  CASE array = "boolean[]" -> "boolean" [] array = "byte[]" -> "byte" [] array = "short[]" -> "short"
    [] array = "char[]" -> "char" [] array = "int[]" -> "int" [] array = "long[]" -> "long"
    [] OTHER -> "none"
IsReference(type) == type \in ArrayTypes \cup {"String", "Object", "C", "null"}
\* TypeSymbol::IsSubtype.
IsSubtype(s, t) == s = t \/ (t = "Object" /\ s \in ArrayTypes \cup {"String", "C"})
TypeWords(type) == CASE type = "long" -> 2 [] type = "void" -> 0 [] OTHER -> 1
-----------------------------------------------------------------------------
Modulus(t) == 2 ^ Bits[t]
Lowest(t) == IF t = "char" THEN 0 ELSE -(2 ^ (Bits[t] - 1))
Highest(t) == IF t = "char" THEN Modulus("char") - 1 ELSE 2 ^ (Bits[t] - 1) - 1
\* The number of type t with the low bits of n.
Wrapped(n, t) == ((n - Lowest(t)) % Modulus(t)) + Lowest(t)
Unsigned(n, t) == n % Modulus(t)

Magnitude(n) == IF n < 0 THEN -n ELSE n
Truncated(x, y) ==
  LET q == Magnitude(x) \div Magnitude(y) IN IF (x < 0) = (y < 0) THEN q ELSE -q

\* The exact result of an operator; a shift of an int by its whole width is one by nothing.
Exact(op, x, y, t) ==
  CASE op = "+" -> x + y [] op = "-" -> x - y [] op = "*" -> x * y
    [] op = "/" -> Truncated(x, y)
    [] op = "%" -> x - y * Truncated(x, y)
    [] op = "&" -> Unsigned(x, t) & Unsigned(y, t)
    [] op = "|" -> Unsigned(x, t) | Unsigned(y, t)
    [] op = "^" -> Unsigned(x, t) ^^ Unsigned(y, t)
    [] op = "<<" -> (Unsigned(x, t) * 2 ^ (y % Bits[t])) % Modulus(t)
    [] op = ">>" -> x \div 2 ^ (y % Bits[t])
    [] op = ">>>" -> Unsigned(x, t) \div 2 ^ (y % Bits[t])

\* The operators of the language and of the machine, but for / and % by zero.
Arithmetic(op, x, y, t) == Wrapped(Exact(op, x, y, t), t)

Compared(op, x, y) ==
  CASE op = "==" -> x = y [] op = "!=" -> x # y [] op = "<" -> x < y
    [] op = "<=" -> x =< y [] op = ">" -> x > y [] op = ">=" -> x >= y
Truth(p) == IF p THEN 1 ELSE 0

ShiftOps == {"<<", ">>", ">>>"}
CompareOps == {"<", "<=", ">", ">="}
EqualOps == {"==", "!="}
BitOps == {"&", "|", "^"}

\* How a value of a type is printed.
Printed(x, type) ==
  CASE type = "String" -> IF x.n = 0 THEN <<<<"null", 0>>>> ELSE x.s
    [] type = "char" -> <<<<"char", x.n>>>>
    [] type = "boolean" -> <<<<"boolean", x.n>>>>
    [] type = "null" -> <<<<"null", 0>>>>
    [] OTHER -> <<<<"digits", x.n>>>>

-----------------------------------------------------------------------------
(***************************************************************************)
(* What the Java language says of an expression (JLS chapters 5 and 15,    *)
(* before boxing): Typed gives it types and constant values, Eval runs it. *)
(*                                                                         *)
(* A state of a run is [mem, ev, exc]: the memory, a function of places;   *)
(* the calls made so far; the class of the exception on its way, or "".    *)
(* The place of a variable or a field is <<name, 0>>, that of an element   *)
(* of the one array of a type <<type, index>>.                             *)
(***************************************************************************)
CONSTANTS Answer,        \* the value each method returns
          Failing,       \* the methods that throw an exception instead
          ArrayLength

WiderThan ==
  [byte |-> {"short", "int", "long"}, short |-> {"int", "long"}, char |-> {"int", "long"},
   int |-> {"long"}, long |-> {}, boolean |-> {}]
Narrow == {"byte", "short", "char"}

\* JLS 5.3: a value of type s may be passed as one of type t.
Passes(s, t) ==
  \/ s = t
  \/ s \in Primitive /\ t \in WiderThan[s]
  \/ IsReference(s) /\ IsReference(t) /\ (s = "null" \/ IsSubtype(s, t))
\* JLS 5.2: and so may a constant be assigned that a narrow type can hold.
Holds(t, e) ==
  /\ t \in Narrow /\ e.type \in Narrow \cup {"int"} /\ IsConstant(e)
  /\ Value(e).n \in Lowest(t) .. Highest(t)
Assignable(e, t) == Passes(e.type, t) \/ Holds(t, e)
\* JLS 5.5.
Castable(s, t) ==
  \/ {s, t} \subseteq Numeric \/ {s, t} = {"boolean"}
  \/ IsReference(s) /\ IsReference(t) /\ (s = "null" \/ IsSubtype(s, t) \/ IsSubtype(t, s))
\* JLS 5.6.
Promotion(types) == IF "long" \in types THEN "long" ELSE "int"
-----------------------------------------------------------------------------
TypeOfBinary(op, s, t) ==
  LET types == {s, t} IN
  CASE "none" \in types \/ ("void" \in types) -> "none"
    [] op = "+" /\ "String" \in types /\ "void" \notin types -> "String"
    [] op \in {"+", "-", "*", "/", "%"} /\ types \subseteq Numeric -> Promotion(types)
    [] op \in ShiftOps /\ types \subseteq Numeric -> Promotion({s})
    [] op \in BitOps /\ types \subseteq Numeric -> Promotion(types)
    [] op \in BitOps \cup {"&&", "||"} /\ types = {"boolean"} -> "boolean"
    [] op \in CompareOps /\ types \subseteq Numeric -> "boolean"
    [] op \in EqualOps /\ (Castable(s, t) \/ Castable(t, s)) -> "boolean"
    [] OTHER -> "none"

TypeOfUnary(op, t) ==
  CASE op = "!" /\ t = "boolean" -> "boolean"
    [] op \in {"+", "-", "~"} /\ t \in Numeric -> Promotion({t})
    [] OTHER -> "none"

\* JLS 15.25, with the common supertype of two references of JLS 5.1.10.
TypeOfConditional(c, a, b) ==
  LET types == {a.type, b.type} IN
  CASE c.type # "boolean" \/ types \cap {"none", "void"} # {} -> "none"
    [] c.type = "boolean" /\ a.type = b.type -> a.type
    [] c.type = "boolean" /\ types = {"byte", "short"} -> "short"
    [] c.type = "boolean" /\ types \subseteq Numeric /\ a.type # b.type /\ types # {"byte", "short"} ->
         IF Holds(a.type, b) /\ b.type = "int" THEN a.type
         ELSE IF Holds(b.type, a) /\ a.type = "int" THEN b.type
         ELSE Promotion(types)
    [] OTHER -> IF \E t \in types : t \in Primitive THEN "none"
                ELSE IF Passes(a.type, b.type) THEN b.type
                ELSE IF Passes(b.type, a.type) THEN a.type ELSE "Object"

IsVariable(e) == e.k \in {"local", "static", "field", "element"} /\ e.name # "constant"

TypeOfAssignment(op, l, r) ==
  CASE ~IsVariable(l) \/ l.type = "none" \/ r.type \in {"none", "void"} -> "none"
    [] op = "" -> IF Assignable(r, l.type) THEN l.type ELSE "none"
    [] op = "+" /\ l.type = "String" -> "String"
    [] OTHER -> LET t == TypeOfBinary(op, l.type, r.type) IN
                IF t # "none" /\ Castable(t, l.type) THEN l.type ELSE "none"

TypeOf(e, kids) ==
  LET t(i) == kids[i].type IN
  CASE e.k \in {"null", "this", "local", "static"} -> e.type
    [] e.k = "lit" -> IF e.type \in {"int", "long"} /\ Value(e).n > Highest(e.type) THEN "none" ELSE e.type
    [] e.k = "field" -> IF t(1) = "C" THEN e.type ELSE "none"
    [] e.k = "element" -> IF t(1) \in ArrayTypes /\ t(2) \in Narrow \cup {"int"}
                          THEN ElementType(t(1)) ELSE "none"
    [] e.k = "call" -> IF \A i \in DOMAIN kids : Passes(t(i), e.op) THEN e.type ELSE "none"
    [] e.k = "cast" -> IF Castable(t(1), e.type) THEN e.type ELSE "none"
    [] e.k = "paren" -> IF t(1) = "void" THEN "none" ELSE t(1)
    [] e.k = "unary" ->
         IF e.op = "-" /\ e.kids[1].k = "lit" /\ e.kids[1].type \in {"int", "long"}
         THEN IF Value(e.kids[1]).n > Highest(e.kids[1].type) + 1 THEN "none" ELSE e.kids[1].type
         ELSE TypeOfUnary(e.op, t(1))
    [] e.k \in {"pre", "post"} -> IF IsVariable(kids[1]) /\ t(1) \in Numeric THEN t(1) ELSE "none"
    [] e.k = "binary" -> TypeOfBinary(e.op, t(1), t(2))
    [] e.k = "cond" -> TypeOfConditional(kids[1], kids[2], kids[3])
    [] e.k = "assign" -> TypeOfAssignment(e.op, kids[1], kids[2])
-----------------------------------------------------------------------------
(***************************************************************************)
(* The value of an operator.  Operands have the types of kids.             *)
(***************************************************************************)
Converted(x, type) == IF type \in Numeric THEN Whole(Wrapped(x.n, type)) ELSE x

OfUnary(op, x, type) ==
  CASE op = "+" -> x
    [] op = "-" -> Whole(Wrapped(-x.n, type))
    [] op = "~" -> Whole(-1 - x.n)
    [] op = "!" -> Whole(1 - x.n)

Same(x, y) == x.n = y.n /\ (x.n = 0 \/ x.s = y.s)

\* s and t are the types of x and y, type that of the result.
OfBinary(op, x, y, s, t, type) ==
  CASE type = "String" -> Text(Printed(x, s) \o Printed(y, t))
    [] type \in Numeric -> Whole(Arithmetic(op, x.n, y.n, type))
    [] type = "boolean" /\ op \in BitOps ->
         Whole(CASE op = "&" -> x.n * y.n [] op = "|" -> Truth(x.n + y.n > 0) [] op = "^" -> Truth(x.n # y.n))
    [] type = "boolean" /\ op = "==" -> Whole(Truth(Same(x, y)))
    [] type = "boolean" /\ op = "!=" -> Whole(Truth(~Same(x, y)))
    [] type = "boolean" /\ op \in CompareOps -> Whole(Truth(Compared(op, x.n, y.n)))

ByZero(op, y, type) == op \in {"/", "%"} /\ type \in Numeric /\ y.n = 0

\* JLS 15.28: <<the value>> of a constant expression.
ConstantValue(e, kids, type) ==
  LET x(i) == Value(kids[i]) IN
  IF type = "none" \/ ~\A i \in DOMAIN kids : IsConstant(kids[i]) THEN <<>>
  ELSE CASE e.k \in {"lit", "local"} -> e.val
         [] e.k = "paren" -> kids[1].val
         [] e.k = "cast" /\ type \in Primitive \cup {"String"} -> <<Converted(x(1), type)>>
         [] e.k = "unary" -> <<OfUnary(e.op, x(1), type)>>
         [] e.k = "binary" ->
              IF ByZero(e.op, x(2), type) THEN <<>>
              ELSE IF e.op = "&&" THEN <<Whole(x(1).n * x(2).n)>>
              ELSE IF e.op = "||" THEN <<Whole(Truth(x(1).n + x(2).n > 0))>>
              ELSE <<OfBinary(e.op, x(1), x(2), kids[1].type, kids[2].type, type)>>
         [] e.k = "cond" -> <<Converted(IF x(1).n = 1 THEN x(2) ELSE x(3), type)>>
         [] OTHER -> <<>>

RECURSIVE Typed(_)
\* The expression with the language's types, "none" if illegal, and constant values.
Typed(e) ==
  LET kids == [i \in DOMAIN e.kids |-> Typed(e.kids[i])]
      illegal == \E i \in DOMAIN kids : kids[i].type = "none"
      negated == e.k = "unary" /\ e.op = "-" /\ kids[1].k = "lit"
      type == IF illegal /\ ~negated THEN "none" ELSE TypeOf(e, kids)
      val == IF negated /\ type # "none" THEN <<OfUnary("-", Value(e.kids[1]), type)>>
             ELSE ConstantValue(e, kids, type)
  IN  [e EXCEPT !.type = type, !.kids = kids, !.val = val]
-----------------------------------------------------------------------------
(***************************************************************************)
(* Evaluation, of a typed expression: from left to right.                  *)
(***************************************************************************)
Gives(x, st) == [x |-> x, st |-> st]
Throwing(exc, st) == [x |-> Whole(0), st |-> [st EXCEPT !.exc = exc]]
Stops(r) == r.st.exc # ""

\* The place a variable stands for, of base b and index i, and what is wrong with it.
Place(e, b, i) == IF e.k = "element" THEN <<e.kids[1].type, i.n>> ELSE <<e.name, 0>>
Missing(e, b, i) ==
  CASE e.k \in {"field", "element"} /\ b.n = 0 -> "NullPointer"
    [] e.k = "element" /\ b.n # 0 /\ i.n \notin 0 .. ArrayLength - 1 -> "Bounds"
    [] OTHER -> ""
Write(st, place, x) == [st EXCEPT !.mem[place] = x]

RECURSIVE Eval(_, _)
\* [b, i, st]: what the operands of a variable are.
Operands(e, st) ==
  LET b == IF e.k \in {"field", "element"} THEN Eval(e.kids[1], st) ELSE Gives(Whole(0), st)
      i == IF e.k = "element" /\ ~Stops(b) THEN Eval(e.kids[2], b.st) ELSE Gives(Whole(0), b.st)
  IN  [b |-> b.x, i |-> i.x, st |-> i.st]
Fetch(e, v) ==
  IF v.st.exc # "" THEN Gives(Whole(0), v.st)
  ELSE IF Missing(e, v.b, v.i) # "" THEN Throwing(Missing(e, v.b, v.i), v.st)
  ELSE Gives(v.st.mem[Place(e, v.b, v.i)], v.st)
\* y is combined with x and stored in the variable e at v.
Store(e, v, y) ==
  IF Missing(e, v.b, v.i) # "" THEN Throwing(Missing(e, v.b, v.i), y.st)
  ELSE Gives(y.x, Write(y.st, Place(e, v.b, v.i), y.x))

Operate(op, l, r, s, t, type) ==
  IF Stops(r) THEN r
  ELSE IF ByZero(op, r.x, type) THEN Throwing("Arithmetic", r.st)
  ELSE Gives(OfBinary(op, l.x, r.x, s, t, type), r.st)

EvalStep(e, v, old) ==
  LET type == e.type
      new == Whole(Wrapped(IF e.op = "++" THEN old.x.n + 1 ELSE old.x.n - 1, type))
  IN  IF Stops(old) THEN old
      ELSE Gives(IF e.k = "pre" THEN new ELSE old.x, Store(e.kids[1], v, Gives(new, old.st)).st)

EvalAssignment(e, v, old) ==
  LET l == e.kids[1]
      r == IF v.st.exc = "" /\ ~Stops(old) THEN Eval(e.kids[2], old.st) ELSE old
      s == IF Stops(r) THEN r
           ELSE IF e.op = "" THEN r
           ELSE Operate(e.op, old, r, l.type, e.kids[2].type, TypeOfBinary(e.op, l.type, e.kids[2].type))
  IN  IF Stops(s) THEN s ELSE Store(l, v, [s EXCEPT !.x = Converted(s.x, l.type)])

EvalBinary(e, l) ==
  CASE Stops(l) -> l
    [] ~Stops(l) /\ (e.op = "&&" \/ e.op = "||") ->
         IF l.x.n = Truth(e.op = "||") THEN l ELSE Eval(e.kids[2], l.st)
    [] OTHER -> Operate(e.op, l, Eval(e.kids[2], l.st), e.kids[1].type, e.kids[2].type, e.type)

EvalCall(e, a) ==
  LET st == [a.st EXCEPT !.ev = Append(@, <<e.name, IF e.kids = <<>> THEN Whole(0) ELSE Converted(a.x, e.op)>>)]
  IN  IF Stops(a) THEN a
      ELSE IF e.name \in Failing THEN Throwing("Thrown", st)
      ELSE Gives(IF e.type = "void" THEN Whole(0) ELSE Answer[e.name], st)

Eval(e, st) ==
  LET kid(i) == Eval(e.kids[i], st) IN
  CASE IsConstant(e) -> Gives(Value(e), st)
    [] ~IsConstant(e) /\ e.k = "null" -> Gives(Whole(0), st)
    [] ~IsConstant(e) /\ e.k = "this" -> Gives(Whole(1), st)
    [] ~IsConstant(e) /\ e.k \in {"local", "static", "field", "element"} -> Fetch(e, Operands(e, st))
    [] ~IsConstant(e) /\ e.k = "call" ->
         EvalCall(e, IF e.kids = <<>> THEN Gives(Whole(0), st) ELSE kid(1))
    [] ~IsConstant(e) /\ e.k = "paren" -> kid(1)
    [] ~IsConstant(e) /\ e.k = "cast" -> LET r == kid(1) IN
         IF Stops(r) THEN r ELSE Gives(Converted(r.x, e.type), r.st)
    [] ~IsConstant(e) /\ e.k = "unary" -> LET r == kid(1) IN
         IF Stops(r) THEN r ELSE Gives(OfUnary(e.op, r.x, e.type), r.st)
    [] ~IsConstant(e) /\ e.k \in {"pre", "post"} -> LET v == Operands(e.kids[1], st) IN
         EvalStep(e, v, Fetch(e.kids[1], v))
    [] ~IsConstant(e) /\ e.k = "binary" -> EvalBinary(e, kid(1))
    [] ~IsConstant(e) /\ e.k = "cond" -> LET c == kid(1) IN
         IF Stops(c) THEN c
         ELSE LET r == Eval(e.kids[IF c.x.n = 1 THEN 2 ELSE 3], c.st) IN
              IF Stops(r) THEN r ELSE Gives(Converted(r.x, e.type), r.st)
    [] ~IsConstant(e) /\ e.k = "assign" -> LET v == Operands(e.kids[1], st) IN
         EvalAssignment(e, v, IF e.op = "" THEN Gives(Whole(0), v.st) ELSE Fetch(e.kids[1], v))
=============================================================================
