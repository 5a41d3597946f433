------------------------------ MODULE MCMethods ------------------------------
(***************************************************************************)
(* Methods for CompileMethod: every statement inside every other one, with *)
(* jumps, exceptions and assignments at the bottom.                        *)
(***************************************************************************)
EXTENDS CompileMethod

ValueMethod(list) == [void |-> FALSE, throws |-> {"A"}, params |-> <<>>, body |-> Block(list)]

(***************************************************************************)
(* The statement s in each place a statement may have; n tells the         *)
(* assignments of this level from those of the others.                     *)
(***************************************************************************)
Around(s, n) ==
  LET x(site) == Assign("x", site \o n)
      catch(c, list) == <<Catch({c}, "e", list)>>
  IN  <<If(Cond, s), IfElse(Cond, s, x("else")), IfElse(Cond, x("then"), s),
        While(Cond, s), While(True, s), DoWhile(s, Cond), DoWhile(s, False),
        For(<<>>, Cond, <<x("update")>>, s), For(<<>>, True, <<>>, s),
        Foreach("y", "each", "array", s), Foreach("y", "each", "iterable", s),
        Labeled("L", Block(<<s>>)), Labeled("L", While(Cond, s)),
        Switch(<<Case(<<s>>), Default(<<x("default")>>)>>),
        Switch(<<Case(<<x("case")>>), Case(<<s>>)>>),
        Switch(<<Case(<<x("case"), Break("")>>), Default(<<s>>)>>),
        Synchronized(<<s>>),
        Try(<<>>, <<s>>, catch("A", <<x("catch")>>), <<>>),
        Try(<<>>, <<s, x("try")>>, catch("A", <<Empty>>), <<>>),
        Try(<<>>, <<Call({"A", "B"})>>, catch("B", <<s>>), <<>>),
        Try(<<>>, <<s>>, <<>>, << <<x("finally")>> >>),
        Try(<<>>, <<x("try")>>, <<>>, << <<s>> >>),
        Try(<<>>, <<s>>, catch("A", <<Return("caught")>>), << <<Return("last")>> >>)>>
Places == 1 .. 23

\* Left in front of the assignment or behind it, if at all.
Early(jump, v) == Block(<<If(Cond, jump), Assign(v, "1")>>)
Late(jump, v) == If(Cond, Block(<<Assign(v, "1"), jump>>))

\* Only those that jump come out of it, through the assignment.
Passing(jump, v) ==
  Block(<<Try(<<>>, <<If(Cond, jump)>>, <<>>, << <<Assign(v, "1")>> >>), Return("2")>>)

Inside(v) ==
  <<Assign(v, "1"), Call({"A"}), Throw("B"), Return("2"), Break(""), Continue(""), Break("L"),
    Continue("L"), Early(Break(""), v), Early(Break("L"), v), Early(Throw("A"), v),
    Late(Break(""), v), Late(Break("L"), v), Late(Continue(""), v),
    Passing(Break("L"), v)>>
Leaves == 1 .. 15

\* Around the leaf i the statement u, and around that w (0 for none).
Nested(v, i, u, w) ==
  IF w = 0 THEN Around(Inside(v)[i], "")[u] ELSE Around(Around(Inside(v)[i], "'")[u], "")[w]

\* The method around it: x may be unset, or f is a blank final, which is set
\* afterwards or read as it is.
Method(t, s) ==
  ValueMethod(CASE t = 1 -> <<Local("x", ""), s, Use("x"), Return("9")>>
                [] t = 2 -> <<Local("x", "0"), s, Use("x"), Return("9")>>
                [] t = 3 -> <<Local("x", "0"), s>>
                [] t = 4 -> <<Local("x", "0"), Local("f", ""), s, Assign("f", "8"), Return("f")>>
                [] t = 5 -> <<Local("x", "0"), Local("f", ""), s, Return("f")>>)
Variable(t) == IF t \in {4, 5} THEN "f" ELSE "x"

NestedMethods ==
  {Method(t, Nested(Variable(t), i, u, w)) :
     t \in 1 .. 5, i \in Leaves, u \in Places, w \in Places \cup {0}}

\* Two statements in a row, one of them around another.
Beside(v) == <<Assign(v, "3"), Break(""), Continue(""), Return("3"), Throw("A")>>
InARow(v, a, i, u, first) ==
  LET b == Nested(v, i, u, 0) IN Block(IF first THEN <<Beside(v)[a], b>> ELSE <<b, Beside(v)[a]>>)
RowMethods ==
  {Method(t, InARow(Variable(t), a, i, u, first)) :
     t \in {1, 3, 4, 5}, a \in 1 .. 5, i \in Leaves, u \in Places, first \in BOOLEAN}

(***************************************************************************)
(* Conditions: all that are made of two others, in every statement that    *)
(* has a condition.                                                        *)
(***************************************************************************)
Simple == {Cond, True, False, Not(Cond), Assigned("x", "set"), And(Cond, Cond), Or(Cond, Cond),
           And(Cond, False), Or(True, Cond)}
Compound ==
  Simple \cup {Not(c) : c \in Simple} \cup {And(c, d) : c, d \in Simple}
    \cup {Or(c, d) : c, d \in Simple}
    \cup {Select(c, d, e) : c \in {Cond, True, Assigned("x", "pick")}, d, e \in Simple}
Tested(e) ==
  <<IfElse(e, Use("x"), Return("2")), IfElse(e, Empty, Use("x")), If(e, Empty), Evaluate(e),
    While(e, Use("x")), DoWhile(If(Cond, Continue("")), e), AssertThat(e)>>
ConditionMethods ==
  {Method(t, Tested(e)[i]) : t \in {1, 2}, i \in 1 .. 7, e \in Compound}

(***************************************************************************)
(* Switches on an unknown value and on a constant.                         *)
(***************************************************************************)
GroupLists == {<<>>, <<Use("x")>>, <<If(Cond, Break(""))>>, <<Break("")>>}
Groups ==
  {<<Case(a), Case(b)>> : a, b \in GroupLists}
    \cup {<<Case(a), Default(b), Case(<<Return("2")>>)>> : a, b \in GroupLists}
    \cup {<<Default(a)>> : a \in GroupLists} \cup {<<Case(a)>> : a \in GroupLists}
    \cup {<<>>}
SwitchMethods ==
  {Method(2, IF c = "" THEN Switch(g) ELSE SwitchOn(c, g)) :
     c \in {"", "case1", "case2", "other"}, g \in Groups}

(***************************************************************************)
(* Three levels of what an exception or a jump may have to undo.           *)
(***************************************************************************)
Undone(s, n) ==
  LET x(site) == Assign("x", site \o n) IN
    <<While(Cond, s), Labeled("L", While(True, s)), Synchronized(<<s>>),
      Try(<<>>, <<s>>, <<Catch({"A"}, "e", <<x("catch")>>)>>, <<>>),
      Try(<<>>, <<Call({"A"})>>, <<Catch({"A"}, "e", <<s>>)>>, << <<Use("x")>> >>),
      Try(<<>>, <<s>>, <<>>, << <<Use("x"), x("finally")>> >>),
      Try(<<>>, <<Use("x")>>, <<>>, << <<s>> >>)>>
Jumps == <<Call({"A", "B"}), Return("x"), Break(""), Continue("L"), Throw("A"),
           Block(<<Assign("x", "1"), Call({"A"})>>)>>
DeepMethods ==
  {Method(2, Undone(Undone(Undone(Jumps[i], "''")[u], "'")[v], "")[w]) :
     i \in 1 .. 6, u, v, w \in 1 .. 7}

(***************************************************************************)
(* A resource around a jump, and something else around that, in a method   *)
(* without variables and without a return value.                           *)
(***************************************************************************)
Managed(s) ==
  <<Try(<<"r">>, <<s>>, <<>>, <<>>), Try(<<"r">>, <<If(Cond, s), Call({"A"})>>, <<>>, <<>>),
    Try(<<"r">>, <<While(Cond, s)>>, <<>>, <<>>)>>
Surrounding(s) ==
  <<s, Synchronized(<<s>>), While(Cond, s), Labeled("L", DoWhile(Block(<<s>>), Cond)),
    Try(<<>>, <<s>>, <<>>, << <<Call({"A"})>> >>), Try(<<>>, <<Call({"A"})>>, <<>>, << <<s>> >>),
    Try(<<>>, <<s>>, <<Catch({"RuntimeException"}, "e", <<Empty>>)>>, <<>>),
    Try(<<>>, <<s>>, <<Catch({"A"}, "e", <<Call({"A"})>>)>>, << <<Call({"A"})>> >>)>>
ResourceJumps == <<Call({"A"}), Return(""), Break(""), Continue("L"), Throw("A")>>
ResourceMethods ==
  {[void |-> TRUE, throws |-> {"A"}, params |-> <<>>,
    body |-> Block(<<Surrounding(Surrounding(Managed(ResourceJumps[i])[w])[u])[v]>>)] :
     i \in 1 .. 5, w \in 1 .. 3, u, v \in 1 .. 8}

MCFamilies ==
  {NestedMethods, RowMethods, ConditionMethods, SwitchMethods, DeepMethods, ResourceMethods}
=============================================================================
