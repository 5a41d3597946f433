---------------------------- MODULE MCExpressions ----------------------------
(***************************************************************************)
(* The expressions TLC compiles and runs: every operator on every kind of  *)
(* operand, and operators on operators where the passes look deeper.       *)
(***************************************************************************)
EXTENDS CompileExpression

\* An int is as small as it can be with three narrower types below it.
MCBits == [byte |-> 2, short |-> 4, char |-> 4, int |-> 8, long |-> 16]
MCAnswer == [f |-> Whole(1), g |-> Whole(300), h |-> Whole(1), w |-> Whole(0), k |-> Whole(-2), fail |-> Whole(0)]

int(n) == Literal("int", n)
long(n) == Literal("long", n)
true == Literal("boolean", 1)
false == Literal("boolean", 0)
letter == Literal("char", 7)
minus(e) == Unary("-", e)
i == Local("int", "i")
b == Local("byte", "b")
l == Local("long", "l")
z == Local("boolean", "z")
t == Local("String", "t")
o == Local("C", "o")
p == Local("Object", "p")
a == Local("int[]", "a")
d == Local("byte[]", "d")
f == Invoke("int", "f", "", <<>>)
g == Invoke("long", "g", "", <<>>)
h == Invoke("boolean", "h", "", <<>>)
k(e) == Invoke("byte", "k", "long", <<e>>)
fail == Invoke("int", "fail", "", <<>>)
none == Invoke("void", "w", "", <<>>)
text == StringLiteral(<<<<"text", 1>>>>)
empty == StringLiteral(<<>>)

Memory(n, small, wide, truth, ref, string) ==
  [at \in { <<"i", 0>>, <<"b", 0>>, <<"c", 0>>, <<"s", 0>>, <<"S", 0>>, <<"F", 0>>, <<"l", 0>>, <<"L", 0>>, <<"z", 0>>,
           <<"t", 0>>, <<"o", 0>>, <<"a", 0>>, <<"d", 0>>, <<"p", 0>>, <<"q", 0>>, <<"int[]", 0>>, <<"int[]", 1>>,
           <<"byte[]", 0>>, <<"byte[]", 1>>, <<"long[]", 0>>, <<"long[]", 1>> } |->
     CASE at[1] \in {"i", "S", "int[]"} -> Whole(n)
       [] at[1] \in {"b", "byte[]", "F"} -> Whole(small)
       [] at[1] \in {"c", "s"} -> Whole(3)
       [] at[1] \in {"l", "L", "long[]"} -> Whole(wide)
       [] at[1] = "z" -> Whole(truth)
       [] at[1] \in {"o", "p", "a", "d", "q"} -> Whole(ref)
       [] at[1] = "t" -> string]
MCMemories ==
  { Memory(1, 1, 0, 1, 1, Text(<<<<"text", 2>>>>)), Memory(-128, -2, -32768, 0, 0, Whole(0)),
    Memory(0, -1, 257, 0, 1, Text(<<>>)) }
-----------------------------------------------------------------------------
Operators ==
  {"+", "-", "*", "/", "%", "&&", "||"} \cup ShiftOps \cup BitOps \cup CompareOps \cup EqualOps
Logical2 == {"&", "|", "^", "&&", "||", "==", "!="}
Variables ==
  { i, b, l, z, t, Local("char", "c"), Static("int", "S"), Static("long", "L"), Field(o, "byte", "F"),
    Field(Cast("C", Null), "long", "L"), Element(a, f), Element(d, i), Element(Local("long[]", "q"), int(1)) }
Leaves ==
  { int(0), int(1), int(5), minus(int(3)), long(0), long(1), letter, true, false, text, Null, Constant("byte", 1),
    i, b, l, z, o, f, g, h, none, Element(a, i), Cast("long", b) }
Numbers == {int(0), int(1), i, b, l, f, g}
Booleans ==
  { true, false, z, h, Paren(Unary("!", z)), Binary("<", i, int(0)), Binary("!=", o, Null),
    Constant("boolean", 1) }
Extremes ==
  { minus(int(128)), int(128), minus(int(127)), minus(int(1)), int(0), int(2), int(127), int(64),
    minus(long(32768)), long(32767), Paren(minus(int(3))) }
Plain == {i, b, l, z, o, f}
Pieces == Plain \cup {text, empty, StringLiteral(<<<<"char", 5>>>>), letter, int(1), t, Null}

Binaries == { Binary(op, x, y) : op \in Operators, x \in Leaves, y \in Leaves }
OfExtremes == { Binary(op, x, y) : op \in Operators, x \in Extremes, y \in Extremes }
Nested ==
  { Binary(op, Paren(Binary(by, x, y)), u) : op \in {"+", "*", "/", "<", "=="}, by \in {"-", "*", "%", "<<"},
                                            x \in Numbers, y \in Numbers, u \in {int(0), int(1), long(0), i, fail} }
NestedExtremes ==
  { minus(Paren(Binary(op, Binary(by, x, y), u))) : op \in {"+", "-", "*", "/"}, by \in {"+", "-", "*", "/"},
                                                   x \in Extremes, y \in Extremes, u \in {minus(int(1)), long(1)} }
LogicLeft ==
  { Binary(op, Paren(Binary(by, x, y)), u) : op \in Logical2, by \in {"&", "^", "||", "=="},
                                            x \in {true, false, z, h}, y \in Booleans, u \in {true, h} }
LogicRight ==
  { Binary(op, u, Unary("!", Paren(Binary(by, x, y)))) : op \in Logical2, by \in {"|", "&&", "!="},
                                                        x \in {false, z}, y \in Booleans, u \in {false, z, h} }
Unaries == { Unary(op, x) : op \in {"+", "-", "~", "!"}, x \in Leaves \cup Extremes }
Casts ==
  { Cast(type, x) : type \in Primitive \cup {"String", "Object", "C", "int[]"}, x \in Leaves \cup Extremes }
CastsOfCasts ==
  { Binary(op, Cast(s, Cast(type, x)), u) : op \in {"+", "*", "<", "=="}, s \in Numeric, type \in Numeric,
      x \in {i, l, b, int(5), minus(int(127)), minus(long(32767)), letter}, u \in {int(0), int(1), l, f} }

OfNumbers ==
  { Conditional(c, x, y) : c \in {true, false, z, h, Binary(">", l, long(0))},
                           x \in {int(0), int(1), int(5), int(6), i, f, l, k(i), long(5), letter},
                           y \in {int(0), int(1), int(5), int(100), i, f, l, long(6), fail} }
OfBooleans == { Conditional(c, x, y) : c \in Booleans, x \in Booleans, y \in Booleans }
OfObjects ==
  { Conditional(c, x, y) : c \in {true, false, z, h}, x \in {Null, o, text, t, a, This, Paren(Null)},
                           y \in {Null, o, t, This, d, none, Cast("C", p)} }
OfConditionals ==
  { Binary(op, Paren(Conditional(c, x, y)), u) : op \in {"&&", "||", "==", "&"}, c \in {z, h, true},
                                                 x \in Booleans, y \in Booleans, u \in {true, h} }

Right ==
  { int(0), int(1), int(7), int(100), minus(int(3)), letter, long(1), i, l, b, f, z, true, o, Null, text, none, fail }
Assignments ==
  { Assignment(op, v, x) : op \in {"", "+", "-", "*", "/", "%", "<<", ">>>", "&", "|"},
                           v \in Variables \cup {f}, x \in Right }
OfAssignments ==
  { Binary(op, u, Paren(Assignment(by, v, x))) : op \in {"+", "*", "<"}, by \in {"", "+", "-", ">>"},
      u \in {i, int(0), l}, v \in {i, b, l, Element(a, f), Field(o, "byte", "F")},
      x \in {int(1), i, PostStep("++", i), f} }
Steps ==
  { Node(when, "", op, "", <<v>>) : when \in {"pre", "post"}, op \in {"++", "--"},
      v \in Variables \cup {int(1), f, Paren(i), Constant("int", 1)} }
OfSteps ==
  { Binary(op, Node(when, "", "++", "", <<v>>), Node(then, "", "--", "", <<w>>)) :
      op \in {"+", "*", "<", "=="}, when \in {"pre", "post"}, then \in {"pre", "post"},
      v \in {i, l, Element(a, int(0)), Element(a, PostStep("++", i)), Field(o, "byte", "F")},
      w \in {i, l, Element(a, i), Static("long", "L")} }

Concatenations == { Binary("+", Binary("+", x, y), u) : x \in Pieces, y \in Pieces, u \in Pieces }
\* A right operand in parentheses; not one of a known string, an unknown other, and a known string.
OnTheRight ==
  { Binary("+", x, Paren(Binary("+", y, u))) : x \in Pieces, y \in {text, empty, letter, int(1), t},
                                               u \in Pieces \ {Null} }
AfterUnknown ==
  { Binary("+", x, Paren(Binary("+", y, u))) : x \in Plain \cup {t}, y \in Plain, u \in Pieces }
UnknownInside ==
  { Binary("+", x, Paren(Binary("+", y, u))) : x \in Pieces, y \in Plain, u \in Plain \cup {t} }
OnBothSides ==
  { Binary("+", Binary("+", x, y), Paren(Binary("+", u, v))) :
      x \in {text, t, i}, y \in {text, i, Null, t}, u \in {text, empty}, v \in {text, t, Conditional(z, text, t)} }
\* Concatenations and casts whose values are not needed.
Unused ==
  { Binary("&", Paren(Binary("==", Paren(Binary("+", x, y)), Null)), false) :
      x \in Pieces \cup {Cast("String", p)}, y \in Pieces \cup {Cast("C", p)} }

Invocations == { k(x) : x \in Leaves \cup {k(i), Paren(none), Paren(i), fail} }
Elements == { Element(x, y) : x \in {a, d, o, Null, t, Cast("int[]", Null)}, y \in Leaves }
Fields == { Field(x, "long", "L") : x \in {o, This, Cast("C", o), Conditional(z, o, This)} }

MCFamilies ==
  { Binaries, OfExtremes, Nested, NestedExtremes, LogicLeft, LogicRight, Unaries, Casts, CastsOfCasts,
    OfNumbers, OfBooleans, OfObjects, OfConditionals, Assignments, OfAssignments, Steps, OfSteps,
    Concatenations, OnTheRight, AfterUnknown, UnknownInside, OnBothSides, Unused, Invocations, Elements, Fields }

\* Known string + (variable + known string).
LostOperands ==
  { { Binary("+", x, Paren(Binary("+", y, u))) : x \in {text, letter}, y \in {i, b, PostStep("++", i)},
                                                 u \in {text, empty} } }
=============================================================================
