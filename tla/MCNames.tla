------------------------------ MODULE MCNames -------------------------------
(***************************************************************************)
(* Families of small programs for NestedClasses.                             *)
(***************************************************************************)
EXTENDS JavaNames

-----------------------------------------------------------------------------
(* Declarations. *)

Takes(access, params) == [access |-> access, params |-> params, varargs |-> FALSE]
Top(package, super) ==
    [package |-> package, super |-> super, interfaces |-> <<>>, kind |-> "class", nest |-> "top",
     outer |-> NoType, place |-> "", static |-> FALSE, access |-> "public",
     ctors |-> <<Takes("public", <<>>)>>]
Inside(outer, package, super, nest, place, static) ==
    [Top(package, super) EXCEPT !.nest = nest, !.outer = outer, !.place = place,
                                !.static = static, !.access = IF nest = "member" THEN "public" ELSE ""]
Method(owner, name, access, static, params) ==
    [owner |-> owner, name |-> name, kind |-> "method", static |-> static, access |-> access,
     params |-> params, varargs |-> FALSE]
Field(owner, name, access, static) ==
    [Method(owner, name, access, static, <<>>) EXCEPT !.kind = "field"]
Local(owner, place, name, final, constant) ==
    [owner |-> owner, place |-> place, name |-> name, final |-> final, constant |-> constant]

Program(types, members, locals, code) ==
    [types |-> types @@ ObjectType :> Top("java.lang", NoType), members |-> members,
     locals |-> locals, imports |-> [single |-> <<>>, demand |-> <<>>], code |-> code]

-----------------------------------------------------------------------------
(* Code. *)

On(form, type) == [form |-> form, type |-> type]
Simply == On("none", NoType)
In(type, place, op, base) ==
    [op |-> op, type |-> type, place |-> place, name |-> "", base |-> base, args |-> <<>>,
     write |-> FALSE, class |-> NoType]
Name(type, place, base, name) == [In(type, place, "name", base) EXCEPT !.name = name]
Written(u) == [u EXCEPT !.write = TRUE]
Call(type, place, base, name, args) ==
    [In(type, place, "call", base) EXCEPT !.name = name, !.args = args]
New(type, place, base, class, args) ==
    [In(type, place, "new", base) EXCEPT !.class = class, !.args = args]
This(type, place, of) == In(type, place, "this", On("this", of))
Begin(type, place, class) == [In(type, place, "begin", Simply) EXCEPT !.class = class]
EndOf(type, place, class) == [In(type, place, "end", Simply) EXCEPT !.class = class]

-----------------------------------------------------------------------------
(* A class B in a class A in a class O, nested in all ways, and what code in  *)
(* them uses of O and A.                                                      *)

Ways == {<<"member", "", TRUE>>, <<"member", "", FALSE>>, <<"local", "i", FALSE>>, <<"local", "s", FALSE>>,
         <<"anonymous", "i", FALSE>>, <<"anonymous", "s", FALSE>>, <<"anonymous", "c", FALSE>>}
HasBody(way) == way[1] # "member"
\* Static code and static classes are in classes that are not inner ones, and
\* an anonymous class has no constructor to call another.
WaysIn(way) == {w \in Ways : /\ w[2] = "s" \/ w[3] => way[3]
                             /\ w[2] = "c" => way[1] # "anonymous"}
PlacesIn(way) == {"i"} \cup (IF way[3] THEN {"s"} ELSE {}) \cup (IF way[1] = "anonymous" THEN {} ELSE {"c"})
Around(way, type, class, code) ==
    IF HasBody(way) THEN <<Begin(type, way[2], class)>> \o code \o <<EndOf(type, way[2], class)>>
    ELSE code

Of(way, outer) == Inside(outer, "p", ObjectType, way[1], way[2], way[3])
At(u, type, place) == [u EXCEPT !.type = type, !.place = place]
NestUses ==
    {Name("", "", base, "x") : base \in {Simply, On("this", "O"), On("value", "O"), On("type", "O")}}
      \cup {Written(Name("", "", Simply, "x"))}
      \cup {Call("", "", base, "m", <<>>) : base \in {Simply, On("this", "O")}}
      \cup {Call("", "", base, "h", <<>>) : base \in {Simply, On("super", "O"), On("super", "A")}}
      \cup {This("", "", t) : t \in {NoType, "A", "B", "O"}}

\* A class of the arguments of a constructor call that needs the instance around
\* the object: see OnTheFly.
Deferred(b, type, static, u) ==
    /\ b[2] = "c" /\ type = "B"
    /\ \/ u.base.form \in {"this", "super"} /\ u.base.type \in {"A", "O"}
       \/ u.base.form = "none" /\ ~(static /\ u.name # "h")

Nests ==
    {Program([O |-> Top("p", "P"), P |-> Top("p", ObjectType), A |-> Of(w[1], "O"), B |-> Of(w[2], "A")],
             <<Field("O", "x", w[3], w[4]), Method("O", "m", w[3], w[4], <<>>),
               Method("P", "h", "protected", FALSE, <<>>)>>, <<>>,
             Around(w[1], "O", "A", Around(w[2], "A", "B", <<At(w[7], w[5], w[6])>>))) :
       w \in {v \in Ways \X Ways \X {"private", ""} \X BOOLEAN \X {"A", "B"} \X {"i", "s", "c"} \X NestUses :
                /\ v[2] \in WaysIn(v[1]) /\ ~Deferred(v[2], v[5], v[4], v[7])
                /\ v[6] \in PlacesIn(IF v[5] = "A" THEN v[1] ELSE v[2])}}

-----------------------------------------------------------------------------
(* Members of a class P of package "p" used by a subclass C, a class D below   *)
(* it, and a class I inside C or D.                                          *)

Shapes == {<<"member", "", FALSE>>, <<"local", "i", FALSE>>}
HeirUses ==
    UNION {{Name("", "", base, "x"), Written(Name("", "", base, "x")), Call("", "", base, "m", <<>>)} :
           base \in {Simply, On("value", "P"), On("value", "C"), On("value", "D"), On("type", "P"),
                     On("type", "C"), On("this", NoType), On("this", "C"), On("super", NoType),
                     On("super", "C"), On("super", "D")}}
Heirs ==
    {Program([P |-> Top("p", ObjectType), C |-> Top(w[1], "P"), D |-> Top(w[2], "C"),
              I |-> Inside(w[3], IF w[3] = "C" THEN w[1] ELSE w[2], ObjectType, w[4][1], w[4][2], w[4][3])],
             <<Field("P", "x", w[5], w[6]), Method("P", "m", w[5], w[6], <<>>)>>, <<>>,
             Around(w[4], w[3], "I", <<At(w[8], w[7], "i")>>)) :
       w \in {v \in {"p", "q"} \X {"p", "q"} \X {"C", "D"} \X Shapes \X
                    {"private", "", "protected", "public"} \X BOOLEAN \X {"C", "D", "I"} \X HeirUses : TRUE}}

-----------------------------------------------------------------------------
(* A class N in a class O, objects of it and of its subclasses, created in O,  *)
(* in a class S that may be in O and may extend it, and in a class T in S.     *)

Seats == {<<NoType, "p", "", FALSE>>, <<NoType, "q", "", FALSE>>,
          <<"O", "p", "", TRUE>>, <<"O", "p", "", FALSE>>}
Seated(seat, super) ==
    IF seat[1] = NoType THEN Top(seat[2], super)
    ELSE Inside(seat[1], seat[2], super, "member", seat[3], seat[4])
PlacesOf(type, seat) ==
    CASE type = "O" -> {"i", "s", "c"}
      [] type = "S" -> {"i", "c"} \cup (IF seat[1] = NoType \/ seat[4] THEN {"s"} ELSE {})
      [] OTHER -> {"i", "c"}
Creations ==
    {<<New("", "", base, "N", <<>>)>> :
       base \in {Simply, On("value", "O"), On("value", "S"), On("value", "Object")}}
      \cup {<<[In("", "", "begin", base) EXCEPT !.class = "X"],
              [In("", "", "end", Simply) EXCEPT !.class = "X"]>> :
              base \in {Simply, On("value", "O"), On("value", "S")}}
      \cup {<<In("X", "c", "super", base)>> :
              base \in {Simply, On("value", "O"), On("value", "S"), On("value", "Object")}}
CreatedIn(type, place, creation) ==
    [k \in DOMAIN creation |->
       IF creation[k].op = "super" THEN creation[k] ELSE At(creation[k], type, place)]
\* The header of a class X in S or T may name the class N.
HeaderMaySee(seat, super, type, access) ==
    \/ seat[1] # NoType
    \/ type = "O"
    \/ access = "public"
    \/ access # "private" /\ (seat[2] = "p" \/ (access = "protected" /\ super = "O"))
\* An inner class that is created in static code of a subclass in O, and a
\* private one in a subclass in O: see the exclusions in the README.
StaticOverlooked(seat, super, type, place, static) ==
    seat[1] = "O" /\ super = "O" /\ type = "S" /\ place # "i" /\ ~static
HeirPassed(seat, super, type, access, static) ==
    seat[1] = "O" /\ super = "O" /\ type # "O" /\ access = "private" /\ ~static

Objects ==
    {Program([O |-> Top("p", ObjectType), S |-> Seated(w[1], w[2]),
              T |-> Inside("S", w[1][2], ObjectType, "member", "", FALSE),
              N |-> [Inside("O", "p", ObjectType, "member", "", w[3]) EXCEPT
                       !.access = w[4], !.ctors = <<Takes(w[5], <<>>)>>],
              X |-> LET package == IF w[6] = "O" THEN "p" ELSE w[1][2]
                    IN  IF w[8][1].op = "super" THEN Inside(w[6], package, "N", "member", "", FALSE)
                        ELSE Inside(w[6], package, "N", "anonymous", w[7], FALSE)],
             <<>>, <<>>, CreatedIn(w[6], w[7], w[8])) :
       w \in {v \in Seats \X {"O", ObjectType} \X BOOLEAN \X {"private", "", "protected", "public"}
                    \X {"private", "", "protected", "public"} \X {"O", "S", "T"} \X {"i", "s", "c"}
                    \X Creations :
                /\ v[7] \in PlacesOf(v[6], v[1])
                /\ (v[8][1].op = "super" => v[7] = "i" /\ HeaderMaySee(v[1], v[2], v[6], v[4]))
                /\ ~StaticOverlooked(v[1], v[2], v[6], v[7], v[3])
                /\ ~HeirPassed(v[1], v[2], v[6], v[4], v[3])}}

-----------------------------------------------------------------------------
(* Local classes and the local variables around them: L in code of O; in L a   *)
(* class M, classes H and J of its code, of which H and an anonymous X extend   *)
(* L; after L a class K that may extend it, and objects of them.              *)

Creates(type, class) == <<New(type, "i", Simply, class, <<>>)>>
Reads(type, name) == <<Name(type, "i", Simply, name)>>
Declares(type, place, class, code) == <<Begin(type, place, class)>> \o code \o <<EndOf(type, place, class)>>
Extends(class) == <<In(class, "c", "super", Simply)>>

InL == {<<>>, Reads("L", "v"), Reads("L", "w"), Creates("L", "L"), Creates("M", "L"), Reads("M", "w"),
        Declares("L", "i", "X", <<>>), Declares("L", "i", "X", Reads("X", "w")),
        Declares("L", "i", "X", Creates("X", "L")),
        Declares("L", "c", "Z", Reads("Z", "w")), Declares("L", "c", "W", <<>>),
        <<New("L", "c", Simply, "L", <<>>)>>,
        Declares("L", "c", "W", Reads("W", "w")),
        Declares("L", "i", "H", Extends("H") \o Reads("H", "w")),
        Declares("L", "i", "J", Reads("J", "w")) \o Creates("L", "J"),
        Declares("L", "i", "J", Creates("J", "L")) \o Creates("L", "J")}
InK == {<<>>, Reads("K", "w"), Creates("K", "L"), Creates("K", "K")}
AfterK == {<<<<"L">>, "L", <<>>>>, <<<<"K", "L">>, "K", Reads("Y", "v")>>,
           <<<<>>, ObjectType, Reads("Y", "v")>>, <<<<>>, "L", Reads("Y", "v")>>}

LocalClass(outer, place, super) == Inside(outer, "p", super, "local", place, FALSE)
Captures ==
    {Program([O |-> Top("p", ObjectType), L |-> LocalClass("O", w[1], ObjectType),
              M |-> Inside("L", "p", ObjectType, "member", "", FALSE),
              X |-> Inside("L", "p", "L", "anonymous", "i", FALSE),
              Z |-> Inside("L", "p", ObjectType, "anonymous", "c", FALSE),
              W |-> Inside("L", "p", "L", "anonymous", "c", FALSE),
              H |-> LocalClass("L", "i", "L"), J |-> LocalClass("L", "i", ObjectType),
              K |-> LocalClass("O", w[1], w[4]),
              Y |-> Inside("O", "p", w[6][2], "anonymous", w[1], FALSE)],
             <<>>, <<Local("O", w[1], "v", TRUE, FALSE), Local("O", w[1], "w", TRUE, FALSE)>>,
             Declares("O", w[1], "L", w[2] \o w[3])
               \o Declares("O", w[1], "K", (IF w[4] = "L" THEN Extends("K") ELSE <<>>) \o w[5])
               \o [k \in DOMAIN w[6][1] |-> New("O", w[1], Simply, w[6][1][k], <<>>)]
               \o Declares("O", w[1], "Y", w[6][3])) :
       w \in {v \in {"i", "s"} \X InL \X InL \X {ObjectType, "L"} \X InK \X AfterK :
                /\ v[2] # <<>>
                /\ v[3] = <<>> \/ (v[1] = "i" /\ v[3][1].op # "begin")}}

-----------------------------------------------------------------------------
(* Fields and local variables of one name around a local class L that may      *)
(* inherit another, and its member class M.                                   *)

Accesses == {"none", "private", "", "protected", "public"}
If(condition, q) == IF condition THEN q ELSE <<>>
Touches(type, write) == <<[Name(type, "i", Simply, "x") EXCEPT !.write = write]>>
Hidings ==
    {Program([O |-> Top("p", ObjectType), P |-> Top(w[1], ObjectType), L |-> LocalClass("O", w[2], "P"),
              M |-> Inside("L", "p", ObjectType, "member", "", FALSE)],
             If(w[3] # "none", <<Field("P", "x", w[3], w[4])>>)
               \o If(w[5] # "none", <<Field("O", "x", w[5], w[6])>>),
             If(w[7] # "none", <<Local("O", w[2], "x", w[7] # "var", w[7] = "constant")>>),
             Declares("O", w[2], "L", If(w[8] # "O", Touches(w[8], w[9])))
               \o If(w[8] = "O", Touches("O", w[9]))) :
       w \in {v \in {"p", "q"} \X {"i", "s"} \X Accesses \X BOOLEAN \X {"none", "private", "public"}
                    \X BOOLEAN \X {"none", "var", "final", "constant"} \X {"L", "M", "O"} \X BOOLEAN :
                /\ v[3] = "none" => ~v[4]
                /\ v[5] = "none" => ~v[6]
                /\ v[9] => v[7] = "none"
                /\ v[8] = "O" => v[2] = "i"}}

-----------------------------------------------------------------------------
(* Overloaded methods and constructors of a class C, called in it, in a class  *)
(* I in it and in a subclass.                                                 *)

Spread(m) == [m EXCEPT !.varargs = TRUE]
Signatures ==
    {Takes("", q) : q \in {<<>>, <<"int">>, <<"long">>, <<"Integer">>, <<ObjectType>>, <<"String">>,
                          <<"int", "long">>, <<"long", "int">>, <<ObjectType, ObjectType>>,
                          <<ObjectType, "int">>}}
      \cup {Spread(Takes("", q)) :
              q \in {<<"int[]">>, <<"Object[]">>, <<"int", "int[]">>, <<ObjectType, "Object[]">>}}
Given == {<<>>, <<"int">>, <<"long">>, <<"Integer">>, <<"Long">>, <<"null">>, <<"String">>, <<"int[]">>,
          <<"Object[]">>, <<"int", "int">>, <<"long", "Integer">>, <<"int", ObjectType>>,
          <<"String", "null">>, <<"int", "int", "int">>}
Callers == {<<"C", "call">>, <<"I", "call">>, <<"I", "new">>, <<"C", "self">>, <<"D", "super">>}

\* Pairs of signatures that these arguments are not given to: see UnboxedWide,
\* ArrayAsFixed, TwoSpreads and SpreadPassed.
AppliesIn(m, args, phases) == \E phase \in phases : Applicable([types |-> <<>>], m, args, phase)
UnboxedWide(m, args) == "Integer" \in ToSet(args) /\ "long" \in ToSet(m.params)
ArrayAsFixed(m, n, args) ==
    m.varargs /\ AppliesIn(m, args, {"subtyping"}) /\ AppliesIn(n, args, ToSet(Phases))
TwoSpreads(m, n, args) ==
    m.varargs /\ n.varargs /\ AppliesIn(m, args, {"variable"}) /\ AppliesIn(n, args, {"variable"})
SpreadPassed(m, args) ==
    m.varargs /\ AppliesIn(m, args, {"variable"}) /\ Len(args) # Len(m.params)
Apart(m, n, args, caller, access) ==
    /\ ~UnboxedWide(m, args) /\ ~ArrayAsFixed(m, n, args) /\ ~TwoSpreads(m, n, args)
    /\ SpreadPassed(m, args) => caller[2] = "call" /\ (access = "" \/ caller[1] = "C")

Overloads ==
    {Program([C |-> [Top("p", ObjectType) EXCEPT !.ctors = <<w[1], w[2]>>],
              I |-> Inside("C", "p", ObjectType, "member", "", FALSE), D |-> Top("p", "C")],
             [k \in 1..2 |-> [Method("C", "m", w[5], FALSE, w[k].params) EXCEPT !.varargs = w[k].varargs]],
             <<>>,
             <<CASE w[4][2] = "call" -> Call(w[4][1], "i", Simply, "m", w[3])
                 [] w[4][2] = "new" -> New("I", "i", Simply, "C", w[3])
                 [] OTHER -> [In(w[4][1], "c", w[4][2], Simply) EXCEPT !.args = w[3]]>>) :
       w \in {v \in Signatures \X Signatures \X Given \X Callers \X {"", "private"} :
                /\ v[1].params # v[2].params
                /\ v[5] = "private" => v[4][2] = "call"
                /\ Apart(v[1], v[2], v[3], v[4], v[5]) /\ Apart(v[2], v[1], v[3], v[4], v[5])}}

-----------------------------------------------------------------------------
(* Static imports of a method of P and of Q, and one that C may have itself.   *)

Importing(p, single, demand) == [p EXCEPT !.imports = [single |-> single, demand |-> demand]]
Imports ==
    {Importing(Program([C |-> Top("p", ObjectType), I |-> Inside("C", "p", ObjectType, "member", "", TRUE),
                        P |-> Top("q", ObjectType), Q |-> Top("q", w[1])],
                       <<Method("P", "m", "public", w[2], w[3]), Method("Q", w[4], "public", TRUE, w[5])>>
                         \o If(w[6], <<Method("C", "m", "private", TRUE, w[9])>>), <<>>,
                       <<Call("I", "i", Simply, "m", w[9])>>),
               w[7], w[8]) :
       w \in {v \in {ObjectType, "P"} \X BOOLEAN \X {<<>>, <<"int">>} \X {"m", "n"} \X {<<>>, <<"int">>}
                    \X BOOLEAN \X {<<>>, <<[type |-> "P", name |-> "m"]>>, <<[type |-> "Q", name |-> "m"]>>} \X
                    {<<>>, <<"P">>, <<"Q">>, <<"P", "Q">>, <<"Q", "P">>} \X {<<>>, <<"int">>} :
                \* See ImportedLoosely.
                v[7] # <<>> /\ v[8] # <<>> => v[3] = v[9] /\ v[5] = v[9]}}

MCFamilies == {Nests, Heirs, Objects, Captures, Hidings, Overloads, Imports}
=============================================================================
