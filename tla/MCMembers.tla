------------------------------ MODULE MCMembers ------------------------------
(***************************************************************************)
(* Families of small programs for Members, and what must hold of them.       *)
(***************************************************************************)
EXTENDS JavaMembers

-----------------------------------------------------------------------------
(* Declarations. *)

Class(package, super, modifiers) ==
    [package |-> package, kind |-> "class", modifiers |-> modifiers, super |-> super,
     interfaces |-> <<>>, constructors |-> <<>>, methods |-> <<>>, instance |-> <<>>,
     static |-> <<>>, nested |-> <<>>, constants |-> <<>>, locals |-> <<>>,
     inner |-> FALSE]
Kind(kind, d) == [d EXCEPT !.kind = kind]
With(d, methods) == [d EXCEPT !.methods = methods]
Implementing(d, interfaces) == [d EXCEPT !.interfaces = interfaces]
Interface(package, interfaces) ==
    Implementing(Kind("interface", Class(package, ObjectType, <<>>)), interfaces)

Takes(modifiers, name, params, type, throws) ==
    [modifiers |-> modifiers, name |-> name, params |-> params,
     names |-> [i \in DOMAIN params |-> <<"x", "y">>[i]], formals |-> [i \in DOMAIN params |-> <<>>],
     type |-> type, throws |-> throws,
     body |-> Range(modifiers) \cap {"abstract", "native"} = {}]
Method(modifiers) == Takes(modifiers, "m", <<>>, "void", {})
Promised(m) == [m EXCEPT !.body = FALSE]

TheObject ==
    With(Class("java", NoType, <<"public">>),
         <<Takes(<<"public">>, "s", <<>>, "String", {}),
           Takes(<<"protected">>, "c", <<>>, ObjectType, {"Early"})>>)

\* order lists the types after Object, d[i] declares the i-th.
Program(order, d) ==
    [order |-> <<ObjectType>> \o order,
     types |-> [t \in {ObjectType} \cup Range(order) |->
                  IF t = ObjectType THEN TheObject
                  ELSE d[CHOOSE i \in DOMAIN order : order[i] = t]],
     imports |-> [t \in {ObjectType} \cup Range(order) |-> <<>>],
     asked |-> {}]

-----------------------------------------------------------------------------
(* Overriding along a chain of classes in two packages. *)

NoMethod == <<"none">>
Ways == {NoMethod, <<>>, <<"public">>, <<"protected">>, <<"private">>, <<"static">>,
         <<"public", "final">>, <<"abstract">>, <<"protected", "abstract">>}
AbstractIf(way) == IF "abstract" \in Range(way) THEN <<"abstract">> ELSE <<>>
Chained(package, super, way) ==
    With(Class(package, super, AbstractIf(way)),
         IF way = NoMethod THEN <<>> ELSE <<Method(way)>>)

\* A method that is declared abstract again below its body: see Reabstracted.
Abstracted(a, b) == /\ a \in {<<>>, <<"public">>, <<"protected">>, <<"public", "final">>}
                    /\ "abstract" \in Range(b)

Chains ==
    {Program(<<"A", "B", "C">>, <<Chained("p", ObjectType, w[1]), Chained(w[4], "A", w[2]),
                                  Chained(w[5], "B", w[3])>>) :
       w \in {v \in Ways \X Ways \X Ways \X {"p", "q"} \X {"p", "q"} :
                ~Abstracted(v[1], v[2]) /\ ~Abstracted(v[1], v[3]) /\ ~Abstracted(v[2], v[3])}}

\* The same with results that become narrower, in packages that a method kept
\* for its package does not come back to: see Returned.
Narrowing(package, super, modifiers, type) ==
    With(Class(package, super, <<>>),
         IF type = "none" THEN <<>> ELSE <<Takes(modifiers, "m", <<>>, type, {})>>)
Narrowings ==
    {Program(<<"A", "B", "C">>,
             <<Narrowing("p", ObjectType, w[1], w[2]), Narrowing(w[3], "A", w[4], w[5]),
               Narrowing(w[6], "B", w[7], w[8])>>) :
       w \in {v \in {<<>>, <<"public">>} \X {ObjectType, "A"} \X {"p", "q"} \X {<<>>, <<"public">>} \X
                    {"none", ObjectType, "A", "B"} \X {"p", "q"} \X {<<>>, <<"public">>} \X
                    {"none", ObjectType, "A", "B", "String"} :
                v[1] = <<>> /\ v[3] = "q" => v[6] = "q"}}

-----------------------------------------------------------------------------
(* A class C and the superclass A and interface I it takes the method from:   *)
(* types of results and exceptions.                                           *)

Results == {[type |-> "void", throws |-> e] : e \in {{}, {"Early"}, {"Late"}, {"Never"}}} \cup
           {[type |-> t, throws |-> {}] : t \in {"int", "String", ObjectType}}
Absent == [type |-> "none", throws |-> {}]
Returning(result) ==
    IF result = Absent THEN <<>>
    ELSE <<Takes(<<"public">>, "m", <<>>, result.type, result.throws)>>
Promising(result) == [i \in DOMAIN Returning(result) |-> Promised(Returning(result)[i])]

\* What the superclass leaves to stand for the interface's method has its type:
\* see Mismatched.
StandsFor(a, c, i) == c # Absent \/ a = Absent \/ i = Absent \/ a.type = i.type

Returns ==
    {Program(<<"A", "I", "C">>,
             <<With(Class("p", ObjectType, <<>>),
                    [i \in DOMAIN Returning(w[1]) |->
                       [Returning(w[1])[i] EXCEPT !.modifiers = @ \o w[4]]]),
               With(Interface("p", <<>>), Promising(w[2])),
               With(Implementing(Class("p", "A", w[5]), <<"I">>), Returning(w[3]))>>) :
       w \in {v \in (Results \cup {Absent}) \X (Results \cup {Absent}) \X (Results \cup {Absent})
                    \X {<<>>, <<"final">>} \X {<<>>, <<"abstract">>} :
                StandsFor(v[1], v[3], v[2])}}

\* Interfaces that meet: K extends I and J, C extends A and implements some.
\* C inherits what A declares: see Hidden.
Meetings ==
    {Program(<<"A", "I", "J", "K", "C">>,
             <<With(Class("p", ObjectType, AbstractIf(w[1])),
                    IF w[1] = NoMethod THEN <<>> ELSE <<Method(w[1])>>),
               With(Interface("p", <<>>), Promising(w[2])),
               With(Interface("p", w[7]), Promising(w[3])),
               With(Interface("p", <<"I", "J">>), Promising(w[4])),
               With(Implementing(Class(IF w[1] = <<>> THEN "p" ELSE "q", "A", w[8]), w[5]),
                    Returning(w[6]))>>) :
       w \in {v \in {NoMethod, <<>>, <<"public">>, <<"public", "abstract">>} \X
                    {Absent, [type |-> "void", throws |-> {}], [type |-> "void", throws |-> {"Late"}]} \X
                    {Absent, [type |-> "void", throws |-> {}]} \X
                    {Absent, [type |-> "void", throws |-> {"Early"}]} \X
                    {<<"I">>, <<"K">>, <<"I", "J">>} \X
                    {Absent, [type |-> "void", throws |-> {}], [type |-> "void", throws |-> {"Late"}]} \X
                    {<<>>, <<"I">>} \X {<<>>, <<"abstract">>} : TRUE}}

-----------------------------------------------------------------------------
(* Overloads: methods of one name that no reference type relates (see         *)
(* Overloaded for those that one does).                                       *)

Signatures == {<<>>, <<"int">>, <<"String">>, <<"A">>, <<"String", "int">>}
Overloads(sigs, abstract) ==
    [i \in DOMAIN sigs |-> Takes(IF abstract THEN <<"public", "abstract">> ELSE <<"public">>,
                                 "m", sigs[i], "void", {})]
Twos == {<<a, b>> : a \in Signatures, b \in Signatures}
Overloading ==
    {Program(<<"A", "B", "C">>,
             <<With(Class("p", ObjectType, IF w[1] THEN <<"abstract">> ELSE <<>>),
                    Overloads(w[2], w[1])),
               With(Class("p", "A", IF w[1] THEN <<"abstract">> ELSE <<>>), Overloads(<<w[3]>>, FALSE)),
               With(Class("q", "B", <<>>), Overloads(w[4], FALSE))>>) :
       w \in BOOLEAN \X Twos \X Signatures \X Twos}

-----------------------------------------------------------------------------
(* Fields and member types, asked for while the bodies are processed.         *)

FieldOf(modifiers) == [name |-> "f", modifiers |-> modifiers, constant |-> FALSE]
NestedOne(modifiers) == [name |-> "N", kind |-> "class", modifiers |-> modifiers, constants |-> <<>>]
MemberWays == {NoMethod, <<>>, <<"public">>, <<"protected">>, <<"private">>, <<"static">>}
Holding(d, way) ==
    IF way = NoMethod THEN d
    ELSE [d EXCEPT !.instance = <<FieldOf(way)>>, !.nested = <<NestedOne(way)>>]
Asking(p, asked) == [p EXCEPT !.asked = asked]
Asks(kind, type, from) == [kind |-> kind, type |-> type, name |-> "N", from |-> from]

Questions == {{Asks("fields", "C", "A"), Asks("types", "C", "A")},
              {Asks("fields", "B", "C"), Asks("scope", "C", "C")}}
Holders ==
    {Asking(Program(<<"I", "A", "B", "C">>,
             <<Holding(Interface("p", <<>>), w[1]),
               Holding(Class("p", ObjectType, <<>>), w[2]),
               Holding(Implementing(Class(w[5], "A", <<>>), <<"I">>), w[3]),
               Holding(Class(w[7], "B", <<>>), w[4])>>), w[6]) :
       w \in {NoMethod, <<"public">>} \X MemberWays \X MemberWays \X {NoMethod, <<>>} \X
             {"p", "q"} \X Questions \X {"p", "q"}}

-----------------------------------------------------------------------------
(* Words: every sequence of at most two before a declaration of each kind.    *)

AllWords == Accesses \cup {"static", "final", "abstract", "native", "strictfp", "synchronized",
                           "transient", "volatile"}
Phrases == {<<>>} \cup {<<w>> : w \in AllWords} \cup {<<v, w>> : v \in AllWords, w \in AllWords}
Alone(d) == Program(<<"A">>, <<d>>)
Plain == Class("p", ObjectType, <<>>)
Abstract == Class("p", ObjectType, <<"abstract">>)
Final == Class("p", ObjectType, <<"final">>)
Enum == Kind("enum", Class("p", "Object", <<>>))
Constructs(modifiers, params) ==
    [name |-> "A", alike |-> FALSE, modifiers |-> modifiers, params |-> params,
     names |-> [i \in DOMAIN params |-> "x"], formals |-> [i \in DOMAIN params |-> <<>>],
     throws |-> {}]

\* Enumerations are spared the words final and abstract, which are taken: see
\* EnumWords; a constructor needs a class.
Sensible(kind, w) == kind = "enum" => Range(w) \cap {"final", "abstract"} = {}

ClassWords ==
    {Alone(Kind(v[1], Class("p", ObjectType, v[2]))) :
       v \in {x \in {"class", "interface", "annotation", "enum"} \X Phrases : Sensible(x[1], x[2])}}
\* Interfaces do without bodies and static methods, which are taken.
MethodsWords ==
    {Alone(With(v[1], <<[Method(v[2]) EXCEPT !.body = v[3]]>>)) :
       v \in {x \in {Abstract, Final, Interface("p", <<>>)} \X Phrases \X BOOLEAN :
                x[1].kind = "interface" => ~x[3] /\ "static" \notin Range(x[2])}}
FieldsWords == {Alone([d EXCEPT !.instance = <<FieldOf(w)>>]) :
                  d \in {Plain, Interface("p", <<>>), [Plain EXCEPT !.inner = TRUE]}, w \in Phrases}
InnerWords ==
    {Alone([v[1] EXCEPT !.nested = <<[NestedOne(v[3]) EXCEPT !.kind = v[2]]>>]) :
       v \in {x \in {Plain, Interface("p", <<>>)} \X {"class", "interface", "enum", "annotation"} \X
                    Phrases : Sensible(x[2], x[3])}}
OthersWords ==
    {CASE k = "constructor" -> Alone([Plain EXCEPT !.constructors = <<Constructs(w, <<>>)>>])
       [] k = "parameter" -> Alone(With(Plain, <<[Takes(<<>>, "m", <<"int">>, "void", {})
                                                    EXCEPT !.formals = <<w>>]>>))
       [] OTHER -> Alone([Plain EXCEPT !.locals = <<[kind |-> k, modifiers |-> w]>>]) :
       k \in {"constructor", "parameter", "class", "variable", "formal", "initializer"},
       w \in Phrases}

-----------------------------------------------------------------------------
(* Constructors, enumerations, names declared twice.                          *)

\* Two constructors of a class, or one of an enumeration (see EnumConstructors
\* for two), the second of any name.
Constructing ==
    {Alone([d EXCEPT !.constructors =
              <<[Constructs(w, p) EXCEPT !.name = n.name, !.alike = n.alike]>> \o
              (IF d.kind = "enum" THEN <<>> ELSE <<Constructs(<<>>, q)>>)]) :
       d \in {Plain, Enum, [Plain EXCEPT !.modifiers = <<"strictfp">>]},
       w \in {<<>>, <<"private">>}, p \in {<<>>, <<"int">>, <<"int", "int">>},
       q \in {<<>>, <<"int">>, <<"String">>},
       n \in {[name |-> "A", alike |-> FALSE], [name |-> "a", alike |-> TRUE],
              [name |-> "B", alike |-> FALSE]}}

\* An enumeration of two constants with a field and a method, and a class.
EnumConstants == {[name |-> n, body |-> b] : n \in {"X", "Y", "f"}, b \in {NoBody, "body"}}
Enumerations ==
    {Program(<<"A", "C">>,
             <<[With(Enum, IF m = NoMethod THEN <<>> ELSE <<Method(m)>>) EXCEPT
                  !.constants = <<c, e>>, !.static = <<FieldOf(<<"static">>)>>],
               [Plain EXCEPT !.static = <<FieldOf(<<>>)>>, !.inner = i, !.methods = <<Method(m)>>]>>) :
       c \in EnumConstants, e \in EnumConstants, i \in BOOLEAN,
       m \in {<<"static">>, <<"public">>, <<"final">>}}

\* Two members of one name, and two parameters.
Twice ==
    {Alone([d EXCEPT !.methods = <<Takes(<<>>, n, p, "void", {}), Takes(<<>>, "m", q, "int", {}),
                                   [Takes(<<>>, "k", <<"int", "int">>, "void", {})
                                      EXCEPT !.names = <<x, "y">>]>>,
                     !.instance = <<FieldOf(<<>>), [FieldOf(<<>>) EXCEPT !.name = f]>>]) :
       d \in {Plain, [Plain EXCEPT !.modifiers = <<"strictfp">>]}, n \in {"m", "n", "A"},
       p \in {<<>>, <<"int">>}, q \in {<<>>, <<"int">>}, x \in {"x", "y"}, f \in {"f", "g"}}

-----------------------------------------------------------------------------
(* Imports of member types.  Files that import from each other have no member *)
(* types to inherit from each other: see Circular for those that do.          *)

Importing(p, from) == [p EXCEPT !.imports = [t \in DOMAIN @ |-> IF t \in DOMAIN from THEN from[t]
                                                                ELSE <<>>]]
Imports ==
    {Importing(Asking(Program(<<"A", "B", "C">>,
                 <<Holding(Class("p", ObjectType, <<>>), w[1]), Holding(Class("q", "A", <<>>), w[2]),
                   Holding(Class("p", w[3], <<>>), w[4])>>), w[5]),
               [A |-> w[8], B |-> w[6], C |-> w[7]]) :
       w \in {v \in {NoMethod, <<>>, <<"public">>} \X {NoMethod, <<"protected">>} \X {"A", "B", ObjectType} \X
             {NoMethod, <<"public">>} \X
             {{Asks("types", "B", "C"), Asks("scope", "C", "C")}, {Asks("types", "C", "A")}} \X
             {<<>>, <<"A">>} \X {<<>>, <<"A">>, <<"B">>, <<"A", "B">>, <<"B", "A">>} \X
                    {<<>>, <<"C">>} :
                v[8] # <<>> => v[3] = ObjectType /\ v[6] = <<>> /\ "B" \notin Range(v[7])}}

MCFamilies == {Chains, Narrowings, Returns, Meetings, Overloading, Holders, ClassWords, MethodsWords,
               FieldsWords, InnerWords, OthersWords, Constructing, Enumerations, Twice, Imports}

-----------------------------------------------------------------------------
(* Properties. *)

\* The table computed for a type that is not in error holds what the language
\* calls its members, each told from the others, whoever asked first and
\* however early; and a question about a member type is answered from them
\* (ComputeTypesClosure, ComputeFieldsClosure and ComputeMethodsClosure in
\* decl.cpp, MustFindNestedType, FindType).
IsTable(kind, t) ==
    LET shadows == expanded[<<kind, t>>]
    IN  /\ UNION {Symbols(sh) : sh \in Range(shadows)} = MembersOf(kind)[t]
        /\ \A i, j \in DOMAIN shadows : i # j => ~Same(kind, shadows[i].symbol, shadows[j].symbol)
Answers(q) ==
    LET named == {m \in MembersOf("types")[q.type] : m.name = q.name}
    IN  IF named = {} THEN answers[q] = Missing ELSE answers[q] \in named
TablesAreMembers ==
    /\ \A x \in DOMAIN expanded : x[2] \notin bad => IsTable(x[1], x[2])
    /\ \A q \in DOMAIN answers :
         q.kind \in {"types", "scope"} /\ q.type \notin bad => Answers(q)

\* When everything is compiled, an error has been issued if and only if the
\* language forbids something in the program: a word of a declaration, a member
\* declared twice, a method that may not override, hide or stand for another,
\* an abstract method without a body (ProcessModifiers, CheckMethodOverride,
\* CompleteSymbolTable).
JudgedAsSpecified == completed = Types => (reports = {}) = LegalProgram

\* When everything is compiled without an error, a call runs what the source
\* says: for every type u, method of its table and class t below, the virtual
\* machine finds in the class files, by bridges or without, the method that
\* overrides it in t, and no class file holds two methods that look the same
\* (GenerateBridgeMethods, GenerateBridgeMethod).
DispatchMeansSource ==
    completed = Types /\ reports = {} =>
      /\ \A t \in Types : \A x, y \in files[t] : Looks(x, y) => x = y
      /\ \A t \in {u \in Types : Concrete(u)} : \A u \in SuperTypes[t] :
           \A m \in {sh.symbol : sh \in Range(expanded[<<"methods", u>>])} :
             IsInstance(m) => Runs(t, u, m) = SourceSelected(t, m)
=============================================================================
