---------------------------- MODULE ClassLoading ----------------------------
(* The generic signatures a class file carries: how they are written for a type *)
(* and a method (src/src/symbol.cpp, paramtype.cpp, typeparam.cpp) and what is  *)
(* understood of them when the file is read (src/src/codegen/class.cpp).  Text  *)
(* is a sequence of character codes.                                            *)
EXTENDS ClassFormat

LT == 60
GT == 62
COLON == 58
SEMICOLON == 59
LB == 91
STAR == 42
PLUS == 43
MINUS == 45
LP == 40
RP == 41
L == 76
T == 84
V == 86
Primitives == {66, 67, 68, 70, 73, 74, 83, 90}
ObjectName == <<106, 47, 79>>

(* ---- types, and their text ---- *)
Class(name, arguments) == [k |-> "class", name |-> name, arguments |-> arguments]
Var(name) == [k |-> "var", name |-> name]
Array(of) == [k |-> "array", of |-> of]
Primitive(code) == [k |-> "primitive", code |-> code]
Wildcard(kind, of) == [k |-> kind, of |-> of]
Object == Class(ObjectName, <<>>)
(* Type::GenerateSignature and those of the types it may be. *)
RECURSIVE Text(_)
Text(t) ==
  CASE t.k = "class" ->
         <<L>> \o t.name
         \o (IF t.arguments = <<>> THEN <<>>
             ELSE <<LT>> \o FlattenSeq([i \in 1 .. Len(t.arguments) |-> Text(t.arguments[i])]) \o <<GT>>)
         \o <<SEMICOLON>>
    [] t.k = "var" -> <<T>> \o t.name \o <<SEMICOLON>>
    [] t.k = "array" -> <<LB>> \o Text(t.of)
    [] t.k = "primitive" -> <<t.code>>
    [] t.k = "any" -> <<STAR>>
    [] t.k = "extends" -> <<PLUS>> \o Text(t.of)
    [] t.k = "super" -> <<MINUS>> \o Text(t.of)
Texts(types) == FlattenSeq([i \in 1 .. Len(types) |-> Text(types[i])])
(* TypeParameterSymbol::GenerateSignature: a type parameter is its name and its *)
(* bounds, the erasure of each.                                                  *)
Parameter(name, bounds) == [name |-> name, bounds |-> bounds]
ParameterText(p) ==
  p.name \o (IF p.bounds = <<>> THEN <<COLON>> \o Text(Object)
             ELSE FlattenSeq([i \in 1 .. Len(p.bounds) |->
                    <<COLON>> \o Text(Class(p.bounds[i], <<>>))]))
ParametersText(ps) ==
  IF ps = <<>> THEN <<>>
  ELSE <<LT>> \o FlattenSeq([i \in 1 .. Len(ps) |-> ParameterText(ps[i])]) \o <<GT>>
(* TypeSymbol::SetGenericSignature and MethodSymbol::SetGenericSignature. *)
ClassSignature(ps, super, interfaces) == ParametersText(ps) \o Text(super) \o Texts(interfaces)
MethodSignature(ps, formals, result) ==
  ParametersText(ps) \o <<LP>> \o Texts(formals) \o <<RP>> \o Text(result)
RECURSIVE Erasure(_)
Erasure(t) ==
  CASE t.k = "class" -> Class(t.name, <<>>)
    [] t.k = "var" -> Object
    [] t.k = "array" -> Array(Erasure(t.of))
    [] OTHER -> t
Descriptor(formals, result) ==
  <<LP>> \o FlattenSeq([i \in 1 .. Len(formals) |-> Text(Erasure(formals[i]))])
  \o <<RP>> \o Text(Erasure(result))

(* ---- reading ---- *)
End(s) == Len(s) + 1
Is(s, p, codes) == p <= Len(s) /\ s[p] \in codes
(* The first place from p on where one of the codes is, or the end. *)
Find(s, p, codes) == Min({q \in p .. Len(s) : s[q] \in codes} \cup {End(s)})
Depth(s, p, q) ==
  Cardinality({i \in p .. q - 1 : s[i] = LT}) - Cardinality({i \in p .. q - 1 : s[i] = GT})
(* Past the semicolon that ends the type at p. *)
AfterType(s, p) ==
  LET ends == {q \in p .. Len(s) : s[q] = SEMICOLON /\ Depth(s, p, q) = 0}
  IN IF ends = {} THEN End(s) ELSE Min(ends) + 1
Slice(s, p, q) == SubSeq(s, p, q - 1)
AfterBrackets(s, p) == Min({q \in p .. Len(s) : s[q] # LB} \cup {End(s)})
(* Semantic::ProcessSignature: the type at p, without its arguments, and the    *)
(* place after it.                                                              *)
ProcessSignature(s, p) ==
  LET q == AfterBrackets(s, p)
      RECURSIVE Of(_, _)
      Of(n, t) == IF n = 0 THEN t ELSE Of(n - 1, Array(t))
      Read(t, at) == [type |-> Of(q - p, t), at |-> at]
  IN CASE Is(s, q, Primitives \cup {V}) -> Read(Primitive(s[q]), q + 1)
       [] Is(s, q, {L}) -> Read(Class(Slice(s, q + 1, Find(s, q, {LT, SEMICOLON})), <<>>), AfterType(s, q))
       [] Is(s, q, {T}) -> Read(Object, Find(s, q, {SEMICOLON}) + 1)

(* The names of the type parameters of a class.  What follows a bound is taken  *)
(* for another parameter if it begins with a capital, and else one character of  *)
(* it is passed over and the rest for more bounds.                              *)
Capitals == 65 .. 90
ClassParameters(s) ==
  LET EndOfBounds(p) ==
        Min({q + 1 : q \in {q \in p .. Len(s) :
               s[q] = SEMICOLON /\ Depth(s, p, q) = 0 /\ Is(s, q + 1, Capitals \cup {GT})}}
            \cup {q \in p .. Len(s) : s[q] = GT /\ Depth(s, p, q) = 0} \cup {End(s)})
      names[p \in 1 .. End(s)] ==
        LET c == Find(s, p, {COLON})
        IN IF ~ Is(s, p, 0 .. 255 \ {GT}) \/ c = End(s) THEN <<>>
           ELSE <<Slice(s, p, c)>> \o names[EndOfBounds(c + 1)]
  IN IF Is(s, 1, {LT}) THEN names[2] ELSE <<>>
(* Where the superclass is: after the parameters. *)
AfterParameters(s) ==
  IF ~ Is(s, 1, {LT}) THEN 1
  ELSE Min({q + 1 : q \in {q \in 2 .. Len(s) : s[q] = GT /\ Depth(s, 2, q) = 0}} \cup {End(s)})
(* The arguments of a supertype from p on: a parameter of the class, or the     *)
(* type without its own arguments.  Wildcards are kept for interfaces only.     *)
RECURSIVE Arguments(_, _, _, _)
Arguments(s, p, names, wild) ==
  IF ~ Is(s, p, 0 .. 255 \ {GT}) THEN <<>>
  ELSE LET name == Slice(s, p + 1, Find(s, p, {SEMICOLON}))
           at == IF s[p] \in {PLUS, MINUS} THEN p + 1 ELSE p
           type == ProcessSignature(s, at)
           Kept(kind, of) == IF wild THEN Wildcard(kind, of) ELSE of
           Followed(t, q) == <<t>> \o Arguments(s, q, names, wild)
       IN CASE s[p] = T ->
                 Followed(IF Contains(names, name) THEN Var(name) ELSE Object, Find(s, p, {SEMICOLON}) + 1)
            [] s[p] = STAR -> Followed(Kept("any", Object), p + 1)
            [] s[p] = PLUS -> Followed(Kept("extends", type.type), type.at)
            [] s[p] = MINUS -> Followed(Kept("super", type.type), type.at)
            [] OTHER -> Followed(type.type, type.at)
ArgumentsAt(s, p, names, wild) ==
  LET q == Find(s, p, {LT, SEMICOLON})
  IN IF Is(s, q, {LT}) THEN Arguments(s, q + 1, names, wild) ELSE <<>>
SuperArguments(s) == ArgumentsAt(s, AfterParameters(s), ClassParameters(s), FALSE)
(* One for each interface, in the order of the signature. *)
InterfaceArguments(s) ==
  LET from[p \in 1 .. End(s)] ==
        IF ~ Is(s, p, {L}) THEN <<>>
        ELSE <<ArgumentsAt(s, p, ClassParameters(s), TRUE)>> \o from[AfterType(s, p)]
  IN from[AfterType(s, AfterParameters(s))]

(* The type parameters of a method, and where its formal parameters begin. *)
MethodParameters(s) ==
  LET AfterBound(p) ==
        Min({q + 1 : q \in {q \in p .. Len(s) : s[q] = SEMICOLON /\ Depth(s, p, q) = 0}}
            \cup {q \in p .. Len(s) : s[q] = GT /\ Depth(s, p, q) = 0} \cup {End(s)})
      bounds[p \in 1 .. End(s)] == IF Is(s, p, {COLON}) THEN bounds[AfterBound(p + 1)] ELSE p
      from[p \in 1 .. End(s)] ==
        LET c == Find(s, p, {COLON, GT})
            rest == from[bounds[c]]
        IN IF ~ Is(s, p, 0 .. 255 \ {GT}) \/ ~ Is(s, c, {COLON}) THEN [names |-> <<>>, at |-> p]
           ELSE [names |-> <<Slice(s, p, c)>> \o rest.names, at |-> rest.at]
      all == from[2]
  IN IF ~ Is(s, 1, {LT}) THEN [names |-> <<>>, at |-> 1]
     ELSE [all EXCEPT !.at = IF Is(s, @, {GT}) THEN @ + 1 ELSE @]
Place(names, name) ==
  IF Contains(names, name) THEN Min({i \in DOMAIN names : names[i] = name}) ELSE 0
(* For each formal parameter the type parameter it is or mentions.  Inside a     *)
(* type every T is tried, also one in the middle of a name.                      *)
AfterFormal(s, p) ==
  LET q == AfterBrackets(s, p) IN IF Is(s, q, {L, T}) THEN AfterType(s, q) ELSE q + 1
Mentioned(s, p, names) ==
  LET q == AfterBrackets(s, p)
      Named(i) == Slice(s, i + 1, Find(s, i + 1, {SEMICOLON, LT, GT}))
      tried == {i \in q .. AfterType(s, q) - 1 :
                  s[i] = T /\ Depth(s, q, i) > 0 /\ Contains(names, Named(i))}
  IN CASE Is(s, q, {T}) -> Place(names, Slice(s, q + 1, Find(s, q, {SEMICOLON})))
       [] Is(s, q, {L}) /\ tried # {} -> Place(names, Named(Min(tried)))
       [] OTHER -> 0
FormalParameters(s) ==
  LET m == MethodParameters(s)
      from[p \in 1 .. End(s) + 1] ==
        IF ~ Is(s, p, 0 .. 255 \ {RP}) THEN <<>>
        ELSE <<Mentioned(s, p, m.names)>> \o from[AfterFormal(s, p)]
  IN from[m.at + 1]
(* The result: a type parameter of the method or of the class, however many      *)
(* dimensions it has, or the arguments it gives a generic type.                  *)
RECURSIVE ResultArguments(_, _, _, _)
ResultArguments(s, p, own, names) ==
  LET q == AfterBrackets(s, p)
      wild == Is(s, q, {PLUS, MINUS})
      b == IF wild THEN q + 1 ELSE q
      name == Slice(s, b + 1, Find(s, b, {SEMICOLON}))
      class == Class(Slice(s, b + 1, Find(s, b, {LT, SEMICOLON})), <<>>)
      bound == CASE Is(s, b, {L}) -> class
                 [] Is(s, b, {T}) /\ Contains(names, name) -> Var(name)
                 [] OTHER -> Object
      Followed(t, at) == t \o ResultArguments(s, at, own, names)
  IN CASE ~ Is(s, q, 0 .. 255 \ {GT}) -> <<>>
       [] Is(s, q, {T}) ->
            Followed(IF Contains(own, name) \/ Contains(names, name) THEN <<Var(name)>> ELSE <<>>,
                 Find(s, q, {SEMICOLON}) + 1)
       [] Is(s, q, {L}) -> Followed(<<class>>, AfterType(s, q))
       [] Is(s, q, {STAR}) -> Followed(<<Wildcard("any", Object)>>, q + 1)
       [] wild -> Followed(<<Wildcard(IF s[q] = PLUS THEN "extends" ELSE "super", bound)>>, AfterType(s, b))
       [] OTHER -> Followed(<<>>, LET e == Find(s, q, {GT, SEMICOLON})
                              IN IF Is(s, e, {SEMICOLON}) THEN e + 1 ELSE e)
ResultAt(s) == Find(s, MethodParameters(s).at, {RP}) + 1
Result(s, names, generic) ==
  LET own == MethodParameters(s).names
      q == AfterBrackets(s, ResultAt(s))
      name == Slice(s, q + 1, Find(s, q, {SEMICOLON}))
      open == Find(s, q, {LT, SEMICOLON})
  IN CASE Is(s, q, {T}) /\ Contains(own, name) -> <<"own", Place(own, name)>>
       [] Is(s, q, {T}) /\ Contains(names, name) -> <<"class", Place(names, name)>>
       [] Is(s, q, {L}) /\ Is(s, open, {LT}) /\ Slice(s, q + 1, open) \in generic ->
            <<"arguments", ResultArguments(s, open + 1, own, names)>>
       [] OTHER -> <<"plain", 0>>

-----------------------------------------------------------------------------
(* The type made of a class file that was read (Semantic::ProcessClassFile,       *)
(* src/src/codegen/class.cpp): its flags, supertypes and members as the rest of   *)
(* the compiler sees them, and what its generic signatures say.                   *)
CONSTANTS GenericOnes,       \* the names of generic types, whose arguments are kept
          ClassInitializer   \* the name of a static initializer

TextOf(attributes) ==
  IF Has(attributes, "Signature") THEN TheOnly(attributes, "Signature").rows[1][1][2] ELSE <<>>
Rows(attributes, kind) == IF Has(attributes, kind) THEN TheOnly(attributes, kind).rows ELSE <<>>
NestedNames(c) ==
  LET own(row) == row[1] # c.this /\ row[2] = c.this /\ row[3] # Gap /\ row[3][2] # <<>>
      rows == SelectSeq(Reverse(Rows(c.attributes, "InnerClasses")), own)
  IN [i \in DOMAIN rows |-> rows[i][3][2]]
FlagsRow(c) == SelectSeq(Rows(c.attributes, "InnerClasses"), LAMBDA row : row[1] = c.this)
(* Each supertype a class file names, with the arguments its signature gives it. *)
SuperOf(c, s) ==
  IF c.super = Gap THEN <<>> ELSE <<c.super[2], IF Is(s, AfterParameters(s), {L}) THEN SuperArguments(s) ELSE <<>>>>
LastFirst(c, s) ==
  LET given == IF s = <<>> THEN <<>> ELSE InterfaceArguments(s)
      last == Reverse(c.interfaces)
  IN [i \in DOMAIN last |-> <<last[i][2], IF i \in DOMAIN given THEN given[i] ELSE <<>>>>]
InterfacesOf(c, s) ==
  LET given == IF s = <<>> THEN <<>> ELSE InterfaceArguments(s)
  IN Reverse([i \in DOMAIN c.interfaces |->
               <<c.interfaces[i][2], IF i \in DOMAIN given THEN given[i] ELSE <<>>>>])
LoadedField(f) ==
  [name |-> f.name[2], flags |-> f.flags, type |-> f.type[2], text |-> TextOf(f.attributes),
   deprecated |-> Has(f.attributes, "Deprecated"),
   value |-> IF Has(f.attributes, "ConstantValue") THEN TheOnly(f.attributes, "ConstantValue").rows[1][1] ELSE Gap]
LoadedFields(c) ==
  LET seen(f) == SYNTHETIC \notin f.flags
      fields == SelectSeq(Reverse(c.fields), seen)
  IN [i \in DOMAIN fields |-> LoadedField(fields[i])]
LoadedMethod(m, names) ==
  LET s == TextOf(m.attributes)
      throws == Rows(m.attributes, "Exceptions")
      plain == [parameters |-> <<>>, formals |-> <<>>, result |-> <<"plain", 0>>]
  IN [name |-> m.name[2], flags |-> m.flags, type |-> m.type[2],
      deprecated |-> Has(m.attributes, "Deprecated"),
      throws |-> Reverse([i \in DOMAIN throws |-> throws[i][1][2]]),
      generic |-> IF s = <<>> THEN plain
                  ELSE [parameters |-> MethodParameters(s).names, formals |-> FormalParameters(s),
                        result |-> Result(s, names, GenericOnes)]]
LoadedMethods(c, names) ==
  LET seen(m) == (SYNTHETIC \notin m.flags \/ BRIDGE \in m.flags) /\ m.name[2] # ClassInitializer
      methods == SelectSeq(Reverse(c.methods), seen)
  IN [i \in DOMAIN methods |-> LoadedMethod(methods[i], names)]
(* By now some types may be interfaces that were classes, or the reverse. *)
LoadedClass(c, interfaces) ==
  LET s == TextOf(c.attributes)
      names == ClassParameters(s)
      super == SuperOf(c, s)
      row == FlagsRow(c)
  IN [bad |-> \/ (c.this[2] = ObjectName) # (c.super = Gap)
              \/ c.super # Gap /\ c.super[2] \in interfaces
              \/ \E i \in DOMAIN c.interfaces : c.interfaces[i][2] \notin interfaces,
      flags |-> IF row = <<>> THEN c.flags \ {SUPER} ELSE FlagsOf(row[1][4][2]),
      anonymous |-> row # <<>> /\ row[1][2] = Gap,
      deprecated |-> Has(c.attributes, "Deprecated"), nested |-> NestedNames(c),
      parameters |-> names, interfaces |-> InterfacesOf(c, s),
      super |-> IF super # <<>> /\ super[1] \in interfaces THEN <<super[1], <<>>>> ELSE super,
      fields |-> LoadedFields(c), methods |-> LoadedMethods(c, names)]
=============================================================================
