------------------------------- MODULE Lookup -------------------------------
(***************************************************************************)
(* The types and members that names are looked up in (symbol.h, symbol.cpp,  *)
(* decl.cpp).                                                                *)
(*                                                                           *)
(* A program p declares p.types, a record for each class and interface: its  *)
(* package, super and interfaces; the type it is declared in (outer), how    *)
(* (nest: "top", "member", "local" or "anonymous") and, of a local or an     *)
(* anonymous class, in which code of that type (place): "i" that of an       *)
(* instance, "s" static code, "c" the arguments of an explicit constructor   *)
(* call.  p.members is the sequence of all fields and methods, p.locals that *)
(* of all local variables.  Primitive types, their wrappers and arrays are   *)
(* the same in all programs.                                                 *)
(***************************************************************************)
EXTENDS Naturals, Sequences, FiniteSets, SequencesExt, TLC

CONSTANTS
    NoType      \* No type: the supertype of Object, the outer type of a top-level one

ObjectType == "Object"
Primitive == {"int", "long", "boolean"}
Wrapper == ("int" :> "Integer" @@ "long" :> "Long" @@ "boolean" :> "Boolean")
Component == ("int[]" :> "int" @@ "long[]" :> "long" @@ "Object[]" :> ObjectType
              @@ "Integer[]" :> "Integer" @@ "String[]" :> "String")
LibrarySuper == ("Integer" :> "Number" @@ "Long" :> "Number" @@ "Number" :> ObjectType
                 @@ "Boolean" :> ObjectType @@ "String" :> ObjectType)

IsArray(t) == t \in DOMAIN Component
CanWideningPrimitiveConvert(target, source) == target = "long" /\ source = "int"

\* Also of a wrapper: UnboxedType is the inverse.
GetWrapperType(t) == IF t \in DOMAIN Wrapper THEN Wrapper[t] ELSE NoType
IsUnboxingConversion(source, target) == target \in Primitive /\ Wrapper[target] = source

-----------------------------------------------------------------------------
(* Supertypes. *)

Super(p, t) == CASE t \in DOMAIN p.types -> p.types[t].super
                 [] t \in DOMAIN LibrarySuper -> LibrarySuper[t]
                 [] OTHER -> NoType
DirectSupers(p, t) ==
    ({Super(p, t)} \cup IF t \in DOMAIN p.types THEN ToSet(p.types[t].interfaces) ELSE {}) \ {NoType}

RECURSIVE Superclasses(_, _)
Superclasses(p, t) == IF t = NoType THEN {} ELSE {t} \cup Superclasses(p, Super(p, t))
RECURSIVE Supertypes(_, _)
Supertypes(p, t) == {t} \cup UNION {Supertypes(p, s) : s \in DirectSupers(p, t)}

IsSubclass(p, t, s) == s \in Superclasses(p, t)
IsSubtype(p, s, t) ==
    \/ s = t
    \/ t = ObjectType /\ s \notin Primitive
    \/ t \in Supertypes(p, s)
    \/ /\ IsArray(s) /\ IsArray(t)
       /\ {Component[s], Component[t]} \cap Primitive = {}
       /\ Component[t] \in Supertypes(p, Component[s])

-----------------------------------------------------------------------------
(* Nesting. *)

ContainingType(p, t) == p.types[t].outer
ContainingPackage(p, t) == p.types[t].package
IsAnonymous(p, t) == p.types[t].nest = "anonymous"

\* The type and the types around it, from the inside out.
RECURSIVE Levels(_, _)
Levels(p, t) == IF t = NoType THEN <<>> ELSE <<t>> \o Levels(p, ContainingType(p, t))
Outermost(p, t) == Last(Levels(p, t))
IsNestedIn(p, t, outer) == outer \in ToSet(Levels(p, t))
IsInner(p, t) == ContainingType(p, t) # NoType /\ ~p.types[t].static

\* A member of a local class is local too.
IsLocal(p, t) == \E outer \in ToSet(Levels(p, t)) : p.types[outer].nest \in {"local", "anonymous"}

-----------------------------------------------------------------------------
(* Members: the expanded tables that Members describes, of programs in which  *)
(* every name has one visible place in each type.                             *)

Inheritable(p, m, base, super) ==
    \/ m.access \in {"public", "protected"}
    \/ m.access = "" /\ ContainingPackage(p, super) = ContainingPackage(p, base)

Own(p, kind, t, name) ==
    SelectSeq([i \in DOMAIN p.members |-> i],
              LAMBDA i : LET m == p.members[i]
                         IN  m.kind = kind /\ m.owner = t /\ m.name = name)

Supers(p, t) ==
    LET interfaces == p.types[t].interfaces
    IN  IF p.types[t].super = NoType THEN interfaces ELSE <<p.types[t].super>> \o interfaces

RECURSIVE Table(_, _, _, _)
Table(p, kind, t, name) ==
    LET own == Own(p, kind, t, name)
        Hides(i, j) == kind = "field" \/ p.members[i].params = p.members[j].params
        inherits(q, super) ==
          q \o SelectSeq(Table(p, kind, super, name),
                         LAMBDA j : /\ Inheritable(p, p.members[j], t, super)
                                    /\ \A k \in DOMAIN q : q[k] # j
                                    /\ \A k \in DOMAIN own : ~Hides(own[k], j))
    IN  FoldLeft(inherits, own, Supers(p, t))

\* Also the type n is a member of the types it is inherited by.
RECURSIVE FindNestedType(_, _, _)
FindNestedType(p, t, n) ==
    /\ t \in DOMAIN p.types
    /\ \/ p.types[n].nest = "member" /\ ContainingType(p, n) = t
       \/ \E super \in ToSet(Supers(p, t)) :
            Inheritable(p, p.types[n], t, super) /\ FindNestedType(p, super, n)

FieldTable(p, t, name) == IF t \in DOMAIN p.types THEN Table(p, "field", t, name) ELSE <<>>
MethodTable(p, t, name) == IF t \in DOMAIN p.types THEN Table(p, "method", t, name) ELSE <<>>

-----------------------------------------------------------------------------
(***************************************************************************)
(* Which method or constructor a call means, and the arguments it is given   *)
(* (expr_lookup.cpp, expr_ops.cpp, bytecode_expr.cpp).                       *)
(*                                                                           *)
(* A method has the types of its parameters and may take a variable number   *)
(* of arguments (varargs).  An argument is known by its type only.           *)
(***************************************************************************)
CanSubtypeConvert(p, target, source) ==
    IF source \in Primitive
    THEN target \in Primitive /\ (target = source \/ CanWideningPrimitiveConvert(target, source))
    ELSE target \notin Primitive /\ (source = "null" \/ IsSubtype(p, source, target))

\* With boxing and unboxing.
CanMethodInvocationConvert(p, target, source) ==
    \/ source \in Primitive /\ target \in Primitive
       /\ (source = target \/ CanWideningPrimitiveConvert(target, source))
    \/ source \in Primitive /\ target \notin Primitive
       /\ IsSubtype(p, GetWrapperType(source), target)
    \/ source \notin Primitive /\ target \in Primitive /\ IsUnboxingConversion(source, target)
    \/ source \notin Primitive /\ target \notin Primitive
       /\ (source = "null" \/ IsSubtype(p, source, target))

Converts(p, boxing, target, source) ==
    IF boxing THEN CanMethodInvocationConvert(p, target, source)
    ELSE CanSubtypeConvert(p, target, source)

-----------------------------------------------------------------------------
(* The most specific of the methods that accept the arguments; methods are    *)
(* sequences of the places that they have in declared.                        *)

EffectiveParameterType(m, k) ==
    IF m.varargs /\ k >= Len(m.params) THEN Component[Last(m.params)] ELSE m.params[k]

MoreSpecific(p, source, target, count) ==
    \A k \in 1..count : CanSubtypeConvert(p, EffectiveParameterType(target, k),
                                          EffectiveParameterType(source, k))

\* What is left of those found so far when another one is met.
WithMethod(p, declared, found, m, count) ==
    CASE \A i \in ToSet(found) : MoreSpecific(p, declared[m], declared[i], count) -> <<m>>
      [] OTHER -> IF \E i \in ToSet(found) : MoreSpecific(p, declared[i], declared[m], count)
                  THEN found ELSE Append(found, m)

MaximallySpecific(p, declared, methods, count) ==
    FoldLeft(LAMBDA found, m : WithMethod(p, declared, found, m, count), <<>>, methods)

-----------------------------------------------------------------------------
(* The methods that accept the arguments: by subtyping, then with boxing,     *)
(* then with a variable number of them.                                       *)

AcceptsFixed(p, m, args, boxing) ==
    /\ Len(args) = Len(m.params)
    /\ \A i \in DOMAIN args : Converts(p, boxing, m.params[i], args[i])

MethodApplicableByArity(m, count) ==
    IF m.varargs THEN count + 1 >= Len(m.params) ELSE count = Len(m.params)

\* One argument more than the fixed ones may be the array itself.
AcceptsVariable(p, m, args) ==
    LET fixed == Len(m.params) - 1
        array == Last(m.params)
    IN  /\ m.varargs /\ MethodApplicableByArity(m, Len(args))
        /\ \A i \in 1..fixed : CanMethodInvocationConvert(p, m.params[i], args[i])
        /\ \/ Len(args) = Len(m.params) /\ CanMethodInvocationConvert(p, array, Last(args))
           \/ \A i \in fixed + 1..Len(args) :
                CanMethodInvocationConvert(p, Component[array], args[i])

FirstFound(phases) ==
    LET k == SelectInSeq(phases, LAMBDA phase : phase # <<>>)
    IN  IF k = 0 THEN <<>> ELSE phases[k]

\* methods are those of the name that may be accessed, in the order of the table.
FindMethod(p, declared, methods, args) ==
    LET Accepts(m, phase) == IF phase = 3 THEN AcceptsVariable(p, m, args)
                             ELSE ~m.varargs /\ AcceptsFixed(p, m, args, phase = 2)
    IN  FirstFound([phase \in 1..3 |->
          MaximallySpecific(p, declared, SelectSeq(methods, LAMBDA i : Accepts(declared[i], phase)),
                            Len(args))])

\* A constructor that takes a variable number of arguments may also be called
\* with its array by the first phases.
FindConstructor(p, declared, constructors, args) ==
    LET Accepts(m, phase) == IF phase = 3 THEN AcceptsVariable(p, m, args)
                             ELSE AcceptsFixed(p, m, args, phase = 2)
    IN  FirstFound([phase \in 1..3 |->
          MaximallySpecific(p, declared, SelectSeq(constructors, LAMBDA i : Accepts(declared[i], phase)),
                            Len(args))])

-----------------------------------------------------------------------------
(* Arguments as they are passed: the i-th one, converted to a type, or a new  *)
(* array of some of them.                                                     *)

Converted(i, type) == [array |-> NoType, elements |-> <<[argument |-> i, type |-> type]>>]
NewArray(type, first, last) ==
    [array |-> type,
     elements |-> [j \in 1..last - first + 1 |->
                     [argument |-> first + j - 1, type |-> Component[type]]]]

MethodInvocationConversion(p, m, args) ==
    LET count == Len(m.params)
        plain(i) == Converted(i, m.params[i])
        asArray == Len(args) = count /\ CanMethodInvocationConvert(p, Last(m.params), Last(args))
    IN  CASE ~m.varargs -> [i \in DOMAIN args |-> plain(i)]
          [] m.varargs /\ asArray -> [i \in DOMAIN args |-> plain(i)]
          [] OTHER ->
               [i \in DOMAIN args |->
                  IF i < count THEN plain(i)
                  ELSE IF i = count THEN NewArray(Last(m.params), i, Len(args))
                  ELSE Converted(i, Component[Last(m.params)])]

\* A call passes one array, a creation whatever arguments there are.
EmitMethodArguments(m, args) ==
    IF ~m.varargs THEN args
    ELSE IF Len(args) >= Len(m.params) THEN SubSeq(args, 1, Len(m.params))
    ELSE Append(args, NewArray(Last(m.params), 1, 0))
EmitConstructorArguments(m, args) == args
=============================================================================
