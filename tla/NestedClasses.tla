---------------------------- MODULE NestedClasses ---------------------------
(***************************************************************************)
(* What names mean in nested classes, and how code reaches it               *)
(* (expr_names.cpp, expr_primary.cpp, symbol.cpp, body.cpp).                  *)
(*                                                                           *)
(* Code in a class reaches the instances of the classes around it through    *)
(* fields this$0, the local variables around it through copies val$x, and    *)
(* what only another class may access through access methods of that class.  *)
(* Each use resolves to a node: what it uses, and the base it does so on.     *)
(*                                                                           *)
(* e = [type, place] is the environment of a use: the class and the kind of  *)
(* code (see Lookup); inner is the set of the classes that have this$0,      *)
(* copies those of the local variables that each class has so far.           *)
(***************************************************************************)
EXTENDS Lookup

Failed == [op |-> "error"]
Aborted == [op |-> "abort"]
Fails(node) == node.op \in {"error", "abort"}

-----------------------------------------------------------------------------
(* Enclosing instances. *)

EnclosingType(p, inner, t) == IF t \in inner THEN ContainingType(p, t) ELSE NoType

\* The place of the code of the i-th of the classes around a use.
EnvPlace(p, e, i) == IF i = 1 THEN e.place ELSE p.types[Levels(p, e.type)[i - 1]].place
StaticRegion(place) == place \in {"s", "c"}

\* Mutant: static classes on the way are overlooked.
AcrossStatic(p, e, t, exact) ==
    LET levels == Levels(p, e.type)
    IN  \E i \in DOMAIN levels : /\ ~StaticRegion(EnvPlace(p, e, i))
                                 /\ IF exact THEN levels[i] = t ELSE IsSubclass(p, levels[i], t)

HasEnclosingInstance(p, e, t, exact) ==
    LET levels == Levels(p, e.type)
        Matches(c) == IF exact THEN c = t ELSE IsSubclass(p, c, t)
    IN  \E i \in DOMAIN levels :
          /\ Matches(levels[i]) /\ ~StaticRegion(EnvPlace(p, e, i))
          /\ \A j \in 1..i - 1 : Matches(levels[j]) \/ ~p.types[levels[j]].static

HasProtectedAccessTo(p, t, target) ==
    \E main \in ToSet(Levels(p, t)), outer \in ToSet(Levels(p, target)) : IsSubclass(p, main, outer)

\* What stands before the dot: a value ("this", the parameter "this$0", or some
\* "value") and the types of the fields this$0 on the way; or a "type".  Its
\* type is as; the code names the class itself for "super" only.
Base(from, types) == [op |-> "base", from |-> from, types |-> types, as |-> Last(types), of |-> ""]
SuperBase(p, base, of) == [base EXCEPT !.as = Super(p, base.as), !.of = of]

\* this, or the parameter this$0 of a constructor, and as many fields this$0 as
\* it takes.  A class that has none gets one.
FindEnclosingInstance(inner, copies, from, types) ==
    IF \E k \in 1..Len(types) - 1 : types[k] \notin inner /\ copies[types[k]] # <<>> THEN Aborted
    ELSE Base(from, types)

CreateAccessToType(p, inner, copies, e, t, exact) ==
    LET levels == Levels(p, e.type)
        start == IF e.place = "c" THEN Tail(levels) ELSE levels
        Reached(c) == c = t \/ (~exact /\ IsSubclass(p, c, t))
        first == SelectInSeq(start, Reached)
    IN  CASE ~HasEnclosingInstance(p, e, t, exact) -> Failed
          [] HasEnclosingInstance(p, e, t, exact) /\ e.place = "c" /\ e.type \notin inner -> Aborted
          [] OTHER -> FindEnclosingInstance(inner, copies, IF e.place = "c" THEN "this$0" ELSE "this",
                                            SubSeq(start, 1, first))

-----------------------------------------------------------------------------
(* Copies of local variables. *)

\* The class whose copy of the variable the code of class t reads.
RECURSIVE FindLocalVariable(_, _, _, _)
FindLocalVariable(p, inner, local, t) ==
    LET owner == p.locals[local].owner
    IN  IF t = owner \/ ContainingType(p, t) = owner \/ EnclosingType(p, inner, t) = NoType THEN t
        ELSE FindLocalVariable(p, inner, local, ContainingType(p, t))

\* A class without this$0 gets its copy from one of the class around it.
RECURSIVE FindOrInsertLocalShadow(_, _, _, _, _)
FindOrInsertLocalShadow(p, inner, copies, local, t) ==
    LET holder == FindLocalVariable(p, inner, local, t)
        owner == p.locals[local].owner
    IN  IF holder = owner \/ local \in ToSet(copies[holder]) THEN copies
        ELSE LET outer == IF ContainingType(p, holder) = owner THEN copies
                          ELSE FindOrInsertLocalShadow(p, inner, copies, local,
                                                       ContainingType(p, holder))
             IN  [outer EXCEPT ![holder] = Append(@, local)]

-----------------------------------------------------------------------------
(* Access rights. *)

SamePackage(p, s, t) == ContainingPackage(p, s) = ContainingPackage(p, t)
SameOutermost(p, s, t) == Outermost(p, s) = Outermost(p, t)

TypeAccessCheck(p, e, t) ==
    \/ p.types[t].access = "public"
    \/ SamePackage(p, e.type, t) /\ p.types[t].access # "private"
    \/ SameOutermost(p, e.type, t)
    \/ p.types[t].access = "protected" /\ HasProtectedAccessTo(p, e.type, t)

ConstructorAccessCheck(p, e, t, constructor, explicit) ==
    /\ SameOutermost(p, e.type, t) \/ constructor.access # "private"
    /\ \/ SamePackage(p, e.type, t) \/ constructor.access = "public"
       \/ constructor.access = "protected" /\ explicit

\* base is the form of the expression before the dot.
MemberAccessCheck(p, e, t, m, base) ==
    \/ SameOutermost(p, e.type, m.owner)
    \/ m.access = "public"
    \/ m.access = "" /\ SamePackage(p, e.type, m.owner)
    \/ /\ m.access = "protected"
       /\ p.types[t].kind # "interface"
       /\ \/ SamePackage(p, e.type, m.owner)
          \/ base = "super"
          \/ /\ HasProtectedAccessTo(p, e.type, m.owner)
             /\ m.static \/ \E outer \in ToSet(Levels(p, e.type)) : IsSubclass(p, t, outer)

ProtectedAccessCheck(p, e, owner) == IsSubclass(p, e.type, owner) \/ SamePackage(p, e.type, owner)

-----------------------------------------------------------------------------
(* Access methods: static methods of a class owner that use a member through   *)
(* a base of some type, on an instance that they are given.  Where the base is *)
(* the superclass of the owner they use the member of super.                 *)

NoAccessor == [owner |-> NoType, member |-> 0]
AccessMethod(p, owner, id, base, write) ==
    LET static == p.members[id].static
        super == base = Super(p, owner)
    IN  [owner |-> owner, member |-> id, base |-> base, write |-> write,
         special |-> super /\ ~static,
         instance |-> IF static THEN NoType ELSE IF super THEN owner ELSE base]

\* The assertions that they begin with.
OfMethod(p, e, owner, id, base) ==
    LET m == p.members[id]
    IN  \/ m.access = "private" /\ owner = m.owner
        \/ m.access = "protected" /\ ~ProtectedAccessCheck(p, e, m.owner)
        \/ base = Super(p, owner) /\ ~m.static
OfField(p, e, owner, id, base) ==
    LET m == p.members[id]
    IN  \/ m.access = "private" /\ owner = m.owner
        \/ /\ m.access = "protected"
           /\ ~ProtectedAccessCheck(p, e, m.owner) \/ (base = Super(p, owner) /\ ~m.static)

GetReadAccessMethodOfMethod(p, e, owner, id, base) ==
    IF OfMethod(p, e, owner, id, base) THEN AccessMethod(p, owner, id, base, FALSE) ELSE Aborted
GetReadAccessMethodOfField(p, e, owner, id, base) ==
    IF OfField(p, e, owner, id, base) THEN AccessMethod(p, owner, id, base, FALSE) ELSE Aborted
GetWriteAccessMethod(p, e, owner, id, base) ==
    IF OfField(p, e, owner, id, base) THEN AccessMethod(p, owner, id, base, TRUE) ELSE Aborted
GetWriteAccessFromReadAccess(p, e, read) ==
    GetWriteAccessMethod(p, e, read.owner, read.member, read.base)

\* A private constructor takes one more argument, of a class that is made for
\* it, where another class calls it.
GetReadAccessConstructor(p, inner, t, k) ==
    [owner |-> t, member |-> k, instance |-> EnclosingType(p, inner, t)]

MethodThrough(access, id, base, args) ==
    IF access = Aborted THEN Aborted
    ELSE [op |-> "method", what |-> id, base |-> base, access |-> access, args |-> args]
\* A field that is written has been read before: it has both access methods.
FieldThrough(p, e, read, id, base, u) ==
    IF read = Aborted THEN Aborted
    ELSE [op |-> "field", what |-> id, base |-> base, args |-> <<>>,
          access |-> IF u.write THEN GetWriteAccessFromReadAccess(p, e, read) ELSE read]

Member(p, e, id, base, owner, u, args) ==
    LET m == p.members[id]
    IN  CASE owner = NoType ->
               [op |-> m.kind, what |-> id, base |-> base, access |-> NoAccessor,
                args |-> IF m.kind = "field" THEN <<>> ELSE EmitMethodArguments(m, args)]
          [] owner # NoType /\ m.kind = "method" ->
               MethodThrough(GetReadAccessMethodOfMethod(p, e, owner, id, base.as), id, base, args)
          [] OTHER ->
               FieldThrough(p, e, GetReadAccessMethodOfField(p, e, owner, id, base.as), id, base, u)

-----------------------------------------------------------------------------
(* Simple names. *)

Locals(p, t, place, name) ==
    {k \in DOMAIN p.locals : LET v == p.locals[k]
                             IN  v.owner = t /\ v.place = place /\ v.name = name}

\* The innermost class that has one, from which its kind follows.
FindInEnvironment(p, e, Has(_, _)) ==
    LET levels == Levels(p, e.type)
    IN  SelectInSeq([i \in DOMAIN levels |-> i], LAMBDA i : Has(levels[i], EnvPlace(p, e, i)))

\* A member found in a class: of this class, or of one around it.
CreateAccessToScopedMember(p, inner, copies, e, u, id, level, args) ==
    LET m == p.members[id]
        t == Levels(p, e.type)[level]
        base == IF m.static THEN Base("type", <<t>>)
                ELSE CreateAccessToType(p, inner, copies, e, t, IsSubclass(p, e.type, t))
        owner == IF \/ m.access = "private"
                    \/ m.access = "protected" /\ ~ProtectedAccessCheck(p, e, m.owner)
                 THEN t ELSE NoType
        \* Of a static member the class that declares it.
        own == IF m.static THEN Base("type", <<m.owner>>) ELSE Base("this", <<t>>)
    IN  IF level = 1 THEN Member(p, e, id, own, NoType, u, args)
        ELSE IF Fails(base) THEN base
        ELSE Member(p, e, id, [base EXCEPT !.as = t], owner, u, args)

\* Where an instance is needed, and there is none.
CheckSimpleName(e, m, level) ==
    m.static \/ e.place = "i" \/ e.place = "" \/ (e.place = "c" /\ level > 1)

LocalVariable(p, inner, copies, e, local) ==
    LET holder == FindLocalVariable(p, inner, local, e.type)
        base == IF holder = e.type THEN Base("this", <<e.type>>)
                ELSE CreateAccessToType(p, inner, copies, e, holder, IsSubclass(p, e.type, holder))
    IN  IF Fails(base) THEN base
        ELSE [op |-> "local", what |-> local, base |-> base, holder |-> holder]

Constant(local) == [op |-> "constant", what |-> local]

NamedAt(p, inner, copies, e, u, level, locals, fields) ==
    IF locals # {}
    THEN LET local == CHOOSE k \in locals : TRUE
         IN  CASE level > 1 /\ ~p.locals[local].final -> Failed
               [] level > 1 /\ p.locals[local].constant -> Constant(local)
               [] OTHER -> LocalVariable(p, inner, copies, e, local)
    ELSE IF Len(fields) > 1 \/ ~CheckSimpleName(e, p.members[fields[1]], level) THEN Failed
         ELSE CreateAccessToScopedMember(p, inner, copies, e, u, fields[1], level, <<>>)

ProcessName(p, inner, copies, e, u) ==
    LET Has(t, place) == Locals(p, t, place, u.name) # {} \/ FieldTable(p, t, u.name) # <<>>
        At(level) == IF level = 0 THEN Failed
                     ELSE LET t == Levels(p, e.type)[level]
                          IN  NamedAt(p, inner, copies, e, u, level,
                                      Locals(p, t, EnvPlace(p, e, level), u.name),
                                      FieldTable(p, t, u.name))
    IN  At(FindInEnvironment(p, e, Has))

\* Static imports are tried when no class around the call has an applicable one.
StaticImported(p, u) ==
    LET count == Len(u.args)
        Found(t) == LET ids == MethodTable(p, t, u.name)
                        first == SelectInSeq(ids, LAMBDA i : /\ p.members[i].static
                                                             /\ MethodApplicableByArity(p.members[i], count))
                    IN  IF first = 0 THEN <<>> ELSE <<ids[first]>>
        single == FlattenSeq([i \in DOMAIN p.imports.single |->
                                IF p.imports.single[i].name = u.name
                                THEN Found(p.imports.single[i].type) ELSE <<>>])
        demand == FoldLeft(LAMBDA q, t : q \o SelectSeq(Found(t), LAMBDA i : i \notin ToSet(q)),
                           <<>>, p.imports.demand)
    IN  IF single # <<>> THEN single ELSE demand

\* own is what the class at the level has for the call, imported what imports have.
Called(p, inner, copies, e, u, level, own, imported) ==
    CASE own = <<>> /\ Len(imported) = 1 ->
           LET m == p.members[imported[1]]
           IN  Member(p, e, imported[1], Base("type", <<m.owner>>), NoType, u,
                      MethodInvocationConversion(p, m, u.args))
      [] Len(own) = 1 /\ CheckSimpleName(e, p.members[own[1]], level) ->
           CreateAccessToScopedMember(p, inner, copies, e, u, own[1], level,
                                      MethodInvocationConversion(p, p.members[own[1]], u.args))
      [] OTHER -> Failed

CalledAt(p, inner, copies, e, u, level) ==
    Called(p, inner, copies, e, u, level,
           IF level = 0 THEN <<>>
           ELSE FindMethod(p, p.members, MethodTable(p, Levels(p, e.type)[level], u.name), u.args),
           StaticImported(p, u))

ProcessMethodName(p, inner, copies, e, u) ==
    CalledAt(p, inner, copies, e, u,
             FindInEnvironment(p, e, LAMBDA t, place : MethodTable(p, t, u.name) # <<>>))

-----------------------------------------------------------------------------
(* this and super, of the class of the code or of one around it. *)

ProcessThisExpression(p, inner, copies, e, t) ==
    CASE t = NoType \/ t = e.type -> IF StaticRegion(e.place) THEN Failed
                                     ELSE Base("this", <<e.type>>)
      [] t \notin {NoType, e.type} /\ ~IsNestedIn(p, e.type, t) -> Failed
      [] OTHER -> CreateAccessToType(p, inner, copies, e, t, TRUE)

ProcessSuperExpression(p, inner, copies, e, t) ==
    LET this == ProcessThisExpression(p, inner, copies, e, t)
    IN  IF Fails(this) THEN this ELSE SuperBase(p, this, IF t = NoType THEN e.type ELSE t)

ProcessBase(p, inner, copies, e, base) ==
    CASE base.form = "this" -> ProcessThisExpression(p, inner, copies, e, base.type)
      [] base.form = "super" -> ProcessSuperExpression(p, inner, copies, e, base.type)
      [] OTHER -> Base(base.form, <<base.type>>)

-----------------------------------------------------------------------------
(* Qualified names. *)

\* The innermost class around the use that is a subclass of the type.
Environment(p, e, t) == LET levels == Levels(p, e.type)
                            i == SelectInSeq(levels, LAMBDA c : IsSubclass(p, c, t))
                        IN  IF i = 0 THEN NoType ELSE levels[i]

\* of is the class whose super it is, where it is named: T.super.
Target(base, m, qualified) == IF ~m.static /\ base.of # "" /\ qualified THEN base.of ELSE m.owner

AccessedMember(p, e, base, u, id, args, needed) ==
    LET m == p.members[id]
        target == Target(base, m, u.base.type # NoType)
        owner == IF m.access = "private" THEN m.owner ELSE Environment(p, e, target)
    IN  CASE ~needed -> Member(p, e, id, base, NoType, u, args)
          [] needed /\ m.access # "private" /\ owner \in {NoType, m.owner, e.type} -> Aborted
          [] OTHER -> Member(p, e, id, base, owner, u, args)

Accessible(p, e, base, u, ids) ==
    SelectSeq(ids, LAMBDA i : MemberAccessCheck(p, e, base.as, p.members[i], u.base.form))

VariableMember(p, e, base, u, ids) ==
    LET m == p.members[ids[1]]
        target == Target(base, m, u.base.type # NoType)
        needed == \/ m.access = "private" /\ m.owner # e.type
                  \/ /\ m.access = "protected" /\ target # e.type
                     /\ ~ProtectedAccessCheck(p, e, m.owner) \/ target # m.owner
    IN  IF Len(ids) # 1 \/ (u.base.form = "type" /\ ~m.static) THEN Failed
        ELSE AccessedMember(p, e, base, u, ids[1], <<>>, needed)
FindVariableMember(p, e, base, u) ==
    VariableMember(p, e, base, u, Accessible(p, e, base, u, FieldTable(p, base.as, u.name)))

MethodMember(p, e, base, u, found) ==
    LET m == p.members[found[1]]
        target == Target(base, m, u.base.type # NoType)
        needed == CASE m.access = "private" -> m.owner # e.type
                    [] m.access = "protected" /\ ~ProtectedAccessCheck(p, e, m.owner) -> target # e.type
                    [] OTHER -> target \notin {m.owner, e.type}
    IN  IF Len(found) # 1 \/ (u.base.form = "type" /\ ~m.static) THEN Failed
        ELSE AccessedMember(p, e, base, u, found[1], MethodInvocationConversion(p, m, u.args), needed)
FindMethodMember(p, e, base, u) ==
    MethodMember(p, e, base, u,
                 FindMethod(p, p.members, Accessible(p, e, base, u, MethodTable(p, base.as, u.name)), u.args))

MemberOf(p, e, u, base) ==
    CASE Fails(base) -> base
      [] ~Fails(base) /\ ~TypeAccessCheck(p, e, base.as) -> Failed
      [] OTHER -> IF u.op = "name" THEN FindVariableMember(p, e, base, u)
                  ELSE FindMethodMember(p, e, base, u)
ProcessQualified(p, inner, copies, e, u) ==
    MemberOf(p, e, u, ProcessBase(p, inner, copies, e, u.base))

\* A simple or a qualified name, a call, or this.
Resolve(p, inner, copies, e, u) ==
    CASE u.op = "this" -> ProcessThisExpression(p, inner, copies, e, u.base.type)
      [] u.op = "name" /\ u.base.form = "none" -> ProcessName(p, inner, copies, e, u)
      [] u.op = "call" /\ u.base.form = "none" -> ProcessMethodName(p, inner, copies, e, u)
      [] OTHER -> ProcessQualified(p, inner, copies, e, u)

-----------------------------------------------------------------------------
(***************************************************************************)
(* The bodies of classes that are nested in each other (expr_primary.cpp,     *)
(* body.cpp, symbol.cpp).                                                     *)
(*                                                                           *)
(* The fields this$0, the copies val$x and the access methods are added to   *)
(* the classes while the bodies are processed, one after another: what is    *)
(* added late has to reach the constructors and the creations that were      *)
(* resolved before.  A creation of a local class whose body is still being   *)
(* processed waits for its copies to be known.                               *)
(*                                                                           *)
(* p.code is the sequence in which the bodies are processed: uses of names,   *)
(* constructor calls ("super", "self"), creations ("new"), and the "begin"    *)
(* and the "end" of the body of a local or an anonymous class.               *)
(***************************************************************************)
CONSTANTS
    Families    \* Sets of programs

VARIABLES
    program,    \* The declarations and the code
    at,         \* The next entry of the code
    this0,      \* The classes that have a field this$0
    shadows,    \* The local variables of which each class has a copy, in order
    accessors,  \* The access methods made so far
    completed,  \* The local classes whose copies are all known
    pending,    \* The creations of each local class that wait for them
    emitted,    \* The code: the environment of each use, and what it resolved to
    outcome     \* "", "error", or "abort" where an assertion of the compiler fails

vars == <<program, at, this0, shadows, accessors, completed, pending, emitted, outcome>>

Entry == program.code[at]
Env(u) == [type |-> u.type, place |-> u.place]
NoBase == [op |-> "none", types |-> <<>>]

-----------------------------------------------------------------------------
(* Constructors. *)

Constructor(p, e, t, args, explicit) ==
    LET declared == p.types[t].ctors
        accessible == SelectSeq([k \in DOMAIN declared |-> k],
                                LAMBDA k : ConstructorAccessCheck(p, e, t, declared[k], explicit))
        found == FindConstructor(p, declared, accessible, args)
    IN  IF Len(found) = 1 THEN found[1] ELSE 0

\* A call of a constructor of class t: from another class a private one is
\* called by way of an access constructor.
Construction(p, inner, op, t, k, base, e, args) ==
    LET m == p.types[t].ctors[k]
    IN  IF Fails(base) THEN base
        ELSE IF k = 0 THEN Failed
        ELSE [op |-> op, what |-> t, constructor |-> k, base |-> base,
              access |-> IF m.access = "private" /\ e.type # t
                         THEN GetReadAccessConstructor(p, inner, t, k) ELSE NoAccessor,
              args |-> EmitConstructorArguments(m, MethodInvocationConversion(p, m, args)),
              outer |-> NoBase, locals |-> <<>>]

\* The instance that a created object is created in.
CreationBase(p, inner, copies, e, t, base) ==
    LET enclosing == EnclosingType(p, inner, t)
    IN  CASE base.form = "none" /\ enclosing = NoType -> NoBase
          [] base.form = "none" /\ enclosing # NoType ->
               CreateAccessToType(p, inner, copies, e, enclosing, IsLocal(p, t))
          [] OTHER -> IF p.types[t].static THEN Failed ELSE Base(base.form, <<base.type>>)

\* The class that is named: of a member of the type before the dot.
ProcessType(p, e, t, base) ==
    TypeAccessCheck(p, e, t) /\ (base.form = "none" \/ FindNestedType(p, base.type, t))

ProcessClassCreationExpression(p, inner, copies, e, u) ==
    IF ~ProcessType(p, e, u.class, u.base) THEN Failed ELSE
    Construction(p, inner, "new", u.class, Constructor(p, e, u.class, u.args, FALSE),
                 CreationBase(p, inner, copies, e, u.class, u.base), e, u.args)

ProcessSuperCall(p, inner, copies, e, u) ==
    LET super == Super(p, e.type)
        enclosing == EnclosingType(p, inner, super)
        base == CASE u.base.form = "none" /\ enclosing = NoType -> NoBase
                  [] u.base.form = "none" /\ enclosing # NoType ->
                       CreateAccessToType(p, inner, copies, e, enclosing, FALSE)
                  [] OTHER -> IF enclosing = NoType \/ ~IsSubclass(p, u.base.type, enclosing)
                              THEN Failed ELSE Base("value", <<u.base.type>>)
    IN  Construction(p, inner, "super", super, Constructor(p, e, super, u.args, TRUE), base, e, u.args)

ProcessThisCall(p, inner, e, u) ==
    Construction(p, inner, "self", e.type, Constructor(p, e, e.type, u.args, TRUE), NoBase, e, u.args)

-----------------------------------------------------------------------------
(* The copies that a creation passes to the constructor of a local class. *)

LocalArguments(p, inner, copies, e, t) ==
    [k \in DOMAIN copies[t] |-> LocalVariable(p, inner, copies, e, copies[t][k])]
WithLocalArguments(p, inner, copies, e, t) ==
    FoldLeft(LAMBDA c, local : FindOrInsertLocalShadow(p, inner, c, local, e.type), copies, copies[t])

\* The state of the local classes: st.shadows, st.completed, st.pending, st.emitted.
Attach(p, inner, st, t, entry, e) ==
    LET copies == WithLocalArguments(p, inner, st.shadows, e, t)
    IN  [st EXCEPT !.shadows = copies,
                   !.emitted[entry].node.locals = LocalArguments(p, inner, copies, e, t)]
AddLocalConstructorCallEnvironment(st, t, entry, e) ==
    [st EXCEPT !.pending[t] = Append(@, [entry |-> entry, e |-> e])]

\* Mutant: the copies that are known so far are passed.
CreatedAtOnce(p, inner, st, t, entry, e) ==
    IF IsLocal(p, t) THEN Attach(p, inner, st, t, entry, e) ELSE st

\* The emitted creation of t, or call of its constructor.
CreateLocal(p, inner, st, t, entry, e) ==
    CASE ~IsLocal(p, t) -> st
      [] IsLocal(p, t) /\ t \in st.completed -> Attach(p, inner, st, t, entry, e)
      [] OTHER -> AddLocalConstructorCallEnvironment(st, t, entry, e)

\* An anonymous subclass that waits for this class is complete after it.
RECURSIVE UpdateLocalConstructors(_, _, _, _)
UpdateLocalConstructors(p, inner, st, t) ==
    FoldLeft(LAMBDA done, call :
               LET attached == Attach(p, inner, done, t, call.entry, call.e)
               IN  IF IsAnonymous(p, call.e.type) /\ call.e.type \notin done.completed
                   THEN UpdateLocalConstructors(p, inner, attached, call.e.type) ELSE attached,
             [st EXCEPT !.completed = @ \cup {t}], st.pending[t])

-----------------------------------------------------------------------------
(* The machine. *)

Init ==
    /\ \E family \in Families : program \in family
    /\ at = 1
    /\ this0 = {t \in DOMAIN program.types : program.types[t].nest = "member" /\ ~program.types[t].static}
    /\ shadows = [t \in DOMAIN program.types |-> <<>>]
    /\ accessors = {}
    /\ completed = {}
    /\ pending = [t \in DOMAIN program.types |-> <<>>]
    /\ emitted = <<>>
    /\ outcome = ""

State == [shadows |-> shadows, completed |-> completed, pending |-> pending, emitted |-> emitted]

\* A class on the way of an access is given a field this$0 if it has none.
Arguments(node) == IF "locals" \in DOMAIN node THEN ToSet(node.locals) ELSE {}
Bases(node) == IF node.op = "base" THEN {node}
               ELSE {other.base : other \in {n \in {node} \cup Arguments(node) : "base" \in DOMAIN n}}
                    \cup (IF "outer" \in DOMAIN node THEN {node.outer} ELSE {})
Hops(base) == {base.types[k] : k \in 1..Len(base.types) - 1}
InsertedThis0(st) == UNION {Hops(base) : base \in UNION {Bases(x.node) : x \in ToSet(st.emitted)}}

AccessMethods(st) ==
    LET used == {x.node.access : x \in {y \in ToSet(st.emitted) : "access" \in DOMAIN y.node}} \ {NoAccessor}
        written == {access \in used : "write" \in DOMAIN access /\ access.write}
    IN  used \cup {[access EXCEPT !.write = FALSE] : access \in written}

Failures(st) == {n.op : n \in {m \in UNION {Arguments(x.node) : x \in ToSet(st.emitted)} : Fails(m)}}

Fail(op) == /\ outcome' = op
            /\ UNCHANGED <<program, at, this0, shadows, accessors, completed, pending, emitted>>

Become(st, inner) ==
    IF Failures(st) # {} THEN Fail(IF "abort" \in Failures(st) THEN "abort" ELSE "error")
    ELSE /\ shadows' = st.shadows /\ completed' = st.completed
         /\ pending' = st.pending /\ emitted' = st.emitted
         /\ this0' = inner \cup InsertedThis0(st)
         /\ accessors' = AccessMethods(st)
         /\ at' = at + 1
         /\ UNCHANGED <<program, outcome>>

Emit(st, e, node) == [st EXCEPT !.emitted = Append(@, [e |-> e, use |-> Entry, node |-> node])]
Running(ops) == outcome = "" /\ at <= Len(program.code) /\ Entry.op \in ops

\* A local variable around the class is copied first.
Copied(p, inner, copies, e, node) ==
    IF node.op = "local" THEN FindOrInsertLocalShadow(p, inner, copies, node.what, e.type) ELSE copies

Used(e, node) ==
    IF Fails(node) THEN Fail(node.op)
    ELSE Become([Emit(State, e, node) EXCEPT !.shadows = Copied(program, this0, shadows, e, node)], this0)

\* A variable, a method, or an instance.
Use ==
    /\ Running({"name", "call", "this"})
    /\ Used(Env(Entry), Resolve(program, this0, shadows, Env(Entry), Entry))

\* A creation, or an explicit or implicit call of a constructor of the superclass.
Constructed(e, node) ==
    IF Fails(node) THEN Fail(node.op)
    ELSE Become(CreateLocal(program, this0, Emit(State, e, node), node.what, Len(emitted) + 1, e), this0)

Create ==
    /\ Running({"new"})
    /\ Constructed(Env(Entry), ProcessClassCreationExpression(program, this0, shadows, Env(Entry), Entry))
CallSuper ==
    /\ Running({"super"})
    /\ Constructed(Env(Entry), ProcessSuperCall(program, this0, shadows, Env(Entry), Entry))

\* The arguments this$0 and val$x are passed on.
CallThis ==
    /\ Running({"self"})
    /\ Used(Env(Entry), ProcessThisCall(program, this0, Env(Entry), Entry))

WithThis0 == this0 \cup (IF StaticRegion(Entry.place) THEN {} ELSE {Entry.class})

BeginLocal ==
    /\ Running({"begin"}) /\ ~IsAnonymous(program, Entry.class)
    /\ Become(State, WithThis0)

EndLocal ==
    /\ Running({"end"}) /\ ~IsAnonymous(program, Entry.class)
    /\ Become(UpdateLocalConstructors(program, this0, State, Entry.class), this0)

\* The arguments of the creation go to a constructor of the superclass by way
\* of one that is made for the purpose.
GetAnonymousConstructor(p, inner, copies, e, u) ==
    LET super == Super(p, u.class)
        own == [type |-> u.class, place |-> ""]
        k == Constructor(p, own, super, u.args, TRUE)
        base == CreationBase(p, inner, copies, e, super, u.base)
    IN  IF ~ProcessType(p, e, super, u.base) THEN Failed
        ELSE Construction(p, inner, "super", super, k, base, own, u.args)

AnonymousCreation(node, u, inner) ==
    [node EXCEPT !.op = "new", !.what = u.class, !.constructor = 0, !.access = NoAccessor,
                 !.outer = node.base,
                 !.base = IF u.class \in inner THEN Base("this", <<u.type>>) ELSE NoBase]

\* node is the call of that constructor, that passes on the instance it is given.
BeginAnonymousWith(inner, node, u) ==
    LET own == [type |-> u.class, place |-> ""]
        passed == [node EXCEPT !.base = IF @.op = "none" THEN NoBase ELSE Base("value", <<Last(@.types)>>)]
    IN  IF Fails(node) THEN Fail(node.op)
        ELSE Become(CreateLocal(program, inner,
                                Emit(Emit(State, Env(u), AnonymousCreation(node, u, inner)), own, passed),
                                node.what, Len(emitted) + 2, own), inner)
BeginAnonymous ==
    /\ Running({"begin"}) /\ IsAnonymous(program, Entry.class)
    /\ BeginAnonymousWith(WithThis0, GetAnonymousConstructor(program, this0, shadows, Env(Entry), Entry), Entry)

EndAnonymous ==
    /\ Running({"end"}) /\ IsAnonymous(program, Entry.class)
    /\ LET t == Entry.class
           super == Super(program, t)
           entry == CHOOSE k \in DOMAIN emitted : emitted[k].node.op = "new" /\ emitted[k].node.what = t
           ended == IF ~IsLocal(program, super) \/ super \in completed \/ t \in this0
                    THEN [State EXCEPT !.completed = @ \cup {t}] ELSE State
       IN  Become(CreateLocal(program, this0, ended, t, entry, emitted[entry].e), this0)

Finished == outcome = "" /\ at > Len(program.code)
End == (Finished \/ outcome # "") /\ UNCHANGED vars

Next ==
    \/ Use \/ Create \/ CallSuper \/ CallThis
    \/ BeginLocal \/ EndLocal \/ BeginAnonymous \/ EndAnonymous
    \/ End

Spec == Init /\ [][Next]_vars
=============================================================================
