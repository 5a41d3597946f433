----------------------------- MODULE JavaNames ------------------------------
(***************************************************************************)
(* What the names of a program mean by the language specification, and       *)
(* whether NestedClasses accepts the same programs and gives them code of    *)
(* that meaning.                                                             *)
(***************************************************************************)
EXTENDS NestedClasses

-----------------------------------------------------------------------------
(* Instances. *)

\* The instance of the i-th class around the code is there.
Available(p, e, i) ==
    LET levels == Levels(p, e.type)
    IN  /\ ~StaticRegion(EnvPlace(p, e, i))
        /\ \A j \in 1..i - 1 : ~p.types[levels[j]].static /\ EnvPlace(p, e, j) # "s"

Instance(t) == [kind |-> "instance", type |-> t]
Value == [kind |-> "value", type |-> NoType]
Static == [kind |-> "static", type |-> NoType]
Nothing == [kind |-> "nothing", type |-> NoType]

LevelOf(p, e, t) == SelectInSeq(Levels(p, e.type), LAMBDA c : c = t)
InstanceAt(p, e, i) ==
    IF i # 0 /\ Available(p, e, i) THEN Instance(Levels(p, e.type)[i]) ELSE Nothing

-----------------------------------------------------------------------------
(* Access. *)

MaySee(p, e, t) ==
    LET type == p.types[t]
    IN  CASE type.access = "public" -> TRUE
          [] type.access = "private" -> SameOutermost(p, e.type, t)
          [] type.access = "protected" ->
               \/ SamePackage(p, e.type, t)
               \/ \E s \in ToSet(Levels(p, e.type)) : IsSubclass(p, s, type.outer)
          [] OTHER -> SamePackage(p, e.type, t)

\* A member used on a value or by the name of a class of type t.
MayUse(p, e, t, m, form) ==
    CASE m.access = "public" -> TRUE
      [] m.access = "private" -> SameOutermost(p, e.type, m.owner)
      [] m.access = "protected" ->
           \/ SamePackage(p, e.type, m.owner)
           \/ \E s \in ToSet(Levels(p, e.type)) :
                IsSubclass(p, s, m.owner) /\ (m.static \/ form = "super" \/ IsSubclass(p, t, s))
      [] OTHER -> SamePackage(p, e.type, m.owner)

MayConstruct(p, e, t, constructor, asSuper) ==
    CASE constructor.access = "public" -> TRUE
      [] constructor.access = "private" -> SameOutermost(p, e.type, t)
      [] constructor.access = "protected" -> asSuper \/ SamePackage(p, e.type, t)
      [] OTHER -> SamePackage(p, e.type, t)

-----------------------------------------------------------------------------
(* Overloading. *)

Widens(p, s, t) ==
    \/ s = t
    \/ s = "int" /\ t = "long"
    \/ {s, t} \cap Primitive = {} /\ (s = "null" \/ IsSubtype(p, s, t))
Boxes(p, s, t) ==
    \/ s \in Primitive /\ t \notin Primitive /\ Widens(p, Wrapper[s], t)
    \/ \E v \in Primitive : t \in Primitive /\ Wrapper[v] = s /\ Widens(p, v, t)

Formal(m, k, variable) ==
    IF variable /\ k >= Len(m.params) THEN Component[Last(m.params)] ELSE m.params[k]
Applicable(p, m, args, phase) ==
    /\ IF phase = "variable" THEN m.varargs /\ Len(args) + 1 >= Len(m.params)
       ELSE Len(args) = Len(m.params)
    /\ \A k \in DOMAIN args :
         LET t == Formal(m, k, phase = "variable")
         IN  Widens(p, args[k], t) \/ (phase # "subtyping" /\ Boxes(p, args[k], t))
Sharper(p, m, n, phase) ==
    \A k \in 1..(IF Len(m.params) > Len(n.params) THEN Len(m.params) ELSE Len(n.params)) :
      Widens(p, Formal(m, k, phase = "variable"), Formal(n, k, phase = "variable"))

Phases == <<"subtyping", "boxing", "variable">>
NoMethod == [id |-> 0, phase |-> ""]
\* The one of the methods found by a phase that is more specific than the others.
Sharpest(p, declared, found, phase) ==
    LET best == {i \in found : \A j \in found \ {i} : /\ Sharper(p, declared[i], declared[j], phase)
                                                    /\ ~Sharper(p, declared[j], declared[i], phase)}
    IN  IF best = {} THEN NoMethod ELSE [id |-> CHOOSE i \in best : TRUE, phase |-> phase]
Meant(p, declared, ids, args) ==
    LET applicable == [k \in DOMAIN Phases |-> {i \in ids : Applicable(p, declared[i], args, Phases[k])}]
        First(found) == LET k == SelectInSeq(found, LAMBDA methods : methods # {})
                        IN  IF k = 0 THEN NoMethod ELSE Sharpest(p, declared, found[k], Phases[k])
    IN  First(applicable)

Passed(m, args, phase) ==
    IF phase # "variable" THEN [k \in DOMAIN args |-> Converted(k, m.params[k])]
    ELSE LET fixed == Len(m.params) - 1
         IN  Append([k \in 1..fixed |-> Converted(k, m.params[k])],
                    IF Len(args) > fixed THEN NewArray(Last(m.params), fixed + 1, Len(args))
                    ELSE NewArray(Last(m.params), 1, 0))

-----------------------------------------------------------------------------
(* The meaning of a use: what it names, and the instance it is used on; of a  *)
(* call also the arguments that are passed.                                   *)

Meaning(what, on) == [what |-> what, on |-> on, args |-> <<>>, special |-> FALSE]
Illegal == Meaning(<<"illegal", 0>>, Nothing)

InnerLevel(p, e, Has(_, _)) ==
    LET levels == Levels(p, e.type)
    IN  SelectInSeq([i \in DOMAIN levels |-> i], LAMBDA i : Has(levels[i], EnvPlace(p, e, i)))

OnLevel(p, e, m, id, i, args) ==
    LET on == IF m.static THEN Static ELSE InstanceAt(p, e, i)
    IN  IF on = Nothing THEN Illegal ELSE [Meaning(<<"member", id>>, on) EXCEPT !.args = args]

NameAt(p, e, u, level, locals, fields) ==
    IF locals # {}
    THEN LET local == CHOOSE k \in locals : TRUE
         IN  IF level > 1 /\ ~p.locals[local].final THEN Illegal
             ELSE Meaning(<<"local", local>>, Nothing)
    ELSE IF Len(fields) # 1 THEN Illegal
         ELSE OnLevel(p, e, p.members[fields[1]], fields[1], level, <<>>)
NameMeaning(p, e, u) ==
    LET Has(t, place) == Locals(p, t, place, u.name) # {} \/ FieldTable(p, t, u.name) # <<>>
        At(level) == IF level = 0 THEN Illegal
                     ELSE LET t == Levels(p, e.type)[level]
                          IN  NameAt(p, e, u, level, Locals(p, t, EnvPlace(p, e, level), u.name),
                                     FieldTable(p, t, u.name))
    IN  At(InnerLevel(p, e, Has))

\* A single import hides those on demand.
Imported(p, name) ==
    LET Statics(t) == {i \in ToSet(MethodTable(p, t, name)) : p.members[i].static}
        single == UNION {Statics(import.type) : import \in
                           {i \in ToSet(p.imports.single) : i.name = name}}
    IN  IF single # {} THEN single ELSE UNION {Statics(t) : t \in ToSet(p.imports.demand)}

CallAt(p, e, u, level, meant) ==
    IF meant = NoMethod THEN Illegal
    ELSE LET m == p.members[meant.id]
         IN  OnLevel(p, e, m, meant.id, level, Passed(m, u.args, meant.phase))
CallMeaning(p, e, u) ==
    LET Has(t, place) == MethodTable(p, t, u.name) # <<>>
        At(level) == CallAt(p, e, u, level,
                            Meant(p, p.members,
                                  IF level = 0 THEN Imported(p, u.name)
                                  ELSE ToSet(MethodTable(p, Levels(p, e.type)[level], u.name)),
                                  u.args))
    IN  At(InnerLevel(p, e, Has))

\* The class whose instance, or whose superclass, is named before the dot.
Named(e, base) == IF base.type = NoType THEN e.type ELSE base.type
BaseInstance(p, e, base) ==
    CASE base.form \in {"this", "super"} -> InstanceAt(p, e, LevelOf(p, e, Named(e, base)))
      [] base.form = "value" -> Value
      [] OTHER -> Static

MeaningOn(p, u, on, meant) ==
    LET m == p.members[meant.id]
    IN  IF meant = NoMethod \/ on = Nothing \/ (on = Static /\ ~m.static) THEN Illegal
        ELSE [what |-> <<"member", meant.id>>, on |-> IF m.static THEN Static ELSE on,
              args |-> IF u.op = "call" THEN Passed(m, u.args, meant.phase) ELSE <<>>,
              special |-> u.op = "call" /\ u.base.form = "super" /\ ~m.static]
QualifiedMeaning(p, e, u) ==
    LET t == IF u.base.form = "super" THEN Super(p, Named(e, u.base)) ELSE Named(e, u.base)
        ids == IF u.op = "call" THEN MethodTable(p, t, u.name) ELSE FieldTable(p, t, u.name)
        Choice(usable) == IF u.op = "call" THEN Meant(p, p.members, usable, u.args)
                          ELSE IF Cardinality(usable) # 1 THEN NoMethod
                          ELSE [id |-> CHOOSE i \in usable : TRUE, phase |-> ""]
    IN  IF ~MaySee(p, e, t) THEN Illegal
        ELSE MeaningOn(p, u, BaseInstance(p, e, u.base),
                       Choice({i \in ToSet(ids) : MayUse(p, e, t, p.members[i], u.base.form)}))

-----------------------------------------------------------------------------
(* Constructors. *)

IsMember(p, inner, t) ==
    /\ p.types[inner].nest = "member"
    /\ LET outer == ContainingType(p, inner)
       IN  t = outer \/ (IsSubtype(p, t, outer)
                         /\ (p.types[inner].access \in {"public", "protected"}
                             \/ (p.types[inner].access = "" /\ SamePackage(p, t, outer))))

\* Objects of the class have an enclosing instance.
HasInstance(p, t) == /\ ContainingType(p, t) # NoType /\ ~p.types[t].static
                     /\ (p.types[t].nest = "member" \/ ~StaticRegion(p.types[t].place))

\* The instance around an object of class t that is created in e, or by a
\* constructor of a subclass: there the class itself does not count.
EnclosingInstance(p, e, t, asSuper) ==
    LET levels == Levels(p, e.type)
        Suits(c) == IF p.types[t].nest = "member" THEN IsMember(p, t, c) ELSE c = ContainingType(p, t)
    IN  IF ~HasInstance(p, t) THEN Static
        ELSE InstanceAt(p, e, SelectInSeq([i \in DOMAIN levels |-> i],
                                          LAMBDA i : Suits(levels[i]) /\ (asSuper => i > 1)))

OnObject(p, e, t, u, asSuper) ==
    CASE u.base.form = "none" -> EnclosingInstance(p, e, t, asSuper)
      [] u.base.form # "none" /\ HasInstance(p, t)
           /\ (IF asSuper THEN IsSubtype(p, u.base.type, ContainingType(p, t))
               ELSE IsMember(p, t, u.base.type)) -> Value
      [] OTHER -> Nothing

\* The class of which a constructor is called.
Constructs(p, u) ==
    CASE u.op = "super" -> Super(p, u.type)
      [] u.op = "self" -> u.type
      [] u.op = "begin" -> Super(p, u.class)
      [] OTHER -> u.class

\* asSuper: the constructor is called by one of a subclass.
ConstructorMeaning(p, e, u, t) ==
    LET declared == p.types[t].ctors
        asSuper == u.op # "new"
        Chosen(on, meant) ==
          IF meant = NoMethod \/ on = Nothing \/ ~MaySee(p, e, t) THEN Illegal
          ELSE [Meaning(<<"constructor", meant.id, t>>, on) EXCEPT
                  !.args = Passed(declared[meant.id], u.args, meant.phase)]
    IN  Chosen(IF u.op = "self" THEN Static ELSE OnObject(p, e, t, u, u.op = "super"),
               Meant(p, declared,
                     {k \in DOMAIN declared : MayConstruct(p, e, t, declared[k], asSuper)}, u.args))

MeaningIn(p, e, u) ==
    CASE u.op \in {"name", "call"} /\ u.base.form # "none" -> QualifiedMeaning(p, e, u)
      [] u.op = "name" /\ u.base.form = "none" -> NameMeaning(p, e, u)
      [] u.op = "call" /\ u.base.form = "none" -> CallMeaning(p, e, u)
      [] u.op = "this" -> LET on == BaseInstance(p, e, u.base)
                          IN  IF on = Nothing THEN Illegal ELSE Meaning(<<"this", 0>>, on)
      [] u.op = "end" \/ (u.op = "begin" /\ ~IsAnonymous(p, u.class)) -> Meaning(<<"class", 0>>, Nothing)
      [] OTHER -> ConstructorMeaning(p, e, u, Constructs(p, u))
MeaningOf(p, u) == MeaningIn(p, Env(u), u)
Legal(p, u) == MeaningOf(p, u) # Illegal

-----------------------------------------------------------------------------
(* The code that was emitted, when all bodies are: this0 and shadows are the  *)
(* fields that the classes have in the end.                                   *)

\* A virtual machine sees packages, and no nesting.
ClassSeen(p, from, t) == SamePackage(p, from, t) \/ p.types[t].access \in {"public", "protected"}
MemberSeen(p, from, m, t) ==
    CASE m.access = "public" -> TRUE
      [] m.access = "private" -> from = m.owner
      [] m.access = "protected" ->
           SamePackage(p, from, m.owner) \/ (IsSubclass(p, from, m.owner)
                                            /\ (m.static \/ IsSubclass(p, t, from)))
      [] OTHER -> SamePackage(p, from, m.owner)

\* The fields this$0 on the way are there; before the constructor of the
\* superclass has run, those of the parameters are read.
Reaches(p, e, base) ==
    LET first == IF base.from = "this" THEN 1 ELSE 2
        count == Len(base.types)
    IN  /\ base.types = SubSeq(Levels(p, e.type), first, first + count - 1)
        /\ Hops(base) \subseteq this0
        /\ CASE base.from = "this" -> e.place = "i" \/ (e.place \in {"c", ""} /\ count > 1)
             [] OTHER -> e.place = "c" /\ e.type \in this0

Denotes(p, e, base) ==
    CASE base.op = "none" -> Static
      [] base.op = "base" /\ base.from = "type" -> Static
      [] base.op = "base" /\ base.from = "value" -> Value
      [] OTHER -> IF Reaches(p, e, base) THEN Instance(Last(base.types)) ELSE Nothing

\* The value of the variable: of this body, or of the copy of a class.
ReadsLocal(p, e, node) ==
    IF node.holder = p.locals[node.what].owner THEN node.holder = e.type
    ELSE /\ node.what \in ToSet(shadows[node.holder])
         /\ IF node.holder = e.type THEN e.place # "s"
            ELSE Denotes(p, e, node.base) = Instance(node.holder)

\* The instruction names the class the base is of, and is in the class of the
\* use or in an access method of another one.
MemberMeans(p, e, u, node, meaning) ==
    LET m == p.members[node.what]
        own == node.access = NoAccessor
        from == IF own THEN e.type ELSE node.access.owner
        on == IF own THEN node.base.as ELSE node.access.base
        of == IF own /\ node.base.of # "" THEN node.base.of ELSE from
        super == IF own THEN node.base.of # "" ELSE node.access.special
    IN  /\ <<"member", node.what>> = meaning.what /\ node.args = meaning.args
        /\ m.static \/ Denotes(p, e, node.base) = meaning.on
        /\ MemberSeen(p, from, m, IF super THEN of ELSE on) /\ ClassSeen(p, from, on)
        /\ own \/ (/\ SamePackage(p, e.type, from) /\ node.access.write = u.write
                  /\ (m.static \/ IsSubtype(p, Last(node.base.types), node.access.instance)))
        /\ meaning.special => /\ super /\ from = Named(e, u.base)
                              /\ on = Super(p, from) /\ of = from
        /\ ~meaning.special /\ m.kind = "method" /\ ~m.static => ~super

\* The constructor gets an instance if the class has this$0, and every copy.
InstancePassed(p, e, t, base, on) ==
    Denotes(p, e, base) = on /\ (base.op = "none" <=> t \notin this0)
CopiesPassed(p, e, t, locals) ==
    /\ [k \in DOMAIN locals |-> locals[k].what] = shadows[t]
    /\ \A local \in ToSet(locals) : ReadsLocal(p, e, local)

ConstructorMeans(p, e, node, meaning) ==
    LET t == node.what
        m == p.types[t].ctors[node.constructor]
    IN  /\ <<"constructor", node.constructor, t>> = meaning.what /\ node.args = meaning.args
        /\ (node.access # NoAccessor) <=> (m.access = "private" /\ e.type # t)
        /\ node.access # NoAccessor => node.access.instance = EnclosingType(p, this0, t)
        /\ ClassSeen(p, e.type, t)
        /\ node.op = "self" \/ (/\ InstancePassed(p, e, t, node.base, meaning.on)
                               /\ CopiesPassed(p, e, t, node.locals))

\* The creation passes on the instance for the superclass, besides its own.
AnonymousMeans(p, e, u, node, meaning) ==
    /\ node.what = u.class
    /\ Denotes(p, e, node.outer) = meaning.on
    /\ InstancePassed(p, e, u.class, node.base,
                      IF u.class \in this0 THEN InstanceAt(p, e, 1) ELSE Static)
    /\ CopiesPassed(p, e, u.class, node.locals)

Means(p, x, meaning) ==
    CASE x.use.op = "this" -> Denotes(p, x.e, x.node) = meaning.on
      [] x.node.op = "constant" -> meaning.what = <<"local", x.node.what>>
      [] x.node.op = "local" -> meaning.what = <<"local", x.node.what>> /\ ReadsLocal(p, x.e, x.node)
      [] x.node.op \in {"field", "method"} -> MemberMeans(p, x.e, x.use, x.node, meaning)
      [] x.use.op = "begin" /\ x.node.op = "new" -> AnonymousMeans(p, x.e, x.use, x.node, meaning)
      [] x.use.op = "begin" /\ x.node.op = "super" ->
           ConstructorMeans(p, x.e, x.node,
                            [meaning EXCEPT !.on = IF @ = Static THEN Static ELSE Value])
      [] OTHER -> ConstructorMeans(p, x.e, x.node, meaning)

-----------------------------------------------------------------------------
(* Properties. *)

\* The compiler accepts what the language specification does, and no assertion
\* of it fails: every use means something, or is where it stopped with an error.
JudgedAsJava ==
    LET last == IF outcome = "error" THEN at ELSE at - 1
    IN  /\ outcome # "abort"
        /\ last > 0 => (Legal(program, program.code[last]) <=> outcome = "")

\* When all bodies are processed, the code of every use reaches what the use
\* means, from the instance it means, and passes what the callee takes.
CodeMeansSource ==
    Finished => \A x \in ToSet(emitted) : Means(program, x, MeaningOf(program, x.use))
=============================================================================
