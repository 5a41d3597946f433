------------------------------ MODULE Members -------------------------------
(***************************************************************************)
(* Inheritance: the expanded tables that decl.cpp computes for a type (its   *)
(* own members and those it inherits, with the conflicts among them), the    *)
(* checks it makes when a method meets another, the bridge methods it adds,  *)
(* and the methods that reach the class file.                                *)
(*                                                                           *)
(* The tables are computed on demand: whatever body asks first for the       *)
(* members of a type has them computed, with those of all its supertypes,    *)
(* and from then on they are never computed again.  A type in which an error  *)
(* is found is marked bad, and a type that is closed after that gets nothing *)
(* from it.                                                                  *)
(***************************************************************************)
EXTENDS Declarations

CONSTANTS Families,   \* sets of programs to compile
          NoType      \* what Object extends

VARIABLES
  program,     \* [order, types, imports, asked]: the declarations, supertypes first,
               \*   the types whose members the imports of each file name, and what
               \*   the bodies ask for: [kind, type, name, from]
  members,     \* type :> its symbol table, once its members are processed
  expanded,    \* <<kind, type>> :> expanded table, a sequence of shadows
  bad,         \* the types marked bad
  reports,     \* the errors issued, <<type being processed, error>>
  generated,   \* the bridges, each listed at the method it forwards to
  completed,   \* the types whose bodies are done
  current,     \* the type whose bodies are being processed, or NoType
  files,       \* type :> the methods of its class file
  imports,     \* [stack, todo, started]: the files whose imports are being
               \*   resolved, innermost last, and what is left of each
  ready,       \* the types whose file has its imports resolved
  answers,     \* what was asked :> what was found
  hierarchy    \* [types, classes]: what the headers left for each type

vars == <<program, members, expanded, bad, reports, generated, completed, current, files,
          imports, ready, answers, hierarchy>>

Kinds == {"types", "fields", "methods"}
ObjectType == "Object"

Types == Range(program.order)
Decl(t) == program.types[t]
Flag(t, flag) == flag \in members[t].flags
IsInterface(t) == Flag(t, "interface")
Super(t) == Decl(t).super
Interfaces(t) == Decl(t).interfaces
Package(t) == Decl(t).package

\* What every type reaches by its supertypes, itself among it, when only the
\* types of passing lead on.
Above(passing) ==
    LET up[i \in 1..Len(program.order)] ==
          LET t == program.order[i]
              direct == IF t \in passing THEN {Super(t)} \cup Range(Interfaces(t)) ELSE {}
          IN  {t} \cup UNION {up[j] : j \in {k \in 1..(i - 1) : program.order[k] \in direct}}
    IN  [t \in Types |-> up[CHOOSE i \in 1..Len(program.order) : program.order[i] = t]]
SuperTypes == hierarchy.types

\* The superclasses of a type, itself first.
ChainsOfClasses ==
    LET up[i \in 1..Len(program.order)] ==
          LET t == program.order[i]
          IN  <<t>> \o (IF Super(t) = NoType THEN <<>>
                        ELSE up[CHOOSE j \in 1..(i - 1) : program.order[j] = Super(t)])
    IN  [t \in Types |-> up[CHOOSE i \in 1..Len(program.order) : program.order[i] = t]]

SuperClasses == hierarchy.classes

\* Types that no declaration describes: the primitive ones, and String.
IsSubtype(t, u) ==
    \/ t = u
    \/ t \notin {"void", "int"} /\ u = ObjectType
    \/ t \in Types /\ u \in SuperTypes[t]
IsReference(t) == IsSubtype(t, ObjectType)

\* The exceptions: Late is a subclass of Early, Never need not be declared.
CheckedException(e) == e # "Never"
IsSubException(e, f) == e = f \/ (e = "Late" /\ f = "Early")

-----------------------------------------------------------------------------
(* Expanded tables. *)

Shadow(symbol) == [symbol |-> symbol, conflicts |-> <<>>]
Symbols(shadow) == {shadow.symbol} \cup Range(shadow.conflicts)

AddConflict(shadow, symbol) ==
    IF symbol \in Symbols(shadow) THEN shadow
    ELSE [shadow EXCEPT !.conflicts = Append(@, symbol)]
AddConflicts(shadow, symbols) == FoldLeft(AddConflict, shadow, symbols)

\* The place of the shadow whose symbol is told from no other by Same, or 0.
Place(table, Same(_)) ==
    LET places == {i \in DOMAIN table : Same(table[i].symbol)}
    IN  IF places = {} THEN 0 ELSE CHOOSE i \in places : TRUE

FindOverloadMethodShadow(table, m) == Place(table, LAMBDA n : SameParameters(m, n))
FindShadow(table, v) == Place(table, LAMBDA w : w.name = v.name)

IsDefault(symbol) == symbol.flags \cap Accesses = {}

\* Public, protected, or of the same package as the type that inherits it.
Inheritable(symbol, base, super) ==
    \/ symbol.flags \cap {"public", "protected"} # {}
    \/ IsDefault(symbol) /\ Package(super) = Package(base)

\* Mutant: what is hidden behind a member kept for its package is lost with it.
InheritVisible(s, base, super, shadow) ==
    LET i == FindShadow(s.table, shadow.symbol)
    IN  IF ~Inheritable(shadow.symbol, base, super) THEN s
        ELSE IF i = 0 THEN [s EXCEPT !.table = Append(@, shadow)]
        ELSE IF s.table[i].symbol.owner = base THEN s
        ELSE [s EXCEPT !.table[i] = AddConflicts(@, <<shadow.symbol>> \o shadow.conflicts)]

\* Fields and member types.  s is [table, bad].
InheritMember(s, base, super, shadow) ==
    LET i == FindShadow(s.table, shadow.symbol)
        Insert(symbols) ==
          IF i = 0 THEN [s EXCEPT !.table = Append(@, AddConflicts(Shadow(Head(symbols)),
                                                                   Tail(symbols)))]
          ELSE IF s.table[i].symbol.owner = base THEN s
          ELSE [s EXCEPT !.table[i] = AddConflicts(@, symbols)]
    IN  CASE Inheritable(shadow.symbol, base, super) ->
               Insert(<<shadow.symbol>> \o shadow.conflicts)
          [] ~Inheritable(shadow.symbol, base, super) /\ IsDefault(shadow.symbol)
             /\ shadow.conflicts # <<>> /\ i = 0 -> Insert(shadow.conflicts)
          [] OTHER -> s

AddInheritedMembers(s, base, super, supertable, superbad) ==
    IF superbad THEN [s EXCEPT !.bad = TRUE]
    ELSE FoldLeft(LAMBDA q, shadow : InheritMember(q, base, super, shadow), s, supertable)

\* The direct supertypes in the order in which they are inherited from.
DirectSupers(t) ==
    (IF Super(t) = NoType THEN <<>> ELSE <<Super(t)>>) \o Interfaces(t)

\* One table of fields or of types: c is [expanded, bad, reports], own what t
\* declares, supers the supertypes to inherit from.
MemberClosure(c, kind, t, own, supers) ==
    LET Closed(s) == [c EXCEPT !.expanded = (<<kind, t>> :> s.table) @@ @,
                               !.bad = IF s.bad THEN @ \cup {t} ELSE @]
    IN  Closed(FoldLeft(LAMBDA s, super :
                          AddInheritedMembers(s, t, super, c.expanded[<<kind, super>>],
                                              super \in c.bad),
                        [table |-> [i \in DOMAIN own |-> Shadow(own[i])], bad |-> FALSE],
                        supers))

ComputeFieldsClosure(c, t) ==
    MemberClosure(c, "fields", t, members[t].fields, DirectSupers(t))

\* The member types are known as soon as the file is read.  Until the imports
\* of its file are resolved a type has no supertypes.
Nested(t) == NestedTypes([name |-> t, flags |-> IF Decl(t).kind = "interface"
                                                  THEN {"interface"} ELSE {}],
                         Decl(t).nested).symbols
ComputeTypesClosure(c, t) ==
    MemberClosure(c, "types", t, Nested(t), IF t \in ready THEN DirectSupers(t) ELSE <<>>)

-----------------------------------------------------------------------------
(* A method meets another: what CheckMethodOverride reports about the method  *)
(* that is to override or hide, in the type base.                             *)

ReturnReports(m, hidden, base) ==
    CASE m.type = hidden.type -> {}
      [] m.type # hidden.type /\ IsReference(hidden.type) /\ IsSubtype(m.type, hidden.type) -> {}
      [] m.owner = base /\ IsInterface(base) /\ hidden.owner = ObjectType ->
           IF "public" \in hidden.flags THEN {"MISMATCHED_IMPLICIT_METHOD"} ELSE {}
      [] OTHER -> {"MISMATCHED_INHERITED_METHOD"}

\* Both are inherited and their types differ: nothing more is asked of them.
LeftForLater(m, hidden, base) ==
    /\ m.owner # base
    /\ hidden.owner # base
    /\ ReturnReports(m, hidden, base) # {}

FinalReports(m, hidden, base) ==
    IF m.owner = base /\ ("final" \in hidden.flags \/ Flag(hidden.owner, "final"))
      THEN {IF IsInterface(base) THEN "FINAL_IMPLICIT_METHOD_OVERRIDE" ELSE "FINAL_METHOD_OVERRIDE"}
      ELSE {}

StaticReports(m, hidden, base) ==
    CASE ("static" \in m.flags) = ("static" \in hidden.flags) -> {}
      [] "static" \in m.flags \ hidden.flags ->
           {IF m.owner = base THEN "INSTANCE_METHOD_OVERRIDE"
                              ELSE "INSTANCE_METHOD_OVERRIDE_EXTERNALLY"}
      [] OTHER -> {"CLASS_METHOD_OVERRIDE"}

AccessReports(m, hidden, base) ==
    LET weaker == CASE "public" \in hidden.flags -> "public" \notin m.flags
                    [] "protected" \in hidden.flags -> m.flags \cap {"public", "protected"} = {}
                    [] OTHER -> "private" \in m.flags
    IN  CASE ~weaker -> {}
          [] weaker /\ "public" \in hidden.flags /\ m.owner # base ->
               IF "abstract" \in m.flags THEN {} ELSE {"BAD_ACCESS_METHOD_OVERRIDE_EXTERNALLY"}
          [] OTHER -> {"BAD_ACCESS_METHOD_OVERRIDE"}

ThrowsReports(m, hidden, base) ==
    LET undeclared == {e \in m.throws : CheckedException(e)
                                         /\ \A f \in hidden.throws : ~IsSubException(e, f)}
        implicit == IsInterface(base) /\ hidden.owner = ObjectType
    IN  CASE undeclared = {} \/ (m.owner # base /\ "abstract" \in m.flags) -> {}
          [] m.owner # base -> {"MISMATCHED_OVERRIDDEN_EXCEPTION_EXTERNALLY"}
          [] implicit -> IF "public" \in hidden.flags
                           THEN {"MISMATCHED_IMPLICIT_OVERRIDDEN_EXCEPTION"} ELSE {}
          [] OTHER -> {"MISMATCHED_OVERRIDDEN_EXCEPTION"}

\* Every report marks the base type bad.
CheckMethodOverride(m, hidden, base) ==
    IF \/ hidden = m
       \/ IsInterface(m.owner) /\ m.owner # base /\ hidden.owner = ObjectType
       \/ LeftForLater(m, hidden, base)
      THEN {}
      ELSE ReturnReports(m, hidden, base) \cup FinalReports(m, hidden, base) \cup
           StaticReports(m, hidden, base) \cup AccessReports(m, hidden, base) \cup
           ThrowsReports(m, hidden, base)

CheckAll(s, m, hiddens, base) ==
    [s EXCEPT !.reports = @ \cup UNION {CheckMethodOverride(m, h, base) : h \in hiddens}]

-----------------------------------------------------------------------------
(* Methods.  s is [table, bad, reports]. *)

Overload(s, symbols) ==
    [s EXCEPT !.table = Append(@, AddConflicts(Shadow(Head(symbols)), Tail(symbols)))]

\* An inherited method joins another inherited one: the one with the narrower
\* result stands for both.
Join(shadow, m) ==
    IF m.type # shadow.symbol.type /\ IsSubtype(m.type, shadow.symbol.type)
      THEN AddConflict([shadow EXCEPT !.symbol = m], shadow.symbol)
      ELSE AddConflict(shadow, m)

InheritMethod(s, base, super, shadow) ==
    LET m == shadow.symbol
        i == FindOverloadMethodShadow(s.table, m)
        Checked(hiddens) == IF i = 0 THEN s ELSE CheckAll(s, s.table[i].symbol, hiddens, base)
        Inherit(q) ==
          IF i = 0 THEN Overload(q, <<m>> \o shadow.conflicts)
          ELSE IF q.table[i].symbol.owner = base THEN q
          ELSE [q EXCEPT !.table[i] = AddConflicts(Join(@, m), shadow.conflicts)]
    IN  CASE \/ IsInterface(base) /\ IsInterface(super) /\ m.owner = ObjectType
             \/ "synthetic" \in m.flags -> s
          [] Inheritable(m, base, super) /\ "synthetic" \notin m.flags
             /\ ~(IsInterface(base) /\ IsInterface(super) /\ m.owner = ObjectType) ->
               Inherit(Checked(Symbols(shadow)))
          [] OTHER ->
               IF ~IsDefault(m) \/ shadow.conflicts = <<>> THEN s
               ELSE IF i = 0 THEN Overload(s, shadow.conflicts)
               ELSE Checked(Range(shadow.conflicts))

\* Mutant: only what a method inherits is held against it.
NoReentry(base, super) == {}

\* The superclasses beyond super where the hierarchy comes back into the
\* package of base: what they declare for their package alone is not
\* inherited, and overridden all the same.
Reentered(base, super) ==
    LET chain == SuperClasses[super]
    IN  {chain[i + 1] : i \in {j \in 1..(Len(chain) - 1) :
             Package(chain[j]) # Package(base) /\ Package(chain[j + 1]) = Package(base)}}

Reentry(s, base, super, tables) ==
    LET Hidden(class) ==
          {m \in {shadow.symbol : shadow \in {sh \in Range(tables[<<"methods", class>>]) :
                                               sh.conflicts = <<>>}} :
             IsDefault(m) /\ "synthetic" \notin m.flags}
        hidden == UNION {Hidden(class) : class \in Reentered(base, super)}
        Pairs == {<<sh.symbol, h>> : sh \in {x \in Range(s.table) : x.symbol.owner = base},
                                     h \in hidden}
    IN  [s EXCEPT !.reports = @ \cup
           UNION {CheckMethodOverride(p[1], p[2], base) :
                    p \in {q \in Pairs : SameParameters(q[1], q[2])}}]

AddInheritedMethods(s, base, super, c) ==
    IF super \in c.bad THEN [s EXCEPT !.bad = TRUE]
    ELSE Reentry(FoldLeft(LAMBDA q, shadow : InheritMethod(q, base, super, shadow), s,
                          c.expanded[<<"methods", super>>]),
                 base, super, c.expanded)

\* An interface inherits from its superinterfaces first, then from Object.
MethodSupers(t) == IF IsInterface(t) THEN Append(Interfaces(t), ObjectType) ELSE DirectSupers(t)

ComputeMethodsClosure(c, t) ==
    LET Own == FoldLeft(LAMBDA s, m : Overload(s, <<m>>),
                        [table |-> <<>>, bad |-> FALSE, reports |-> {}],
                        SelectSeq(members[t].methods,
                                  LAMBDA m : m.name # InitName /\ "bridge" \notin m.flags))
        Closed(s) == [expanded |-> (<<"methods", t>> :> s.table) @@ c.expanded,
                      bad |-> c.bad \cup (IF s.bad \/ s.reports # {} THEN {t} ELSE {}),
                      reports |-> c.reports \cup s.reports]
    IN  Closed(FoldLeft(LAMBDA s, super : AddInheritedMethods(s, t, super, c),
                        Own, MethodSupers(t)))

\* A closure starts with those of the supertypes that have none.
Closure(c, kind, t) ==
    LET open == {u \in Types : <<kind, u>> \notin DOMAIN c.expanded}
        todo == SelectSeq(program.order, LAMBDA u :
                  u \in open /\ u \in Above(open \cap (IF kind = "types" THEN ready
                                                                    ELSE Types))[t])
        One(q, u) == CASE kind = "methods" -> ComputeMethodsClosure(q, u)
                       [] kind = "fields" -> ComputeFieldsClosure(q, u)
                       [] kind = "types" -> ComputeTypesClosure(q, u)
    IN  FoldLeft(One, c, todo)

Now == [expanded |-> expanded, bad |-> bad, reports |-> {}]

\* Reports are issued in the name of the type that is being processed.
Keep(c, t) ==
    /\ expanded' = c.expanded
    /\ bad' = c.bad
    /\ reports' = reports \cup ({t} \X c.reports)

-----------------------------------------------------------------------------
(* Bridges: a method that forwards to another because the two have different  *)
(* signatures for the virtual machine.                                       *)

SameTypes(m, n) == m.params = n.params /\ m.type = n.type

\* A bridge for inherited, in type t, that forwards to m: the parameters
\* may be narrower or wider, arrays excepted (there are none here).
Bridged(m, inherited, t, done) ==
    /\ inherited # m
    /\ inherited.owner # t
    /\ Len(inherited.params) = Len(m.params)
    /\ \A p \in DOMAIN m.params : \/ IsSubtype(m.params[p], inherited.params[p])
                                  \/ IsSubtype(inherited.params[p], m.params[p])
    /\ ~SameTypes(m, inherited)
    /\ "final" \notin inherited.flags
    /\ \A b \in done : ~(b.target = m /\ SameTypes(b, inherited))

Bridge(m, inherited, t) ==
    [target |-> m, owner |-> t, name |-> m.name, params |-> inherited.params,
     type |-> inherited.type,
     flags |-> (m.flags \ {"abstract", "native"}) \cup {"synthetic", "bridge"}]

Named(tables, t, name) ==
    UNION {Symbols(sh) : sh \in {x \in Range(tables[<<"methods", t>>]) : x.symbol.name = name}}

\* What a method is held against: the methods of its name in the table of the
\* type and of its superclass, and those that interfaces declare in the tables
\* of the interfaces of the type and of its superclasses.
InterfaceMethods(tables, t, name) ==
    LET interfaces == UNION {Range(Interfaces(u)) : u \in Range(SuperClasses[t]) \ {ObjectType}}
    IN  {m \in UNION {Named(tables, i, name) : i \in interfaces} : IsInterface(m.owner)}

Bridgeable(m) == m.flags \cap {"static", "private", "abstract", "bridge"} = {}

\* Mutant: the table of the superclass is forgotten.
BridgesOfTable(t, tables) ==
    UNION {{Bridge(m, n, t) : n \in {x \in Named(tables, t, m.name) \cup
                                           InterfaceMethods(tables, t, m.name) :
                                     Bridged(m, x, t, generated)}} :
             m \in {sh.symbol : sh \in {x \in Range(tables[<<"methods", t>>]) :
                                       x.symbol.owner = t /\ Bridgeable(x.symbol)}}}

NewBridges(t, tables) ==
    LET table == {sh.symbol : sh \in Range(tables[<<"methods", t>>])}
        Own(m) == Named(tables, t, m.name) \cup InterfaceMethods(tables, t, m.name) \cup
                  (IF Super(t) \in {NoType, ObjectType} THEN {} ELSE Named(tables, Super(t), m.name))
        Against(m) == IF m.owner = t THEN Own(m) ELSE InterfaceMethods(tables, t, m.name)
    IN  UNION {{Bridge(m, n, t) : n \in {x \in Against(m) : Bridged(m, x, t, generated)}} :
                 m \in {x \in table : Bridgeable(x)}}

-----------------------------------------------------------------------------
(* The bodies of a type: abstract methods without an implementation, bridges, *)
(* and the class file.                                                       *)

\* A method of t that stands for the abstract one, its bridges among them, a
\* method of an enumeration's constants (it is assumed that each has one), or
\* a method of a superclass, whose parameters may be wider.
Implements(t, m, bridges) ==
    LET Symbol(u) == Range(members[u].methods) \cup {b \in bridges : b.owner = u}
    IN  \/ \E n \in Symbol(t) : SameParameters(n, m) /\ n.flags \cap {"abstract", "static"} = {}
        \/ Decl(t).kind = "enum"
        \/ \E u \in Range(SuperClasses[t]) \ {t} : \E n \in Symbol(u) :
             /\ n.name = m.name
             /\ n.flags \cap {"abstract", "static", "private"} = {}
             /\ Len(n.params) = Len(m.params)
             /\ \A p \in DOMAIN m.params : IsSubtype(m.params[p], n.params[p])

\* The abstract methods that a superclass of another package keeps for that
\* package: implemented only by a type of that package in between.
Unreachable(t, tables) ==
    LET chain == SuperClasses[t]
        Abstract(i) == \A j \in 2..i : Flag(chain[j], "abstract")
        Foreign(i) == Package(chain[i]) # Package(chain[i - 1])
        Kept(i) == {m \in {sh.symbol : sh \in Range(tables[<<"methods", chain[i]>>])} :
                      "abstract" \in m.flags /\ IsDefault(m)}
        Answered(i, m) == \E j \in 1..(i - 1) :
          /\ Package(chain[j]) = Package(chain[i])
          /\ \E sh \in Range(tables[<<"methods", chain[j]>>]) :
               SameParameters(sh.symbol, m) /\ sh.symbol.owner = chain[j]
    IN  \E i \in 2..Len(chain) : Abstract(i) /\ Foreign(i) /\ \E m \in Kept(i) : ~Answered(i, m)

AbstractReports(t, tables, bridges) ==
    (IF \E sh \in Range(tables[<<"methods", t>>]) :
          /\ "abstract" \in sh.symbol.flags
          /\ sh.symbol.owner # t
          /\ ~Implements(t, sh.symbol, bridges)
       THEN {"NON_ABSTRACT_TYPE_INHERITS_ABSTRACT_METHOD"} ELSE {}) \cup
    (IF Unreachable(t, tables)
       THEN {"NON_ABSTRACT_TYPE_CANNOT_OVERRIDE_DEFAULT_ABSTRACT_METHOD"} ELSE {})

\* The methods of a class file: those of the symbol table, the bridges listed
\* at them, and the bridges of the type that are listed at no method of it.
Emitted(t, bridges) ==
    {[target |-> m, owner |-> t, name |-> m.name, params |-> m.params, type |-> m.type,
      flags |-> m.flags] : m \in Range(members[t].methods)} \cup
    {b \in bridges : b.target.owner = t} \cup
    {b \in bridges : b.owner = t /\ b.target.owner # t}

CompleteSymbolTable(t) ==
    LET Bodies(c, bridges) ==
          /\ Keep([c EXCEPT !.reports = @ \cup
                     (IF Super(t) # NoType /\ t \notin c.bad /\ ~Flag(t, "abstract")
                        THEN AbstractReports(t, c.expanded, bridges) ELSE {}) \cup
                     UNION {BodyReports(m) : m \in Range(members[t].methods)} \cup
                     UNION {LocalReports(l) : l \in Range(Decl(t).locals)}], t)
          /\ generated' = bridges
        Bridges(c) == Bodies(c, generated \cup NewBridges(t, c.expanded))
    IN  Bridges(Closure(Now, "methods", t))

-----------------------------------------------------------------------------
(* Questions. *)

Missing == "missing"
Aborted == "aborted"

Shadowed(c, t, name) == {sh.symbol : sh \in {x \in Range(c.expanded[<<"types", t>>]) :
                                            x.symbol.name = name}}
Found(c, t, name) == CHOOSE symbol \in Shadowed(c, t, name) : TRUE

\* A qualified name: when the table of the type has no such member, those of
\* its superclasses are searched for one that may not be accessed; they are
\* taken to be there.
MustFindNestedType(c, t, name) ==
    LET chain == SuperClasses[t]
        Ends(i) == \/ chain[i] \in c.bad
                   \/ <<"types", chain[i]>> \notin DOMAIN c.expanded
                   \/ Shadowed(c, chain[i], name) # {}
        ends == {i \in 2..Len(chain) : Ends(i)}
    IN  CASE t \in c.bad -> Missing
          [] t \notin c.bad /\ Shadowed(c, t, name) # {} -> Found(c, t, name)
          [] OTHER ->
               IF ends = {} THEN Missing
               ELSE LET i == CHOOSE j \in ends : \A k \in ends : j <= k
                    IN  IF chain[i] \notin c.bad /\ <<"types", chain[i]>> \notin DOMAIN c.expanded
                          THEN Aborted ELSE Missing

\* A simple name, inside the type: a table that lacks it is computed again.
FindType(c, t, name) ==
    LET Again == Closure([c EXCEPT !.expanded =
                            [x \in DOMAIN @ \ {<<"types", t>>} |-> @[x]]], "types", t)
        Answer(q) == [table |-> q, found |-> IF Shadowed(q, t, name) = {} THEN Missing
                                             ELSE Found(q, t, name)]
    IN  IF Shadowed(c, t, name) = {} /\ Super(t) # NoType THEN Answer(Again) ELSE Answer(c)

-----------------------------------------------------------------------------
Object == ProcessMembers(ObjectType, program.types[ObjectType])
HasImports == \E t \in Types : program.imports[t] # <<>>

Init ==
    /\ \E family \in Families : program \in family
    /\ hierarchy = [types |-> Above(Types), classes |-> ChainsOfClasses]
    /\ members = ObjectType :> Object
    /\ expanded = <<>>
    /\ bad = {}
    /\ reports = {}
    /\ generated = {}
    /\ completed = {ObjectType}
    /\ current = NoType
    /\ files = ObjectType :> Emitted(ObjectType, {})
    /\ imports = [stack |-> <<>>, todo |-> program.imports,
                  started |-> IF HasImports THEN {ObjectType} ELSE Types]
    /\ ready = IF HasImports THEN {ObjectType} ELSE Types
    /\ answers = <<>>

\* A file is read, and whatever its imports name before its own are done.
ReadFile(t) ==
    /\ imports.stack = <<>>
    /\ t \notin imports.started
    /\ imports' = [imports EXCEPT !.stack = <<t>>, !.started = @ \cup {t}]
    /\ UNCHANGED <<program, hierarchy, members, expanded, bad, reports, generated, completed,
                   current, files, ready, answers>>

\* An import names a member of u: its file is read, then its header is
\* processed, which reads those of its supertypes, and its table is computed.
ResolveImport(t, u) ==
    /\ imports.stack # <<>>
    /\ t = Last(imports.stack)
    /\ imports.todo[t] # <<>>
    /\ u = Head(imports.todo[t])
    /\ LET unread == SelectSeq(program.order, LAMBDA v : v \in Above(ready)[u] \ imports.started)
       IN  IF unread = <<>>
             THEN /\ Keep(Closure(Now, "types", u), t)
                  /\ imports' = [imports EXCEPT !.todo[t] = Tail(@)]
             ELSE /\ imports' = [imports EXCEPT !.stack = Append(@, Last(unread)),
                                               !.started = @ \cup {Last(unread)}]
                  /\ UNCHANGED <<expanded, bad, reports>>
    /\ UNCHANGED <<program, hierarchy, members, generated, completed, current, files, ready,
                   answers>>

ImportsProcessed(t) ==
    /\ imports.stack # <<>>
    /\ t = Last(imports.stack)
    /\ imports.todo[t] = <<>>
    /\ imports' = [imports EXCEPT !.stack = Front(@)]
    /\ ready' = ready \cup {t}
    /\ UNCHANGED <<program, hierarchy, members, expanded, bad, reports, generated, completed,
                   current, files, answers>>

Declare(t) ==
    /\ ready = Types
    /\ t \notin DOMAIN members
    /\ SuperTypes[t] \subseteq DOMAIN members \cup {t}
    /\ LET Enter(m) == /\ members' = (t :> m) @@ members
                       /\ reports' = reports \cup ({t} \X m.reports)
       IN  Enter(ProcessMembers(t, Decl(t)))
    /\ UNCHANGED <<program, hierarchy, expanded, bad, generated, completed, current, files,
                   imports, ready, answers>>

\* Type q.from asks for a member of q.type: for a member type as soon as the
\* imports are resolved, for another while its bodies are processed.
Ask(q) ==
    /\ ready = Types
    /\ q.kind \in {"fields", "methods"} => current = q.from
    /\ q \in program.asked \ DOMAIN answers
    /\ LET Answered(c, found) == /\ Keep(c, q.from)
                                 /\ answers' = (q :> found) @@ answers
           Inside(a) == Answered(a.table, a.found)
           Closed(c) == CASE q.kind = "scope" -> Inside(FindType(c, q.type, q.name))
                          [] q.kind = "types" ->
                               Answered(c, MustFindNestedType(c, q.type, q.name))
                          [] OTHER -> Answered(c, Missing)
       IN  Closed(Closure(Now, IF q.kind = "scope" THEN "types" ELSE q.kind, q.type))
    /\ UNCHANGED <<program, hierarchy, members, generated, completed, current, files, imports,
                   ready>>

\* The bodies of one type after the other, supertypes first ...
BeginBodies(t) ==
    /\ DOMAIN members = Types
    /\ current = NoType
    /\ t \notin completed
    /\ SuperTypes[t] \subseteq completed \cup {t}
    /\ CompleteSymbolTable(t)
    /\ current' = t
    /\ UNCHANGED <<program, hierarchy, members, completed, files, imports, ready, answers>>

\* ... and its class file, unless an error was issued in its name.
EndBodies ==
    /\ current # NoType
    /\ \A q \in program.asked : q.from = current => q \in DOMAIN answers
    /\ completed' = completed \cup {current}
    /\ files' = IF \A r \in reports : r[1] # current
                  THEN (current :> Emitted(current, generated)) @@ files ELSE files
    /\ current' = NoType
    /\ UNCHANGED <<program, hierarchy, members, expanded, bad, reports, generated, imports,
                   ready, answers>>

Done == completed = Types /\ DOMAIN answers = program.asked

Next ==
    \/ \E t \in Types : ReadFile(t) \/ ImportsProcessed(t) \/ Declare(t) \/ BeginBodies(t)
    \/ \E t, u \in Types : ResolveImport(t, u)
    \/ \E q \in program.asked : Ask(q)
    \/ EndBodies
    \/ Done /\ UNCHANGED vars

Spec == Init /\ [][Next]_vars
=============================================================================
