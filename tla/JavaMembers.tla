---------------------------- MODULE JavaMembers ----------------------------
(***************************************************************************)
(* What the language and the virtual machine say of members, to hold the     *)
(* compiler against: chapter 8 of the language specification for the words   *)
(* of a declaration, the members of a type and the methods that override     *)
(* each other, and chapter 5.4 of the machine's for what a call executes.    *)
(***************************************************************************)
EXTENDS Members

-----------------------------------------------------------------------------
(* Words (8.1.1, 8.3.1, 8.4.3, 8.8.3, 9.1.1, 9.3, 9.4). *)

Contradicts(words, abstractmethod) ==
    \/ {"final", "volatile"} \subseteq words
    \/ {"final", "abstract"} \subseteq words
    \/ {"native", "strictfp"} \subseteq words
    \/ /\ abstractmethod /\ "abstract" \in words
       /\ words \cap {"private", "static", "native", "strictfp", "synchronized"} # {}

LegalWords(modifiers, allowed, abstractmethod) ==
    /\ IsInjective(modifiers)
    /\ Range(modifiers) \subseteq allowed
    /\ Cardinality(Range(modifiers) \cap Accesses) <= 1
    /\ ~Contradicts(Range(modifiers), abstractmethod)

TypeAllows(d) == {"public", "abstract", "strictfp"} \cup (IF d.kind = "class" THEN {"final"} ELSE {})
MemberTypeAllows(d, ininterface) ==
    {"public", "static", "abstract", "strictfp"} \cup (IF ininterface THEN {} ELSE Accesses) \cup
    (IF d.kind = "class" THEN {"final"} ELSE {})

InInterface(d) == d.kind \in {"interface", "annotation"}

LegalFormals(m) ==
    /\ IsInjective(m.names)
    /\ \A i \in DOMAIN m.formals : LegalWords(m.formals[i], {"final"}, FALSE)

LegalMethod(t, d, m) ==
    /\ LegalWords(m.modifiers, IF InInterface(d) THEN {"public", "abstract"}
                               ELSE Accesses \cup {"abstract", "static", "final", "synchronized",
                                                   "native", "strictfp"}, TRUE)
    /\ m.body = ~(InInterface(d) \/ Range(m.modifiers) \cap {"abstract", "native"} # {})
    /\ "abstract" \in Range(m.modifiers) => InInterface(d) \/ d.kind = "enum"
                                            \/ "abstract" \in Range(d.modifiers)
    /\ d.inner => "static" \notin Range(m.modifiers)
    /\ LegalFormals(m)
    /\ m.name # t

LegalField(d, f) ==
    /\ LegalWords(f.modifiers, IF InInterface(d) THEN {"public", "static", "final"}
                               ELSE Accesses \cup {"static", "final", "transient", "volatile"}, FALSE)
    /\ d.inner /\ "static" \in Range(f.modifiers) => "final" \in Range(f.modifiers) /\ f.constant

LegalDeclaration(t, d) ==
    LET fields == d.instance \o d.static \o d.constants
        Distinct(s, Same(_, _)) == \A i, j \in DOMAIN s : i # j => ~Same(s[i], s[j])
    IN  /\ LegalWords(d.modifiers, TypeAllows(d), FALSE)
        /\ \A m \in Range(d.methods) : LegalMethod(t, d, m)
        /\ \A f \in Range(d.instance \o d.static) : LegalField(d, f)
        /\ \A c \in Range(d.constructors) :
             LegalWords(c.modifiers, Accesses, FALSE) /\ LegalFormals(c) /\ c.name = t
        /\ \A n \in Range(d.nested) : LegalWords(n.modifiers, MemberTypeAllows(n, InInterface(d)), FALSE)
        /\ \A l \in Range(d.locals) :
             LegalWords(l.modifiers, CASE l.kind = "class" -> TypeWords \cup {"final"}
                                       [] l.kind = "initializer" -> {"static"}
                                       [] OTHER -> {"final"}, FALSE)
        /\ Distinct(fields, LAMBDA f, g : f.name = g.name)
        /\ Distinct(d.methods, LAMBDA m, n : SameParameters(m, n))
        /\ Distinct(d.constructors, LAMBDA m, n : m.params = n.params)

-----------------------------------------------------------------------------
(* Members (8.2, 8.3, 8.4.8, 8.5, 9.2). *)

Same(kind, m, n) == m.name = n.name /\ (kind = "methods" => m.params = n.params)

Declared(kind, t) ==
    CASE kind = "types" -> Range(Nested(t))
      [] kind = "fields" -> Range(members[t].fields)
      [] kind = "methods" -> {m \in Range(members[t].methods) : m.name # InitName}

\* An interface has the members of Object too, unless it declares its own.
MemberSupers(kind, t) ==
    ({Super(t)} \cup Range(Interfaces(t))) \ {NoType}

MembersOf(kind) ==
    LET of[i \in 1..Len(program.order)] ==
          LET t == program.order[i]
              below == {j \in 1..(i - 1) : program.order[j] \in MemberSupers(kind, t)}
              Inherited(j) == {m \in of[j] :
                                /\ Inheritable(m, t, program.order[j])
                                /\ "synthetic" \notin m.flags
                                /\ ~\E n \in Declared(kind, t) : Same(kind, m, n)}
          IN  Declared(kind, t) \cup UNION {Inherited(j) : j \in below}
    IN  [t \in Types |-> of[CHOOSE i \in 1..Len(program.order) : program.order[i] = t]]

-----------------------------------------------------------------------------
(* Overriding (8.4.6.3, 8.4.8.1 to 8.4.8.3). *)

IsInstance(m) == m.flags \cap {"static", "private"} = {}

\* n, declared in a class below, takes the place of m: accessible to it, or
\* what it takes the place of does.  Looks tells which methods look the same.
Directly(n, m) == \/ m.flags \cap {"public", "protected"} # {}
                  \/ IsDefault(m) /\ Package(n.owner) = Package(m.owner)

\* The first class of the chain of t, from its own end, whose declaration
\* takes the place of m: a set with that method, or empty.
Selected(t, m, Methods(_), Looks(_, _)) ==
    LET chain == SuperClasses[t]
        n == Len(chain)
        At(i) == {x \in Methods(chain[i]) : Looks(x, m) /\ IsInstance(x)}
        \* over[k]: what takes the place of m in the k classes at the far end
        over[k \in 0..n] ==
          IF k = 0 THEN {}
          ELSE LET class == chain[n - k + 1]
                   here == {x \in At(n - k + 1) :
                              \/ x.owner = m.owner
                              \/ IsInterface(m.owner)
                              \/ /\ m.owner \in Range(SuperClasses[class])
                                 /\ (Directly(x, m) \/ \E y \in over[k - 1] : Directly(x, y))}
               IN  over[k - 1] \cup here
        found == {i \in 1..n : \E x \in At(i) : x \in over[n]}
    IN  IF found = {} THEN {}
        ELSE LET i == CHOOSE j \in found : \A k \in found : j <= k
             IN  At(i) \cap over[n]

SourceMethods(t) == Declared("methods", t)
SourceSelected(t, m) ==
    {x \in Selected(t, m, SourceMethods, SameParameters) :
       IsInterface(m.owner) => x \in MembersOf("methods")[t]}

\* What a method must be to override or hide another.
Substitutable(n, m) ==
    /\ \/ n.type = m.type
       \/ IsReference(m.type) /\ IsSubtype(n.type, m.type)
    /\ "final" \notin m.flags
    /\ ("static" \in n.flags) = ("static" \in m.flags)
    /\ CASE "public" \in m.flags -> "public" \in n.flags
         [] "protected" \in m.flags -> n.flags \cap {"public", "protected"} # {}
         [] OTHER -> "private" \notin n.flags
    /\ \A e \in n.throws : CheckedException(e) => \E f \in m.throws : IsSubException(e, f)

\* What the methods of t take the place of: inherited ones, and those of its
\* package in a class further up.
Overridden(t, n) ==
    {m \in UNION {SourceMethods(u) : u \in SuperTypes[t] \ {t}} :
       /\ SameParameters(n, m)
       /\ "private" \notin m.flags
       /\ IsInterface(t) /\ m.owner = ObjectType => "public" \in m.flags
       /\ \/ Directly(n, m)
          \/ \E u \in Range(SuperClasses[t]) \ {t} : \E x \in SourceMethods(u) :
               SameParameters(x, m) /\ x.owner # m.owner /\ Directly(x, m) /\ Directly(n, x)}

\* A method of a superclass that t does not declare stands for what the
\* interfaces of t declare.
StandIns(t) ==
    {<<n, m>> \in MembersOf("methods")[t] \X MembersOf("methods")[t] :
       /\ SameParameters(n, m)
       /\ t \notin {n.owner, m.owner}
       /\ ~IsInterface(n.owner)
       /\ "abstract" \notin n.flags
       /\ IsInterface(m.owner)}

Concrete(t) == ~Flag(t, "abstract")
LegalInheritance(t) ==
    /\ \A n \in SourceMethods(t) : \A m \in Overridden(t, n) : Substitutable(n, m)
    /\ ~IsInterface(t) => \A p \in StandIns(t) : Substitutable(p[1], p[2])
    /\ Concrete(t) => \A u \in SuperTypes[t] : \A m \in SourceMethods(u) :
         "abstract" \in m.flags =>
           \E n \in SourceSelected(t, m) : "abstract" \notin n.flags

LegalProgram ==
    /\ \A t \in Types \ {ObjectType} : LegalDeclaration(t, Decl(t))
    /\ \A t \in Types \ {ObjectType} : LegalInheritance(t)

-----------------------------------------------------------------------------
(* Calls (machine, 5.4.3.3, 5.4.5, 6.5). *)

Looks(m, n) == m.name = n.name /\ SameTypes(m, n)
FileMethods(t) == files[t]

\* What a reference to a method of t resolves to.
Resolved(t, m) ==
    LET chain == SuperClasses[t]
        has == {i \in DOMAIN chain : \E x \in FileMethods(chain[i]) : Looks(x, m)}
        At(u) == {x \in FileMethods(u) : Looks(x, m)}
    IN  IF has # {} THEN At(chain[CHOOSE i \in has : \A j \in has : i <= j])
        ELSE UNION {At(u) : u \in {v \in SuperTypes[t] : IsInterface(v)}}

\* What a call executes: the machine chooses a method for the class of the
\* object, and a bridge calls again.  Three calls are enough for any chain of
\* bridges that ends.  The empty set: the machine throws.
Chosen(t, m) ==
    {x \in Selected(t, m, FileMethods, Looks) :
       /\ "abstract" \notin x.flags
       /\ IsInterface(m.owner) => "public" \in x.flags}

Forwarded(t, xs) ==
    UNION {IF "bridge" \in x.flags THEN Chosen(t, x.target) ELSE {x} : x \in xs}

\* The methods that a call of m by a reference to type u runs on an object of
\* class t.
Runs(t, u, m) ==
    LET last == Forwarded(t, Forwarded(t, UNION {Chosen(t, r) : r \in Resolved(u, m)}))
    IN  {x.target : x \in {y \in last : "bridge" \notin y.flags}}
=============================================================================
