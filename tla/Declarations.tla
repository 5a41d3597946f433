---------------------------- MODULE Declarations ----------------------------
(***************************************************************************)
(* The members a type declares: what modifier.cpp makes of the words before *)
(* a declaration and what decl.cpp enters into the type's symbol table.     *)
(* A declaration is a record of the syntax tree, a symbol the record that    *)
(* the table keeps of it: the modifiers have become a set of flags, those    *)
(* the language adds among them.  Types are erased.                          *)
(***************************************************************************)
EXTENDS Naturals, Sequences, FiniteSets, SequencesExt

\* A type's declaration: [package, kind, modifiers, super, interfaces,
\*   constructors, methods, instance, static, nested, constants, locals, inner].
\* kind is "class", "enum", "interface" or "annotation"; constants are an
\* enumeration's, each with the type its body declares, or NoBody.
NoBody == "no body"
InitName == "<init>"

Accesses == {"public", "protected", "private"}

-----------------------------------------------------------------------------
(* Modifiers. *)

\* The contradiction that a new word completes, "" when there is none.  The
\* first of the three questions that applies is the only one asked.
Fault(flags, valid) ==
    IF "final" \in flags
      THEN IF "volatile" \in flags THEN "VOLATILE_FINAL_FIELD"
           ELSE IF "abstract" \in flags THEN "FINAL_ABSTRACT_ENTITY" ELSE ""
    ELSE IF "abstract" \in flags /\ "native" \in valid
      THEN IF flags \cap {"synchronized", "native", "private", "static", "strictfp"} # {}
             THEN "BAD_ABSTRACT_METHOD_MODIFIER" ELSE ""
    ELSE IF {"strictfp", "native"} \subseteq flags THEN "STRICTFP_NATIVE_METHOD" ELSE ""

\* One word more: s is [flags, reports].
AddModifier(s, flag, valid) ==
    LET Report(error) == [s EXCEPT !.reports = @ \cup {error}]
        Take(fault) == IF fault = "" THEN [s EXCEPT !.flags = @ \cup {flag}]
                                     ELSE Report(fault)
    IN  CASE flag \notin valid -> Report("INVALID_MODIFIER")
          [] flag \in valid /\ flag \in Accesses /\ s.flags \cap Accesses # {} ->
               Report("DUPLICATE_ACCESS_MODIFIER")
          [] flag \in valid /\ flag \in s.flags \ Accesses -> Report("DUPLICATE_MODIFIER")
          [] OTHER -> Take(Fault(s.flags \cup {flag}, valid))

ProcessModifiers(modifiers, valid, implicit) ==
    LET Words(s) == [s EXCEPT !.flags = @ \cup implicit]
    IN  Words(FoldLeft(LAMBDA s, flag : AddModifier(s, flag, valid),
                       [flags |-> {}, reports |-> {}], modifiers))

TypeWords == {"abstract", "strictfp"}
WithBodies(d) == \E c \in Range(d.constants) : c.body # NoBody

\* Valid and implicit words of a type of its own file ...
TopLevelWords(d) ==
    CASE d.kind = "class" -> [valid |-> TypeWords \cup {"final", "public"}, implicit |-> {}]
      [] d.kind = "enum" ->
           [valid |-> TypeWords \cup {"public"} \cup (IF WithBodies(d) THEN {} ELSE {"final"}),
            implicit |-> IF WithBodies(d) THEN {} ELSE {"final"}]
      [] OTHER -> [valid |-> TypeWords \cup {"public"},
                   implicit |-> {"interface", "abstract"} \cup
                                (IF d.kind = "annotation" THEN {"annotation"} ELSE {})]

\* ... of a class declared in a block (an enumeration is not parsed there) ...
LocalWords(l) == [valid |-> TypeWords \cup {"final"}, implicit |-> {}]

\* ... and of a type that is a member, of an interface or of a class.
NestedWords(d, ininterface) ==
    LET final == IF d.kind = "class" \/ (d.kind = "enum" /\ ~WithBodies(d)) THEN {"final"} ELSE {}
        hides == d.kind = "enum" /\ ~WithBodies(d)
        isinterface == d.kind \in {"interface", "annotation"}
    IN  [valid |-> TypeWords \cup final \cup {"static"} \cup
                   (IF ininterface THEN {"public"} ELSE Accesses),
         implicit |-> (IF ininterface THEN {"static", "public"} ELSE {}) \cup
                      (IF d.kind = "enum" THEN {"static"} ELSE {}) \cup
                      (IF hides THEN {"final"} ELSE {}) \cup
                      (IF isinterface THEN {"interface", "abstract", "static"} ELSE {}) \cup
                      (IF d.kind = "annotation" THEN {"annotation"} ELSE {})]

FieldWords == [valid |-> Accesses \cup {"static", "final", "transient", "volatile"}, implicit |-> {}]
LocalVariableWords == [valid |-> {"final"}, implicit |-> {}]
FormalWords == [valid |-> {"final"}, implicit |-> {}]
MethodWords == [valid |-> Accesses \cup {"static", "strictfp", "abstract", "final", "native",
                                         "synchronized"},
                implicit |-> {}]
InterfaceMethodWords(hasbody) ==
    [valid |-> {"public", "abstract", "static"},
     implicit |-> IF hasbody THEN {"public"} ELSE {"public", "abstract"}]
ConstructorWords == [valid |-> Accesses, implicit |-> {}]
InterfaceFieldWords == [valid |-> {"public", "static", "final"},
                        implicit |-> {"public", "static", "final"}]
InitializerWords == [valid |-> {"static"}, implicit |-> {}]
EnumConstantWords == [valid |-> {}, implicit |-> {"public", "static", "final", "enum"}]

Flags(modifiers, words) == ProcessModifiers(modifiers, words.valid, words.implicit)

-----------------------------------------------------------------------------
(* Members.  s is the type while its members are processed: [name, kind,    *)
(* flags, inner, methods, fields, reports].                                  *)

\* Two methods that a call cannot tell apart.
SameParameters(m, n) == m.name = n.name /\ m.params = n.params

Reported(s, errors) == [s EXCEPT !.reports = @ \cup errors]
Entered(s, m) == [s EXCEPT !.methods = Append(@, m)]

\* d.params are the parameters of the declaration: the symbols of an earlier
\* constructor of an enumeration have two more.
FindOverloadMethod(s, name, d) ==
    \E i \in DOMAIN s.methods : s.methods[i].name = name /\ s.methods[i].params = d.params

ProcessFormalParameters(d) ==
    (IF \E i, j \in DOMAIN d.names : i # j /\ d.names[i] = d.names[j]
       THEN {"DUPLICATE_FORMAL_PARAMETER"} ELSE {}) \cup
    UNION {Flags(d.formals[i], FormalWords).reports : i \in DOMAIN d.formals}

\* The flags that a method gets from its type.
InheritedFlags(s, flags) ==
    (IF "private" \in flags \/ "final" \in s.flags THEN {"final"} ELSE {}) \cup
    (IF "strictfp" \in s.flags /\ "abstract" \notin flags THEN {"strictfp"} ELSE {})

ProcessMethodDeclaration(s, d) ==
    LET Declared(f) ==
          LET q == Reported(s, f.reports \cup ProcessFormalParameters(d) \cup
                     (IF "static" \in f.flags /\ s.inner
                        THEN {"STATIC_METHOD_IN_INNER_CLASS"} ELSE {}) \cup
                     (IF d.name = s.name THEN {"METHOD_WITH_CONSTRUCTOR_NAME"} ELSE {}))
          IN  IF FindOverloadMethod(s, d.name, d)
                THEN Reported(q, {"DUPLICATE_METHOD"})
                ELSE Reported(Entered(q,
                       [owner |-> s.name, name |-> d.name, params |-> d.params, type |-> d.type,
                        flags |-> f.flags \cup InheritedFlags(s, f.flags),
                        throws |-> d.throws, body |-> d.body]),
                       IF "abstract" \in f.flags /\ "abstract" \notin s.flags /\ s.kind # "enum"
                         THEN {"NON_ABSTRACT_TYPE_CONTAINS_ABSTRACT_METHOD"} ELSE {})
    IN  Declared(Flags(d.modifiers, IF "interface" \in s.flags THEN InterfaceMethodWords(d.body)
                                                               ELSE MethodWords))

\* The two hidden parameters of an enumeration's constructors.
EnumParameters(s) == IF s.kind = "enum" THEN <<"String", "int">> ELSE <<>>

\* d.alike: the name is so like the type's that it passes for a slip.
ProcessConstructorDeclaration(s, d) ==
    LET Declared(f) ==
          LET q == Reported(s, f.reports \cup ProcessFormalParameters(d) \cup
                     (IF d.name # s.name THEN {"MISMATCHED_CONSTRUCTOR_NAME"} ELSE {}))
              name == IF d.name = s.name \/ d.alike THEN InitName ELSE d.name
          IN  IF FindOverloadMethod(s, name, d)
                THEN Reported(q, {"DUPLICATE_CONSTRUCTOR"})
                ELSE Entered(q,
                       [owner |-> s.name, name |-> name, params |-> EnumParameters(s) \o d.params,
                        type |-> IF name = InitName THEN s.name ELSE "no type",
                        flags |-> f.flags \cup (s.flags \cap {"strictfp"}),
                        throws |-> d.throws, body |-> TRUE])
    IN  Declared(Flags(d.modifiers, ConstructorWords))

AddDefaultConstructor(s) ==
    Entered(s, [owner |-> s.name, name |-> InitName, params |-> EnumParameters(s), type |-> s.name,
                flags |-> (IF s.kind = "enum" THEN {"private"} ELSE s.flags \cap Accesses) \cup
                          (s.flags \cap {"strictfp"}),
                throws |-> {}, body |-> TRUE])

ProcessConstructorMembers(s, constructors) ==
    IF constructors # <<>> THEN FoldLeft(ProcessConstructorDeclaration, s, constructors)
    ELSE IF "interface" \notin s.flags THEN AddDefaultConstructor(s) ELSE s

FieldNamed(s, name) == \E i \in DOMAIN s.fields : s.fields[i].name = name

ProcessFieldDeclaration(s, d) ==
    LET Declared(f) ==
          LET q == Reported(s, f.reports \cup
                     (IF s.inner /\ "static" \in f.flags /\ "final" \notin f.flags
                        THEN {"STATIC_FIELD_IN_INNER_CLASS_NOT_FINAL"} ELSE {}))
          IN  IF FieldNamed(s, d.name)
                THEN Reported(q, {"DUPLICATE_FIELD"})
                ELSE Reported([q EXCEPT !.fields =
                         Append(@, [owner |-> s.name, name |-> d.name, flags |-> f.flags])],
                       IF s.inner /\ {"static", "final"} \subseteq f.flags /\ ~d.constant
                         THEN {"STATIC_FIELD_IN_INNER_CLASS_NOT_CONSTANT"} ELSE {})
    IN  Declared(Flags(d.modifiers, IF "interface" \in s.flags THEN InterfaceFieldWords
                                                               ELSE FieldWords))

ProcessEnumConstant(s, c) ==
    IF FieldNamed(s, c.name) THEN Reported(s, {"DUPLICATE_FIELD"})
    ELSE [s EXCEPT !.fields = Append(@, [owner |-> s.name, name |-> c.name,
                                         flags |-> Flags(<<>>, EnumConstantWords).flags])]

\* values() and valueOf(String).
AddEnumSyntheticMethods(s) ==
    LET Synthetic(name, params) ==
          [owner |-> s.name, name |-> name, params |-> params, type |-> s.name,
           flags |-> {"public", "static", "synthetic"}, throws |-> {}, body |-> TRUE]
    IN  Entered(Entered(s, Synthetic("values", <<>>)), Synthetic("valueOf", <<"String">>))

\* The member types, their flags and the reports about their words.
NestedTypes(s, nested) ==
    LET Flagged(d) == Flags(d.modifiers, NestedWords(d, "interface" \in s.flags))
        Symbol(d) == [owner |-> s.name, name |-> d.name, flags |-> Flagged(d).flags]
    IN  [symbols |-> [i \in DOMAIN nested |-> Symbol(nested[i])],
         reports |-> UNION {Flagged(d).reports : d \in Range(nested)}]

ProcessMembers(name, d) ==
    LET Header(f) ==
          [name |-> name, kind |-> d.kind, flags |-> f.flags, inner |-> d.inner,
           methods |-> <<>>, fields |-> <<>>, reports |-> f.reports]
        Methods(s) == FoldLeft(ProcessMethodDeclaration, s, d.methods)
        Fields(s) == FoldLeft(ProcessEnumConstant,
                       FoldLeft(ProcessFieldDeclaration, s, d.instance \o d.static), d.constants)
        Enum(s) == IF d.kind = "enum" THEN AddEnumSyntheticMethods(s) ELSE s
        Nested(s, n) == [flags |-> s.flags, methods |-> s.methods, fields |-> s.fields,
                         types |-> n.symbols, reports |-> s.reports \cup n.reports]
        Types(s) == Nested(s, NestedTypes(s, d.nested))
    IN  Types(Enum(Fields(Methods(
          ProcessConstructorMembers(Header(Flags(d.modifiers, TopLevelWords(d))),
                                    d.constructors)))))

\* What the bodies declare with words of their own: [kind, modifiers].
LocalReports(l) ==
    Flags(l.modifiers, CASE l.kind = "class" -> LocalWords(l)
                         [] l.kind = "variable" -> LocalVariableWords
                         [] l.kind = "formal" -> FormalWords
                         [] l.kind = "initializer" -> InitializerWords).reports

\* body.cpp asks for a body or refuses one.
BodyReports(m) ==
    CASE m.body /\ m.flags \cap {"abstract", "native"} # {} -> {"ABSTRACT_METHOD_WITH_BODY"}
      [] ~m.body /\ m.flags \cap {"abstract", "native"} = {} ->
           {"NON_ABSTRACT_METHOD_WITHOUT_BODY"}
      [] OTHER -> {}
=============================================================================
