---------------------------- MODULE MCTypeHeaders ---------------------------
(***************************************************************************)
(* Programs for TypeHeaders: of one file, and of several.                  *)
(***************************************************************************)
EXTENDS TypeHeaders

\* Sequences of at most n distinct elements of S.
Mentions(S, n) == {s \in SeqOf(S, n) : IsInjective(s)}

\* The program whose maps give only the types and files they are not empty for.
Program(files, outer, class, clause, member, import, root) ==
    LET Total(f, dom, none) == [x \in dom |-> IF x \in DOMAIN f THEN f[x] ELSE none]
        outers  == Total(outer, Types, NoType)
        clauses == Total(clause, Types, <<>>)
    IN  [ file   |-> files,
          class  |-> class,
          outer  |-> outers,
          clause |-> clauses,
          member |-> Total(member, Types, <<>>),
          import |-> Total(import, Files, <<>>),
          root   |-> root,
          above  |-> [t \in Types |-> SourceAbove(outers, clauses, t)] ]

Nothing == [x \in {} |-> x]

FileTypes == {"A", "B", "C", "M", "N"}
FileNames == {"A.java", "B.java", "C.java", "M.java"}

(***************************************************************************)
(* Three types in one file.  Flat: interfaces, every choice of up to two   *)
(* clauses each, all the ways in which hierarchies can be cyclic.  Nested: *)
(* classes, one nested in another; each may extend one of the others and   *)
(* mention one in a member.                                                *)
(***************************************************************************)
OneFileTypes == {"A", "N", "B"}
OneFile      == [t \in FileTypes |-> IF t \in OneFileTypes THEN "A.java" ELSE "C.java"]

FlatPrograms ==
    {Program(OneFile, Nothing, {}, clause, Nothing, Nothing, "A.java") :
        clause \in [OneFileTypes -> Mentions(OneFileTypes, 2)]}

NestedPrograms ==
    {Program(OneFile, [N |-> "A"], OneFileTypes, clause,
             [A |-> <<"N">>, N |-> member, B |-> <<>>], Nothing, "A.java") :
        clause \in [OneFileTypes -> Mentions(OneFileTypes, 1)],
        member \in Mentions({"A", "N"}, 1)}

OneFilePrograms == FlatPrograms \cup NestedPrograms

(***************************************************************************)
(* One type per file, each file importing, extending and mentioning at     *)
(* most one of the others: files are read from the middle of imports,      *)
(* headers and members.  No file mentions M and N.                         *)
(***************************************************************************)
SplitTypes == {"A", "B", "C"}
FileOf     == [A |-> "A.java", B |-> "B.java", C |-> "C.java", M |-> "M.java", N |-> "M.java"]
Others     == {m \in [SplitTypes -> Mentions(SplitTypes, 1)] :
                   \A t \in SplitTypes : t \notin ToSet(m[t])}
SplitPrograms ==
    {Program(FileOf, Nothing, SplitTypes, clause, member,
             [f \in {FileOf[t] : t \in SplitTypes} |->
                 import[CHOOSE t \in SplitTypes : FileOf[t] = f]], "A.java") :
        clause \in {m \in Others : \E t \in SplitTypes : m[t] # <<>>},
        member \in {m \in Others : m["A"] = <<>>},
        import \in Others}

(***************************************************************************)
(* Two files that import each other's types, both with a member type: the  *)
(* tables of types whose file is still at its imports.  Nobody mentions B. *)
(***************************************************************************)
MemberTypes == {"C", "M", "A", "N"}
MemberPrograms ==
    {Program([C |-> "C.java", M |-> "C.java", A |-> "A.java", N |-> "A.java", B |-> "B.java"],
             [M |-> "C", N |-> "A"], MemberTypes, clause, [C |-> member],
             [f \in {"A.java", "C.java"} |-> IF f = "C.java" THEN <<"N">> ELSE back],
             "C.java") :
        clause \in [MemberTypes -> Mentions(MemberTypes, 1)],
        member \in {<<>>, <<"N">>},
        back   \in {<<>>, <<"C">>, <<"M">>}}

(***************************************************************************)
(* Three files, of which the last declares a member type that the others   *)
(* import: its enclosing type's header is done from the middle of theirs.  *)
(***************************************************************************)
ImportTypes == {"A", "B", "C", "M"}
ImportPrograms ==
    {Program([FileOf EXCEPT !["M"] = "C.java"], [M |-> "C"], ImportTypes, clause, Nothing,
             [f \in files |-> <<"M">>], "A.java") :
        clause \in [SplitTypes -> Mentions(ImportTypes, 1)],
        files  \in SUBSET {"A.java", "B.java"} \ {{}}}

MCPrograms == OneFilePrograms \cup SplitPrograms \cup MemberPrograms \cup ImportPrograms

-----------------------------------------------------------------------------
(***************************************************************************)
(* Programs in which the compiler departs from what its comments say.      *)
(***************************************************************************)
(***************************************************************************)
(* interface B { interface R extends A.Q {} }                              *)
(* interface A { interface Q extends B, P {} }                             *)
(* interface P extends A, B.R {}                                           *)
(***************************************************************************)
KnotTypes == {"A", "Q", "B", "R", "P"}
KnotPrograms ==
    {Program([t \in Types |-> "F"], [Q |-> "A", R |-> "B"], {},
             [R |-> <<"Q">>, Q |-> <<"B", "P">>, P |-> <<"A", "R">>],
             Nothing, Nothing, "F")}
=============================================================================
