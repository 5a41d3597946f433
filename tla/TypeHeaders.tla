---------------------------- MODULE TypeHeaders ----------------------------
(***************************************************************************)
(* One outermost call of Control::ProcessHeaders: the compiler is handed a *)
(* source file and, before any body is looked at,                          *)
(*   - reads the file and, through its imports, others (ProcessHeaders,    *)
(*     Semantic::ProcessTypeNames),                                        *)
(*   - resolves the extends and implements clauses of every type read so   *)
(*     far, which reads more files (ProcessTypeHeaders, ProcessTypeHeader, *)
(*     ComputeTypesClosure),                                               *)
(*   - sorts the types, supertypes first (TopologicalSort), and declares   *)
(*     their members (ProcessMembers), which may read more files again.    *)
(*                                                                         *)
(* All of it is one thread, but deeply re-entrant: each of these           *)
(* procedures is entered again, for another type or file, from the middle  *)
(* of itself.  The C++ call stack is the variable stack; the Semantic      *)
(* objects' state_stack is the subsequence of its frames that push an      *)
(* environment.                                                            *)
(*                                                                         *)
(* The source text is data: a program record says where each type is       *)
(* declared and which types its clauses, members and file mention.  Names  *)
(* are canonical (Outer.Inner), types are well kinded (a class extends a   *)
(* class, interfaces elsewhere), java.lang is left out.                    *)
(***************************************************************************)
EXTENDS Naturals, Sequences, SequencesExt

CONSTANTS Types,     \* declared types, top-level and nested
          Files,     \* .java files
          NoType,    \* the NULL TypeSymbol*
          Programs   \* the programs the compiler may be given

ASSUME NoTypeAssumption == NoType \notin Types

(***************************************************************************)
(* A program: the file and the enclosing type of each type, whether it is  *)
(* a class or an interface, the types its                                  *)
(* extends/implements clauses and its member declarations mention, in      *)
(* order, the single-type imports of each file, the file given to the      *)
(* compiler, and, for the properties, the types above each type.           *)
(***************************************************************************)
ProgramRecords ==
    [ file   : [Types -> Files],
      class  : SUBSET Types,
      outer  : [Types -> Types \cup {NoType}],
      clause : [Types -> Seq(Types)],
      member : [Types -> Seq(Types)],
      import : [Files -> Seq(Types)],
      root   : Files,
      above  : [Types -> SUBSET Types] ]

\* The types enclosing t and t itself, outermost first.
OuterPath(outer, t) == LET p[x \in Types] == IF outer[x] = NoType THEN <<x>>
                                             ELSE Append(p[outer[x]], x)
                       IN  p[t]

\* JLS 8.1.4: a type depends on the types its clauses name, on the types
\* those are members of, and on what these depend on.
SourceAbove(outer, clause, t) ==
    LET direct(u) == UNION {ToSet(OuterPath(outer, s)) : s \in ToSet(clause[u])}
    IN  FoldSet(LAMBDA u, S : S \cup UNION {direct(v) : v \in S}, direct(t), Types)

\* A member type is declared in its enclosing type's file, inside a top-level
\* type in the end; a type is below the types its clauses name and all that are
\* above those.
WellFormed(p) ==
    /\ p \in ProgramRecords
    /\ \A t \in Types :
          LET path == OuterPath(p.outer, t)
          IN  /\ path \in Seq(Types) /\ path # <<>>
              /\ p.outer[Head(path)] = NoType /\ Last(path) = t
              /\ \A k \in DOMAIN path : p.file[path[k]] = p.file[t]
    /\ \A t \in Types : p.outer[t] # NoType => p.file[p.outer[t]] = p.file[t]
    /\ \A S \in SUBSET Types :
          (\A t \in Types : p.outer[t] \in S \cup {NoType} => t \in S) => S = Types
    /\ \A t \in Types : \A s \in ToSet(p.clause[t]) :
          ToSet(OuterPath(p.outer, s)) \subseteq p.above[t]
    /\ \A t \in Types : \A u \in p.above[t] : p.above[u] \subseteq p.above[t]

ASSUME ProgramsAssumption == \A p \in Programs : WellFormed(p)

VARIABLES
    prog,        \* the program (never changes)
    loaded,      \* files with a Semantic
    tuple,       \* Control::semantic, in the order the files were read
    start,       \* how much of tuple PartialOrder has listed
    imported,    \* files whose Semantic has imports_processed
    header,      \* types with HEADER_PROCESSED
    supers,      \* TypeSymbol::super and interfaces, java.lang.Object apart
    closure,     \* TypeSymbol::supertypes_closure
    circular,    \* types marked CIRCULAR (and so BAD)
    table,       \* types with an expanded_type_table
    processing,  \* Semantic::processing_type of each file
    stack,       \* the calls in progress, innermost last
    phase,       \* where ProcessHeaders/ProcessMembers stands
    todo,        \* partially_ordered_types whose headers are still to do
    collection,  \* needs_member_work
    pending,     \* TopologicalSort::pending
    order,       \* the sorted types whose members are still to do
    declared,    \* types whose members are processed
    bodyWork     \* Control::needs_body_work

source  == <<loaded, tuple, imported>>
marks   == <<header, supers, closure, circular, processing>>
sorting == <<start, todo, collection, pending, order, declared, bodyWork>>
vars    == <<prog, source, marks, table, stack, phase, sorting>>

\* i: the clause, member or import being processed.  got: the type that
\* clause i names, once it is resolved.
FrameAt(op, on, i, got) == [op |-> op, on |-> on, i |-> i, got |-> got]
Frame(op, on) == FrameAt(op, on, 1, NoType)
Top           == Last(stack)
Running(op)   == stack # <<>> /\ Top.op = op
Call(frame)   == stack' = Append(stack, frame)
Return        == stack' = Front(stack)
Continue(frame) == stack' = [stack EXCEPT ![Len(stack)] = frame]
Advance       == Continue(FrameAt(Top.op, Top.on, Top.i + 1, NoType))
Become(op)    == Continue(Frame(op, Top.on))

File(t)     == prog.file[t]
TopLevel(t) == prog.outer[t] = NoType
Nested(t)   == {c \in Types : prog.outer[c] = t}

Path(t)     == OuterPath(prog.outer, t)

\* state_stack.Top() -> Type() of the Semantic of file f.
Scope(f) ==
    LET envs == {k \in DOMAIN stack :
                    stack[k].op \in {"nested", "members"} /\ File(stack[k].on) = f}
    IN  IF envs = {} THEN NoType
        ELSE stack[CHOOSE k \in envs : \A j \in envs : j <= k].on

Init ==
    /\ prog \in Programs
    /\ loaded = {prog.root}
    /\ tuple = <<prog.root>>
    /\ start = 0
    /\ imported = {}
    /\ header = {} /\ circular = {} /\ table = {}
    /\ supers = [t \in Types |-> {}]
    /\ closure = [t \in Types |-> {}]
    /\ processing = [f \in Files |-> NoType]
    /\ stack = <<Frame("names", prog.root)>>
    /\ phase = "names"
    /\ todo = {} /\ collection = {} /\ pending = {} /\ declared = {}
    /\ order = <<>> /\ bodyWork = <<>>

-----------------------------------------------------------------------------
(* Resolving a name: Semantic::FindType, ReadType, FindNestedType.          *)

\* Where in the sequence a type has no table, or one computed before its
\* supertypes were known (FindType deletes and recomputes it).
Incomplete(path) ==
    {k \in DOMAIN path : path[k] \notin table \/ ~ (supers[path[k]] \subseteq table)}

Qualifiers(u) == Front(Path(u))

\* A bad type, or a member of one, resolves to no_type.
Unusable(u) == \E k \in DOMAIN Path(u) : Path(u)[k] \in circular

\* Mutant: the new Semantic is not stored in its file.
LoadFileForgets(f) ==
    /\ tuple' = Append(tuple, f)
    /\ Call(Frame("names", f))
    /\ UNCHANGED <<loaded, imported, marks, table>>

\* Control::ProcessHeaders, up to the call of ProcessTypeNames.
LoadFile(f) ==
    /\ loaded' = loaded \cup {f}
    /\ tuple' = Append(tuple, f)
    /\ Call(Frame("names", f))
    /\ UNCHANGED <<imported, marks, table>>

EnclosingTypes(f) == IF Scope(f) = NoType THEN <<>> ELSE Reverse(Path(Scope(f)))

(***************************************************************************)
(* The next call made on the way to u: the member types of the enclosing   *)
(* types are searched first, then the file is read, then each qualifier's  *)
(* member types are computed.                                              *)
(***************************************************************************)
Find(enclosing, u) ==
    \/ /\ \E k \in Incomplete(enclosing) :
             /\ \A j \in Incomplete(enclosing) : k <= j
             /\ Call(Frame("closure", enclosing[k]))
       /\ UNCHANGED <<source, marks, table>>
    \/ /\ Incomplete(enclosing) = {}
       /\ File(u) \notin loaded
       /\ LoadFile(File(u))
    \/ /\ Incomplete(enclosing) = {}
       /\ File(u) \in loaded
       /\ ~ Unusable(u)
       /\ \E c \in ToSet(Qualifiers(u)) \ table :
             /\ \A b \in ToSet(Qualifiers(c)) : b \in table
             /\ Call(Frame("closure", c))
       /\ UNCHANGED <<source, marks, table>>

Found(enclosing, u) ==
    /\ Incomplete(enclosing) = {}
    /\ File(u) \in loaded
    /\ Unusable(u) \/ ToSet(Qualifiers(u)) \subseteq table

\* Semantic::ProcessTypeHeader is entered: the type is marked at once.
Enter(t) ==
    /\ t \notin header
    /\ header' = header \cup {t}
    /\ processing' = [processing EXCEPT ![File(t)] = t]
    /\ UNCHANGED <<supers, closure, circular>>

CallHeader(t) == Enter(t) /\ Call(Frame("header", t))

-----------------------------------------------------------------------------
(* Semantic::ProcessTypeNames: the file's types exist from the start of the *)
(* frame; its single-type imports are then resolved in order.               *)

Import == prog.import[Top.on][Top.i]

ImportStep ==
    /\ Running("names")
    /\ Top.i <= Len(prog.import[Top.on])
    /\ \/ Find(<<>>, Import)
       \/ Found(<<>>, Import) /\ Advance /\ UNCHANGED <<source, marks, table>>
    /\ UNCHANGED <<prog, phase, sorting>>

ImportsDone ==
    /\ Running("names")
    /\ Top.i > Len(prog.import[Top.on])
    /\ imported' = imported \cup {Top.on}
    /\ Return
    /\ UNCHANGED <<prog, loaded, tuple, marks, table, phase, sorting>>

-----------------------------------------------------------------------------
(* Semantic::ComputeTypesClosure.                                           *)

ClosureHeader ==
    /\ Running("closure")
    /\ Top.i = 1
    /\ File(Top.on) \in imported
    /\ CallHeader(Top.on)
    /\ UNCHANGED <<prog, source, table, phase, sorting>>

\* Mutant: the table without supertypes is not kept.
ClosureSkipNoTable ==
    /\ Running("closure")
    /\ Top.i = 1
    /\ Top.on \notin header
    /\ File(Top.on) \notin imported
    /\ Return
    /\ UNCHANGED <<prog, source, marks, table, phase, sorting>>

\* skip_supertypes: the type's file is still processing its imports.
ClosureSkip ==
    /\ Running("closure")
    /\ Top.i = 1
    /\ Top.on \notin header
    /\ File(Top.on) \notin imported
    /\ table' = table \cup {Top.on}
    /\ Return
    /\ UNCHANGED <<prog, source, marks, phase, sorting>>

ClosureTable ==
    /\ Running("closure")
    /\ Top.i = 1
    /\ Top.on \in header
    /\ table' = table \cup {Top.on}
    /\ Advance
    /\ UNCHANGED <<prog, source, marks, phase, sorting>>

ClosureSupertype ==
    /\ Running("closure")
    /\ Top.i = 2
    /\ \E s \in supers[Top.on] \ table : Call(Frame("closure", s))
    /\ UNCHANGED <<prog, source, marks, table, phase, sorting>>

ClosureDone ==
    /\ Running("closure")
    /\ Top.i = 2
    /\ supers[Top.on] \subseteq table
    /\ Return
    /\ UNCHANGED <<prog, source, marks, table, phase, sorting>>

-----------------------------------------------------------------------------
(* Semantic::ProcessTypeHeader, ProcessSuperinterface: the clauses of one   *)
(* type, in order; each is resolved, its header is processed if that has    *)
(* not begun, and it is recorded.                                           *)

Clause == prog.clause[Top.on][Top.i]

HeaderFind ==
    /\ Running("header")
    /\ Top.i <= Len(prog.clause[Top.on])
    /\ Top.got = NoType
    /\ Find(EnclosingTypes(File(Top.on)), Clause)
    /\ UNCHANGED <<prog, phase, sorting>>

\* no_type is neither recorded nor asked for its header.
HeaderUnusable ==
    /\ Running("header")
    /\ Top.i <= Len(prog.clause[Top.on])
    /\ Top.got = NoType
    /\ Found(EnclosingTypes(File(Top.on)), Clause)
    /\ Unusable(Clause)
    /\ Advance
    /\ UNCHANGED <<prog, source, marks, table, phase, sorting>>

HeaderResolve ==
    /\ Running("header")
    /\ Top.i <= Len(prog.clause[Top.on])
    /\ Top.got = NoType
    /\ Found(EnclosingTypes(File(Top.on)), Clause)
    /\ ~ Unusable(Clause)
    /\ LET resolved == FrameAt("header", Top.on, Top.i, Clause)
       IN  IF Clause \in header
           THEN Continue(resolved) /\ UNCHANGED marks
           ELSE /\ Enter(Clause)
                /\ stack' = Append([stack EXCEPT ![Len(stack)] = resolved],
                                   Frame("header", Clause))
    /\ UNCHANGED <<prog, source, table, phase, sorting>>

\* Mutant: a supertype whose own header has not ended is not recorded.
HeaderRecordEnded ==
    /\ Running("header")
    /\ Top.got # NoType
    /\ IF \E k \in DOMAIN stack : stack[k].op = "header" /\ stack[k].on = Top.got
       THEN UNCHANGED <<supers, closure>>
       ELSE /\ supers' = [supers EXCEPT ![Top.on] = @ \cup {Top.got}]
            /\ closure' = [closure EXCEPT ![Top.on] =
                   @ \cup UNION {{s} \cup closure[s] : s \in ToSet(Path(Top.got))}]
    /\ Advance
    /\ UNCHANGED <<prog, source, header, circular, processing, table, phase, sorting>>

\* A superclass found bad by now is ignored, a superinterface is not.
HeaderRecord ==
    /\ Running("header")
    /\ Top.got # NoType
    /\ IF Top.got \in prog.class \cap circular
       THEN UNCHANGED <<supers, closure>>
       ELSE /\ supers' = [supers EXCEPT ![Top.on] = @ \cup {Top.got}]
            /\ closure' = [closure EXCEPT ![Top.on] =
                   @ \cup UNION {{s} \cup closure[s] : s \in ToSet(Path(Top.got))}]
    /\ Advance
    /\ UNCHANGED <<prog, source, header, circular, processing, table, phase, sorting>>

\* Mutant: a circular type is reported, but keeps its clauses.
HeaderDoneKeepsClauses ==
    /\ Running("header")
    /\ Top.i > Len(prog.clause[Top.on])
    /\ circular' = IF Top.on \in closure[Top.on] THEN circular \cup {Top.on} ELSE circular
    /\ processing' = [processing EXCEPT ![File(Top.on)] = NoType]
    /\ Become("nested")
    /\ UNCHANGED <<prog, source, header, supers, closure, table, phase, sorting>>

\* Mutant: a type below a circular one is taken for circular too.
HeaderDoneSpreads ==
    /\ Running("header")
    /\ Top.i > Len(prog.clause[Top.on])
    /\ IF \E s \in closure[Top.on] : s \in closure[s]
       THEN /\ supers' = [supers EXCEPT ![Top.on] = {}]
            /\ circular' = circular \cup {Top.on}
       ELSE UNCHANGED <<supers, circular>>
    /\ processing' = [processing EXCEPT ![File(Top.on)] = NoType]
    /\ Become("nested")
    /\ UNCHANGED <<prog, source, header, closure, table, phase, sorting>>

\* The end of ProcessTypeHeader: a type in its own closure loses its clauses.
HeaderDone ==
    /\ Running("header")
    /\ Top.i > Len(prog.clause[Top.on])
    /\ IF Top.on \in closure[Top.on]
       THEN /\ supers' = [supers EXCEPT ![Top.on] = {}]
            /\ circular' = circular \cup {Top.on}
       ELSE UNCHANGED <<supers, circular>>
    /\ processing' = [processing EXCEPT ![File(Top.on)] = NoType]
    /\ Become("nested")
    /\ UNCHANGED <<prog, source, header, closure, table, phase, sorting>>

\* Semantic::ProcessTypeHeaders, after ProcessTypeHeader: the member types.
NestedHeader ==
    /\ Running("nested")
    /\ \E c \in Nested(Top.on) : CallHeader(c)
    /\ UNCHANGED <<prog, source, table, phase, sorting>>

NestedDone ==
    /\ Running("nested")
    /\ Nested(Top.on) \subseteq header
    /\ Return
    /\ UNCHANGED <<prog, source, marks, table, phase, sorting>>

-----------------------------------------------------------------------------
(* Control::ProcessMembers, called by the outermost ProcessHeaders.         *)

NamesDone ==
    /\ phase = "names" /\ stack = <<>>
    /\ phase' = "order"
    /\ UNCHANGED <<prog, source, marks, table, stack, sorting>>

\* TypeCycleChecker::PartialOrder: the top-level types of the new files.
PartialOrder ==
    /\ phase = "order"
    /\ todo' = {t \in Types : TopLevel(t) /\
                   \E k \in start + 1 .. Len(tuple) : File(t) = tuple[k]}
    /\ start' = Len(tuple)
    /\ phase' = "headers"
    /\ UNCHANGED <<prog, source, marks, table, stack,
                   collection, pending, order, declared, bodyWork>>

\* Mutant: the headers are left to the lookups.
NextHeaderSkips ==
    /\ phase = "headers" /\ stack = <<>>
    /\ \E t \in todo : todo' = todo \ {t} /\ collection' = collection \cup {t}
    /\ UNCHANGED <<prog, source, marks, table, stack, phase,
                   start, pending, order, declared, bodyWork>>

NextHeader ==
    /\ phase = "headers" /\ stack = <<>>
    /\ \E t \in todo :
          /\ todo' = todo \ {t}
          /\ collection' = collection \cup {t}
          /\ IF t \in header THEN UNCHANGED <<stack, marks>> ELSE CallHeader(t)
    /\ UNCHANGED <<prog, source, table, phase,
                   start, pending, order, declared, bodyWork>>

HeadersDone ==
    /\ phase = "headers" /\ stack = <<>>
    /\ todo = {}
    /\ phase' = IF start < Len(tuple) THEN "order" ELSE "sort"
    /\ UNCHANGED <<prog, source, marks, table, stack, sorting>>

\* TopologicalSort::Sort and Process.
SortCall(t) ==
    /\ pending' = pending \cup {t}
    /\ Call(Frame("sort", t))
    /\ UNCHANGED <<prog, source, marks, table, phase,
                   start, todo, collection, order, declared, bodyWork>>

SortNext  == phase = "sort" /\ stack = <<>> /\ \E t \in collection \ pending : SortCall(t)

SortSuper == Running("sort") /\
             \E t \in (closure[Top.on] \cap collection) \ pending : SortCall(t)

\* Mutant: a type is emitted before the supertypes it waits for.
SortEmitUnsorted ==
    /\ Running("sort")
    /\ order' = Append(order, Top.on)
    /\ Return
    /\ UNCHANGED <<prog, source, marks, table, phase,
                   start, todo, collection, pending, declared, bodyWork>>

SortEmit ==
    /\ Running("sort")
    /\ closure[Top.on] \cap collection \subseteq pending
    /\ order' = Append(order, Top.on)
    /\ Return
    /\ UNCHANGED <<prog, source, marks, table, phase,
                   start, todo, collection, pending, declared, bodyWork>>

\* Mutant: needs_member_work is not emptied.
SortDoneKeepsCollection ==
    /\ phase = "sort" /\ stack = <<>>
    /\ collection \subseteq pending
    /\ pending' = {}
    /\ phase' = "members"
    /\ UNCHANGED <<prog, source, marks, table, stack,
                   start, todo, collection, order, declared, bodyWork>>

SortDone ==
    /\ phase = "sort" /\ stack = <<>>
    /\ collection \subseteq pending
    /\ pending' = {} /\ collection' = {}
    /\ phase' = "members"
    /\ UNCHANGED <<prog, source, marks, table, stack,
                   start, todo, order, declared, bodyWork>>

NextMembers ==
    /\ phase = "members" /\ stack = <<>>
    /\ order # <<>>
    /\ bodyWork' = Append(bodyWork, Head(order))
    /\ order' = Tail(order)
    /\ Call(Frame("members", Head(order)))
    /\ UNCHANGED <<prog, source, marks, table, phase,
                   start, todo, collection, pending, declared>>

Member == prog.member[Top.on][Top.i]

\* Semantic::ProcessMembers: the types its members mention are resolved.
MemberStep ==
    /\ Running("members")
    /\ Top.i <= Len(prog.member[Top.on])
    /\ LET scope == EnclosingTypes(File(Top.on))
       IN  \/ Find(scope, Member)
           \/ Found(scope, Member) /\ Advance /\ UNCHANGED <<source, marks, table>>
    /\ UNCHANGED <<prog, phase, sorting>>

MembersDeclared ==
    /\ Running("members")
    /\ Top.i = Len(prog.member[Top.on]) + 1
    /\ declared' = declared \cup {Top.on}
    /\ Advance
    /\ UNCHANGED <<prog, source, marks, table, phase,
                   start, todo, collection, pending, order, bodyWork>>

NestedMembers ==
    /\ Running("members")
    /\ Top.i > Len(prog.member[Top.on]) + 1
    /\ \E c \in Nested(Top.on) \ declared : Call(Frame("members", c))
    /\ UNCHANGED <<prog, source, marks, table, phase, sorting>>

MembersReturn ==
    /\ Running("members")
    /\ Top.i > Len(prog.member[Top.on]) + 1
    /\ Nested(Top.on) \subseteq declared
    /\ Return
    /\ UNCHANGED <<prog, source, marks, table, phase, sorting>>

\* New files were read: back to PartialOrder.  Otherwise semantic.Reset().
MembersDone ==
    /\ phase = "members" /\ stack = <<>>
    /\ order = <<>>
    /\ IF start < Len(tuple)
       THEN phase' = "order" /\ UNCHANGED tuple
       ELSE phase' = "done" /\ tuple' = <<>>
    /\ UNCHANGED <<prog, loaded, imported, marks, table, stack, sorting>>

Finished == phase = "done" /\ UNCHANGED vars

NamesNext   == ImportStep \/ ImportsDone \/ NamesDone
ClosureNext == ClosureHeader \/ ClosureSkip \/ ClosureTable
                   \/ ClosureSupertype \/ ClosureDone
HeaderNext  == HeaderFind \/ HeaderUnusable \/ HeaderResolve \/ HeaderRecord
                   \/ HeaderDone \/ NestedHeader \/ NestedDone
BatchNext   == PartialOrder \/ NextHeader \/ HeadersDone
SortingNext == SortNext \/ SortSuper \/ SortEmit \/ SortDone
MemberNext  == NextMembers \/ MemberStep \/ MembersDeclared \/ NestedMembers
                   \/ MembersReturn \/ MembersDone

Next == NamesNext \/ ClosureNext \/ HeaderNext \/ BatchNext \/ SortingNext
            \/ MemberNext \/ Finished

\* One thread runs the program to its end.
Spec == Init /\ [][Next]_vars /\ WF_vars(Next)


-----------------------------------------------------------------------------
(* Properties.  "Above" and "on a source cycle" are what the source text    *)
(* says; they do not depend on the compiler's progress.                     *)

Above(t)         == prog.above[t]
OnSourceCycle(t) == t \in Above(t)

InProgress(t)    == \E k \in DOMAIN stack : stack[k].op = "header" /\ stack[k].on = t
HeaderInProgress == \E k \in DOMAIN stack : stack[k].op = "header"

\* The frames of the stack refer to files or types as their procedure does.
Procedures == {"closure", "header", "nested", "sort", "members"}
Frames ==
    [op : {"names"}, on : Files, i : Nat \ {0}, got : {NoType}]
        \cup [op : Procedures, on : Types, i : Nat \ {0}, got : Types \cup {NoType}]

\* Every variable has its type; nothing is imported by a file that was not read,
\* and no clauses are recorded for a type whose header was not begun.
TypeOK ==
    /\ loaded \subseteq Files /\ imported \subseteq loaded
    /\ tuple \in Seq(loaded) /\ start \in Nat
    /\ header \subseteq Types /\ circular \subseteq header /\ table \subseteq Types
    /\ supers \in [Types -> SUBSET Types] /\ closure \in [Types -> SUBSET Types]
    /\ \A t \in Types \ header : closure[t] = {}
    /\ processing \in [Files -> Types \cup {NoType}]
    /\ stack \in Seq(Frames)
    /\ phase \in {"names", "order", "headers", "sort", "members", "done"}
    /\ todo \cup collection \cup pending \cup declared \subseteq Types
    /\ order \in Seq(Types) /\ bodyWork \in Seq(Types)

\* A type is reported circular only when its source really is.
CircularOnCycle == \A t \in circular : OnSourceCycle(t)

\* Whenever no header is in progress, the recorded hierarchy has no cycle:
\* the code that walks super and interfaces (AddInherited..., the closures)
\* recurses without a bound.
HierarchyAcyclic ==
    ~ HeaderInProgress =>
        \A S \in (SUBSET Types) \ {{}} : \E t \in S : supers[t] \cap S = {}

\* The hierarchy is the source's: supertypes_closure never holds a type the
\* source does not make a supertype, though headers are recorded while others are
\* in progress and closures keep what later loses its owner's clauses; and once
\* a header has ended, no clause of it is lost, unless a cycle is to blame.
HierarchyExact ==
    \A t \in Types :
        /\ closure[t] \subseteq Above(t)
        /\ supers[t] \subseteq ToSet(prog.clause[t])
        /\ t \in header /\ ~ InProgress(t) /\ ~ OnSourceCycle(t) =>
              \A s \in ToSet(prog.clause[t]) :
                  (\A u \in ToSet(Path(s)) : ~ OnSourceCycle(u)) =>
                      s \in supers[t] /\ ToSet(Path(s)) \subseteq closure[t]

\* When the members of a top-level type are processed, those of its recorded
\* supertypes are, unless the source is cyclic there.
MembersAfterSupers ==
    \A k \in DOMAIN stack :
        LET t == stack[k].on
        IN  stack[k].op = "members" /\ TopLevel(t) /\ ~ OnSourceCycle(t) =>
                \A s \in supers[t] : Head(Path(s)) \in declared

\* No members are processed twice, and no type enters needs_body_work twice:
\* the assertions that open ProcessMembers and CompleteSymbolTable.  At the end,
\* every type of every file that was read has its header and its members, and
\* every top-level one waits for its body.
EveryTypeOnce ==
    /\ IsInjective(bodyWork)
    /\ \A k \in DOMAIN stack : stack[k].op = "members" =>
          \A j \in DOMAIN stack :
              stack[j].op = "members" /\ stack[j].on = stack[k].on => j = k
    /\ Running("members") /\ Top.i <= Len(prog.member[Top.on])
          => Top.on \notin declared
    /\ phase = "done" =>
        \A t \in Types : File(t) \in loaded =>
            /\ t \in header \cap declared
            /\ TopLevel(t) => t \in ToSet(bodyWork)

\* A type whose members are declared never gets new supertypes or becomes
\* circular: the tables computed from it stay valid.
HierarchyFrozen ==
    [][\A t \in declared : supers'[t] = supers[t] /\ (t \in circular' => t \in circular)]_vars

\* The nested calls and the batches of new files come to an end.
Termination == <>(phase = "done")

=============================================================================
