------------------------- MODULE TypeHeadersProofs -------------------------
(***************************************************************************)
(* Proofs about the module TypeHeaders, for all well-formed programs of    *)
(* any number of types and files.                                          *)
(***************************************************************************)
EXTENDS TypeHeaders, TLAPS, SequenceTheorems, WellFoundedInduction

-----------------------------------------------------------------------------
(* What the program is.                                                     *)

\* The source a program stands for, read off its assumption.
LEMMA ProgramFacts ==
    ASSUME prog \in Programs
    PROVE  /\ prog.file \in [Types -> Files] /\ prog.root \in Files
           /\ prog.outer \in [Types -> Types \cup {NoType}]
           /\ prog.clause \in [Types -> Seq(Types)] /\ prog.member \in [Types -> Seq(Types)]
           /\ prog.import \in [Files -> Seq(Types)]
           /\ \A t \in Types :
                 /\ File(t) \in Files
                 /\ Path(t) \in Seq(Types) /\ Path(t) # <<>> /\ t \in ToSet(Path(t))
                 /\ Head(Path(t)) \in ToSet(Path(t)) /\ ToSet(Path(t)) \subseteq Types
                 /\ TopLevel(Head(Path(t))) /\ File(Head(Path(t))) = File(t)
                 /\ Above(t) \subseteq Types
                 /\ \A u \in Above(t) : Above(u) \subseteq Above(t)
                 /\ \A i \in 1 .. Len(prog.clause[t]) :
                       /\ prog.clause[t][i] \in Types
                       /\ ToSet(Path(prog.clause[t][i])) \subseteq Above(t)
                 /\ \A c \in Nested(t) : File(c) = File(t)
<1>1. WellFormed(prog)
  BY ProgramsAssumption
<1>2. /\ prog.file \in [Types -> Files] /\ prog.root \in Files
      /\ prog.outer \in [Types -> Types \cup {NoType}]
      /\ prog.clause \in [Types -> Seq(Types)] /\ prog.member \in [Types -> Seq(Types)]
      /\ prog.import \in [Files -> Seq(Types)]
      /\ prog.above \in [Types -> SUBSET Types]
  BY <1>1 DEF WellFormed, ProgramRecords
<1>3. SUFFICES ASSUME NEW t \in Types
               PROVE  /\ File(t) \in Files
                      /\ Path(t) \in Seq(Types) /\ Path(t) # <<>> /\ t \in ToSet(Path(t))
                      /\ Head(Path(t)) \in ToSet(Path(t)) /\ ToSet(Path(t)) \subseteq Types
                      /\ TopLevel(Head(Path(t))) /\ File(Head(Path(t))) = File(t)
                      /\ Above(t) \subseteq Types
                      /\ \A u \in Above(t) : Above(u) \subseteq Above(t)
                      /\ \A i \in 1 .. Len(prog.clause[t]) :
                            /\ prog.clause[t][i] \in Types
                            /\ ToSet(Path(prog.clause[t][i])) \subseteq Above(t)
                      /\ \A c \in Nested(t) : File(c) = File(t)
  BY <1>2
<1>4. /\ Path(t) \in Seq(Types) /\ Path(t) # <<>>
      /\ prog.outer[Head(Path(t))] = NoType /\ Last(Path(t)) = t
      /\ \A k \in DOMAIN Path(t) : prog.file[Path(t)[k]] = prog.file[t]
  BY <1>1 DEF WellFormed, Path
<1>5. /\ 1 \in DOMAIN Path(t) /\ Head(Path(t)) = Path(t)[1]
      /\ ToSet(Path(t)) \subseteq Types
  BY <1>4 DEF ToSet
<1>6. Head(Path(t)) \in ToSet(Path(t)) /\ File(Head(Path(t))) = File(t)
      /\ t \in ToSet(Path(t))
  BY <1>4, <1>5 DEF ToSet, File, Last
<1>7. Above(t) \subseteq Types /\ \A u \in Above(t) : Above(u) \subseteq Above(t)
  BY <1>1, <1>2 DEF WellFormed, Above
<1>8. ASSUME NEW i \in 1 .. Len(prog.clause[t])
      PROVE  /\ prog.clause[t][i] \in Types
             /\ ToSet(Path(prog.clause[t][i])) \subseteq Above(t)
  <2>1. prog.clause[t] \in Seq(Types)
    BY <1>2
  <2>2. prog.clause[t][i] \in Types /\ prog.clause[t][i] \in ToSet(prog.clause[t])
    BY <2>1 DEF ToSet
  <2> QED
    BY <1>1, <2>2 DEF WellFormed, Above, Path
<1>9. ASSUME NEW c \in Nested(t)
      PROVE  File(c) = File(t)
  <2>1. c \in Types /\ prog.outer[c] = t /\ t # NoType
    BY <1>9, NoTypeAssumption DEF Nested
  <2>2. \A u \in Types : prog.outer[u] # NoType => prog.file[prog.outer[u]] = prog.file[u]
    BY <1>1 DEF WellFormed
  <2> QED
    BY <2>1, <2>2 DEF File
<1> QED
  BY <1>2, <1>4, <1>5, <1>6, <1>7, <1>8, <1>9 DEF File, TopLevel

-----------------------------------------------------------------------------
(* The stack, frame by frame.                                               *)

Grown(frame) ==
    /\ Len(stack') = Len(stack) + 1 /\ stack'[Len(stack) + 1] = frame
    /\ \A k \in 1 .. Len(stack) : stack'[k] = stack[k]
Shrunk ==
    /\ stack # <<>> /\ Len(stack') = Len(stack) - 1
    /\ \A k \in 1 .. Len(stack) - 1 : stack'[k] = stack[k]
Replaced(frame) ==
    /\ stack # <<>> /\ Len(stack') = Len(stack) /\ stack'[Len(stack)] = frame
    /\ \A k \in 1 .. Len(stack) - 1 : stack'[k] = stack[k]

\* A call adds a frame.
LEMMA Called ==
    ASSUME stack \in Seq(Frames), NEW frame \in Frames, Call(frame)
    PROVE  stack' \in Seq(Frames) /\ Grown(frame)
BY DEF Call, Grown

\* A return removes one.
LEMMA Returned ==
    ASSUME stack \in Seq(Frames), stack # <<>>, Return
    PROVE  stack' \in Seq(Frames) /\ Shrunk
<1> DEFINE n    == Len(stack) - 1
           rest == SubSeq(stack, 1, n)
<1>1. n \in Nat /\ Len(stack) = n + 1
  OBVIOUS
<1>2. stack' = rest
  BY DEF Return, Front
<1>3. \A k \in 1 .. n : stack[k] \in Frames
  OBVIOUS
<1> HIDE DEF n
<1>4. /\ rest \in Seq(Frames)
      /\ Len(rest) = n
      /\ \A k \in 1 .. n : rest[k] = stack[k]
  <2>1. /\ rest \in Seq(Frames)
        /\ Len(rest) = IF 1 <= n THEN n - 1 + 1 ELSE 0
        /\ \A k \in 1 .. n - 1 + 1 : rest[k] = stack[1 + k - 1]
    BY <1>1, <1>3, SubSeqProperties
  <2> HIDE DEF rest
  <2> QED
    BY <1>1, <2>1
<1> HIDE DEF rest
<1> QED
  BY <1>1, <1>2, <1>4 DEF Shrunk

\* A step of a procedure replaces the innermost frame.
LEMMA Stepped ==
    ASSUME stack \in Seq(Frames), stack # <<>>, NEW frame \in Frames,
           Continue(frame)
    PROVE  stack' \in Seq(Frames) /\ Replaced(frame)
BY DEF Replaced, Continue

\* The innermost frame.
LEMMA TopFrame ==
    ASSUME stack \in Seq(Frames), NEW op, Running(op)
    PROVE  /\ stack # <<>> /\ Len(stack) \in Nat /\ Len(stack) > 0
           /\ Top = stack[Len(stack)] /\ Top \in Frames /\ Top.op = op
           /\ Top.i \in Nat \ {0}
           /\ op = "names" => Top.on \in Files
           /\ op # "names" => Top.on \in Types /\ Top.got \in Types \cup {NoType}
BY DEF Running, Top, Last, Frames, Procedures

\* The next clause, member or import of the innermost procedure.
LEMMA Advanced ==
    ASSUME stack \in Seq(Frames), NEW op, Running(op), Advance
    PROVE  /\ stack' \in Seq(Frames)
           /\ Replaced(FrameAt(op, Top.on, Top.i + 1, NoType))
<1>1. FrameAt(op, Top.on, Top.i + 1, NoType) \in Frames
  BY TopFrame DEF Frames, FrameAt, Procedures, Running, Top, Last
<1> QED
  BY <1>1, TopFrame, Stepped DEF Advance

-----------------------------------------------------------------------------
(* What one step of a lookup does.                                          *)

\* A set of natural numbers has a least element.
LEMMA LeastOf ==
    ASSUME NEW S \in SUBSET Nat, S # {}
    PROVE  \E n \in S : \A m \in S : n <= m
<1> DEFINE less == OpToRel(<, Nat)
<1>1. IsWellFoundedOn(less, Nat)
  BY NatLessThanWellFounded, Zenon
<1>2. PICK n \in S : \A m \in S : ~ (<<m, n>> \in less)
  <2> HIDE DEF less
  <2> QED
    BY <1>1, WFMin
<1>3. \A m \in S : ~ (m < n)
  BY <1>2, Zenon DEF OpToRel
<1> QED
  BY <1>3

\* A set of places of a sequence has a last one.
LEMMA GreatestOf ==
    ASSUME NEW n \in Nat, NEW S \in SUBSET (1 .. n), S # {}
    PROVE  \E k \in S : \A j \in S : j <= k
<1> DEFINE rest == {n - k : k \in S}
<1>1. rest \in SUBSET Nat /\ rest # {}
  <2>1. ASSUME NEW k \in S
        PROVE  n - k \in Nat
    <3>1. k \in 1 .. n
      OBVIOUS
    <3> QED
      BY <3>1
  <2> QED
    BY <2>1
<1>2. PICK r \in rest : \A q \in rest : r <= q
  <2> HIDE DEF rest
  <2> QED
    BY <1>1, LeastOf
<1>3. PICK k \in S : r = n - k
  BY <1>2
<1>4. ASSUME NEW j \in S
      PROVE  j <= k
  <2>1. n - k <= n - j
    BY <1>2, <1>3
  <2> QED
    BY <2>1
<1> QED
  BY <1>4

\* The innermost type of a file being looked at is a type.
LEMMA ScopeType ==
    ASSUME stack \in Seq(Frames), NEW f
    PROVE  Scope(f) \in Types \cup {NoType}
<1> DEFINE envs    == {k \in DOMAIN stack :
                          stack[k].op \in {"nested", "members"} /\ File(stack[k].on) = f}
           Last1(k) == k \in envs /\ \A j \in envs : j <= k
<1>1. CASE envs = {}
  BY <1>1 DEF Scope
<1>2. CASE envs # {}
  <2>1. Len(stack) \in Nat /\ envs \in SUBSET (1 .. Len(stack))
    OBVIOUS
  <2>2. \E k \in envs : \A j \in envs : j <= k
    <3> HIDE DEF envs
    <3> QED
      BY <1>2, <2>1, GreatestOf
  <2> DEFINE last == CHOOSE k \in envs : \A j \in envs : j <= k
  <2>3. last \in envs
    BY <2>2
  <2>4. stack[last] \in Frames /\ stack[last].op \in {"nested", "members"}
    BY <2>3
  <2>5. stack[last].on \in Types
    BY <2>4 DEF Frames
  <2>6. Scope(f) = stack[last].on
    BY <1>2 DEF Scope
  <2> QED
    BY <2>5, <2>6
<1> QED
  BY <1>1, <1>2

LEMMA EnclosingType ==
    ASSUME prog \in Programs, stack \in Seq(Frames), NEW f
    PROVE  EnclosingTypes(f) \in Seq(Types)
<1>1. CASE Scope(f) = NoType
  BY <1>1 DEF EnclosingTypes
<1>2. CASE Scope(f) # NoType
  <2>1. Path(Scope(f)) \in Seq(Types)
    BY <1>2, ScopeType, ProgramFacts
  <2> DEFINE path == Path(Scope(f))
  <2> HIDE DEF path
  <2>2. \A s \in Seq(Types) : Reverse(s) \in Seq(Types)
    BY DEF Reverse
  <2> QED
    BY <1>2, <2>1, <2>2 DEF EnclosingTypes
<1> QED
  BY <1>1, <1>2

\* A lookup reads the file of the name or asks for the members of a type.
Reads(f)  == f \in Files \ loaded /\ LoadFile(f)
Asks(c)   == /\ c \in Types /\ Call(Frame("closure", c))
             /\ UNCHANGED <<source, marks, table>>

LEMMA FindEffect ==
    ASSUME prog \in Programs, NEW enclosing \in Seq(Types), NEW u \in Types,
           Find(enclosing, u)
    PROVE  \/ \E f \in Files : Reads(f)
           \/ \E c \in Types : Asks(c) /\ c \in ToSet(enclosing) \cup ToSet(Qualifiers(u))
<1>1. File(u) \in Files /\ Path(u) \in Seq(Types) /\ Path(u) # <<>>
  BY ProgramFacts
<1>2. ToSet(Qualifiers(u)) \subseteq Types
  <2>1. Front(Path(u)) \in Seq(Types)
    BY <1>1 DEF Front
  <2> QED
    BY <2>1 DEF Qualifiers, ToSet
<1>3. \A k \in Incomplete(enclosing) : enclosing[k] \in Types /\ enclosing[k] \in ToSet(enclosing)
  BY DEF Incomplete, ToSet
<1> QED
  BY <1>1, <1>2, <1>3 DEF Find, Reads, Asks
-----------------------------------------------------------------------------
(***************************************************************************)
(* The inductive invariant, first part: headers.  It does not depend on    *)
(* who asked for a header.                                                 *)
(***************************************************************************)

\* What the frames refer to: names of a file that was read, headers that were
\* begun; a name that was resolved is the current clause.
FramesRefer ==
    \A k \in 1 .. Len(stack) :
        /\ stack[k].op = "names" => stack[k].on \in loaded
        /\ stack[k].op \in {"header", "nested"} => stack[k].on \in header
        /\ stack[k].op = "header" /\ stack[k].got # NoType =>
              /\ stack[k].i <= Len(prog.clause[stack[k].on])
              /\ stack[k].got = prog.clause[stack[k].on][stack[k].i]
              /\ File(stack[k].got) \in loaded

\* A header is processed once.
OneHeader ==
    \A j, k \in 1 .. Len(stack) :
        stack[j].op = "header" /\ stack[k].op = "header" /\ stack[j].on = stack[k].on => j = k

\* What is recorded comes from the clauses, with all it is nested in.
Hierarchy ==
    \A t \in Types :
        /\ closure[t] \subseteq Above(t)
        /\ supers[t] \subseteq ToSet(prog.clause[t])
        /\ \A s \in supers[t] : ToSet(Path(s)) \subseteq closure[t] /\ File(s) \in loaded

\* The first n clauses of t are recorded, but for those a cycle may spoil.
Spoilt(s)      == \E u \in ToSet(Path(s)) : OnSourceCycle(u)
Recorded(t, n) == \A i \in 1 .. Len(prog.clause[t]) :
                      i <= n /\ ~ Spoilt(prog.clause[t][i]) => prog.clause[t][i] \in supers[t]

ClausesRecorded ==
    /\ \A k \in 1 .. Len(stack) :
          stack[k].op = "header" /\ ~ OnSourceCycle(stack[k].on) =>
              Recorded(stack[k].on, stack[k].i - 1)
    /\ \A t \in header :
          ~ InProgress(t) /\ ~ OnSourceCycle(t) => Recorded(t, Len(prog.clause[t]))

\* Once a header is done, so are those of the member types, or they are next.
NestedKnown ==
    \A t \in header :
        \/ Nested(t) \subseteq header
        \/ \E k \in 1 .. Len(stack) : stack[k].op \in {"header", "nested"} /\ stack[k].on = t

HeaderInv == /\ prog \in Programs /\ TypeOK
             /\ FramesRefer /\ OneHeader /\ Hierarchy /\ CircularOnCycle
             /\ ClausesRecorded /\ NestedKnown

LEMMA InitHeader == Init => HeaderInv
<1> SUFFICES ASSUME Init PROVE HeaderInv
  OBVIOUS
<1> USE DEF Init
<1>1. prog \in Programs /\ prog.root \in Files
  BY ProgramFacts
<1>2. Len(stack) = 1 /\ stack[1] = Frame("names", prog.root) /\ stack \in Seq(Frames)
  BY <1>1 DEF Frame, FrameAt, Frames
<1>3. TypeOK
  BY <1>1, <1>2 DEF TypeOK
<1>4. FramesRefer /\ OneHeader /\ ClausesRecorded /\ NestedKnown
  BY <1>2 DEF FramesRefer, OneHeader, ClausesRecorded, NestedKnown, Frame, FrameAt
<1>5. Hierarchy /\ CircularOnCycle
  BY <1>1 DEF Hierarchy, CircularOnCycle
<1> QED
  BY <1>1, <1>3, <1>4, <1>5 DEF HeaderInv

\* Every variable keeps its type.
LEMMA TypeStep ==
    ASSUME HeaderInv, Next
    PROVE  TypeOK'
<1>1. /\ prog \in Programs /\ TypeOK /\ FramesRefer
  BY DEF HeaderInv
<1>2. stack \in Seq(Frames)
  BY <1>1 DEF TypeOK
<1> DEFINE Source == UNCHANGED <<prog, loaded, tuple, imported>>
<1>3. ASSUME NEW enclosing \in Seq(Types), NEW u \in Types, Find(enclosing, u),
             UNCHANGED <<prog, phase, sorting>>
      PROVE  TypeOK'
  <2>1. CASE \E f \in Files : Reads(f)
    <3>1. PICK f \in Files : Reads(f)
      BY <2>1
    <3>2. Frame("names", f) \in Frames
      BY DEF Frame, FrameAt, Frames
    <3>3. stack' \in Seq(Frames)
      BY <1>2, <3>1, <3>2, Called DEF Reads, LoadFile
    <3> QED
      BY <1>1, <1>3, <3>1, <3>3 DEF TypeOK, Reads, LoadFile, marks, sorting
  <2>2. ASSUME \E c \in Types : Asks(c) PROVE TypeOK'
    <3>1. PICK c \in Types : Asks(c)
      BY <2>2
    <3>2. Frame("closure", c) \in Frames
      BY DEF Frame, FrameAt, Frames, Procedures
    <3>3. stack' \in Seq(Frames)
      BY <1>2, <3>1, <3>2, Called DEF Asks
    <3> QED
      BY <1>1, <1>3, <3>1, <3>3 DEF TypeOK, Asks, source, marks, sorting
  <2> QED
    BY <1>1, <1>3, <2>1, <2>2, FindEffect
<1>4. ASSUME NEW t \in Types, CallHeader(t), UNCHANGED <<prog, source, table, phase>>,
             start' \in Nat, todo' \cup collection' \subseteq Types,
             UNCHANGED <<pending, order, declared, bodyWork>>
      PROVE  TypeOK'
  <2>1. Frame("header", t) \in Frames
    BY DEF Frame, FrameAt, Frames, Procedures
  <2>2. stack' \in Seq(Frames)
    BY <1>2, <1>4, <2>1, Called DEF CallHeader
  <2> QED
    BY <1>1, <1>4, <2>2 DEF TypeOK, CallHeader, Enter, source
<1>5. ASSUME ImportStep PROVE TypeOK'
  <2>1. Running("names") /\ Top.on \in Files /\ Import \in Types
    BY <1>1, <1>2, <1>5, TopFrame, ProgramFacts DEF ImportStep, Import
  <2>2. CASE Find(<<>>, Import)
    <3>1. <<>> \in Seq(Types)
      OBVIOUS
    <3> QED
      BY <1>3, <1>5, <2>1, <2>2, <3>1 DEF ImportStep
  <2>3. CASE Advance /\ UNCHANGED <<source, marks, table>>
    BY <1>1, <1>2, <1>5, <2>1, <2>3, Advanced DEF TypeOK, ImportStep, source, marks, sorting
  <2> QED
    BY <1>5, <2>2, <2>3 DEF ImportStep
<1>6. ASSUME ImportsDone PROVE TypeOK'
  <2>1. Running("names") /\ Top.on \in loaded /\ stack # <<>>
    BY <1>1, <1>2, <1>6, TopFrame DEF ImportsDone, FramesRefer
  <2>2. stack' \in Seq(Frames)
    BY <1>2, <1>6, <2>1, Returned DEF ImportsDone
  <2> QED
    BY <1>1, <1>6, <2>1, <2>2 DEF TypeOK, ImportsDone, marks, sorting
<1>7. ASSUME ClosureNext PROVE TypeOK'
  <2>1. Running("closure") /\ Top.on \in Types /\ stack # <<>>
    BY <1>2, <1>7, TopFrame DEF ClosureNext, ClosureHeader, ClosureSkip, ClosureTable,
       ClosureSupertype, ClosureDone
  <2>2. CASE ClosureHeader
    BY <1>1, <1>4, <2>1, <2>2 DEF ClosureHeader, TypeOK, sorting
  <2>3. CASE ClosureSkip \/ ClosureDone
    BY <1>1, <1>2, <2>1, <2>3, Returned DEF ClosureSkip, ClosureDone, TypeOK, source, marks, sorting
  <2>4. CASE ClosureTable
    <3>1. stack' \in Seq(Frames)
      BY <1>2, <2>1, <2>4, Advanced DEF ClosureTable
    <3> QED
      BY <1>1, <2>1, <2>4, <3>1 DEF ClosureTable, TypeOK, source, marks, sorting
  <2>5. CASE ClosureSupertype
    <3>1. PICK s \in Types : Call(Frame("closure", s))
      BY <1>1, <2>1, <2>5 DEF ClosureSupertype, TypeOK
    <3>2. Frame("closure", s) \in Frames
      BY DEF Frame, FrameAt, Frames, Procedures
    <3> QED
      BY <1>1, <1>2, <2>5, <3>1, <3>2, Called DEF ClosureSupertype, TypeOK, source, marks, sorting
  <2> QED
    BY <1>7, <2>2, <2>3, <2>4, <2>5 DEF ClosureNext
<1>8. ASSUME HeaderNext PROVE TypeOK'
  <2>1. /\ Running("header") \/ Running("nested")
        /\ Top.on \in Types /\ Top.on \in header /\ stack # <<>>
    BY <1>1, <1>2, <1>8, TopFrame DEF HeaderNext, HeaderFind, HeaderUnusable, HeaderResolve,
       HeaderRecord, HeaderDone, NestedHeader, NestedDone, FramesRefer
  <2>2. ASSUME Top.i <= Len(prog.clause[Top.on]) PROVE Clause \in Types
    <3>1. Top.i \in Nat /\ Top.i > 0
      <4>1. Running("header") => Top.i \in Nat \ {0}
        BY <1>2, TopFrame
      <4>2. Running("nested") => Top.i \in Nat \ {0}
        BY <1>2, TopFrame
      <4> QED
        BY <2>1, <4>1, <4>2
    <3>2. Top.i \in 1 .. Len(prog.clause[Top.on])
      <4>1. Len(prog.clause[Top.on]) \in Nat
        BY <1>1, <2>1, ProgramFacts
      <4> QED
        BY <2>2, <3>1, <4>1
    <3> QED
      BY <1>1, <2>1, <3>2, ProgramFacts DEF Clause
  <2>3. CASE HeaderFind
    <3>1. EnclosingTypes(File(Top.on)) \in Seq(Types)
      BY <1>1, <1>2, EnclosingType
    <3> QED
      BY <1>3, <2>2, <2>3, <3>1 DEF HeaderFind
  <2>4. CASE HeaderUnusable
    <3>1. stack' \in Seq(Frames)
      BY <1>2, <2>4, Advanced DEF HeaderUnusable
    <3> QED
      BY <1>1, <2>4, <3>1 DEF HeaderUnusable, TypeOK, source, marks, sorting
  <2>5. CASE HeaderResolve
    <3> DEFINE resolved == FrameAt("header", Top.on, Top.i, Clause)
               stepped  == [stack EXCEPT ![Len(stack)] = resolved]
    <3>1. resolved \in Frames /\ Frame("header", Clause) \in Frames
      BY <1>2, <2>1, <2>2, <2>5, TopFrame DEF HeaderResolve, FrameAt, Frame, Frames, Procedures
    <3>2. stepped \in Seq(Frames)
      BY <1>2, <2>1, <3>1
    <3>3. stack' = stepped \/ stack' = Append(stepped, Frame("header", Clause))
      BY <2>5 DEF HeaderResolve, Continue
    <3>4. stack' \in Seq(Frames)
      <4> HIDE DEF stepped
      <4> QED
        BY <3>1, <3>2, <3>3
    <3>5. UNCHANGED marks \/ Enter(Clause)
      BY <2>5 DEF HeaderResolve
    <3> QED
      BY <1>1, <2>2, <2>5, <3>4, <3>5 DEF HeaderResolve, Enter, TypeOK, source, marks, sorting
  <2>6. CASE HeaderRecord
    <3>1. stack' \in Seq(Frames)
      BY <1>2, <2>6, Advanced DEF HeaderRecord
    <3>2. Top.got \in Types
      BY <1>2, <2>6, TopFrame DEF HeaderRecord
    <3>3. ToSet(Path(Top.got)) \subseteq Types
      BY <1>1, <3>2, ProgramFacts
    <3>4. /\ supers' \in [Types -> SUBSET Types] /\ closure' \in [Types -> SUBSET Types]
          /\ \A t \in Types \ header : closure'[t] = {}
      <4>1. CASE UNCHANGED <<supers, closure>>
        BY <1>1, <4>1 DEF TypeOK
      <4> DEFINE new == UNION {{s} \cup closure[s] : s \in ToSet(Path(Top.got))}
      <4>2. CASE /\ supers' = [supers EXCEPT ![Top.on] = @ \cup {Top.got}]
                 /\ closure' = [closure EXCEPT ![Top.on] = @ \cup new]
        <5>1. new \subseteq Types
          BY <1>1, <3>3 DEF TypeOK
        <5> HIDE DEF new
        <5> QED
          BY <1>1, <2>1, <3>2, <4>2, <5>1 DEF TypeOK
      <4> QED
        BY <2>6, <4>1, <4>2 DEF HeaderRecord
    <3> QED
      BY <1>1, <2>6, <3>1, <3>4 DEF HeaderRecord, TypeOK, source, sorting
  <2>7. CASE HeaderDone
    <3>1. Frame("nested", Top.on) \in Frames
      BY <2>1 DEF Frame, FrameAt, Frames, Procedures
    <3>2. stack' \in Seq(Frames)
      BY <1>2, <2>1, <2>7, <3>1, Stepped DEF HeaderDone, Become
    <3>3. supers' \in [Types -> SUBSET Types] /\ circular' \subseteq header
      <4>1. \/ UNCHANGED <<supers, circular>>
            \/ /\ supers' = [supers EXCEPT ![Top.on] = {}]
               /\ circular' = circular \cup {Top.on}
        BY <2>7 DEF HeaderDone
      <4>2. supers \in [Types -> SUBSET Types] /\ circular \subseteq header
        BY <1>1 DEF TypeOK
      <4> QED
        BY <2>1, <4>1, <4>2
    <3>4. /\ UNCHANGED <<loaded, tuple, imported, header, closure, table, phase, sorting>>
          /\ processing' = [processing EXCEPT ![File(Top.on)] = NoType]
      BY <2>7 DEF HeaderDone, source
    <3> QED
      BY <1>1, <3>2, <3>3, <3>4 DEF TypeOK, sorting
  <2>8. CASE NestedHeader
    BY <1>1, <1>4, <2>1, <2>8 DEF NestedHeader, Nested, TypeOK, sorting
  <2>9. CASE NestedDone
    BY <1>1, <1>2, <2>1, <2>9, Returned DEF NestedDone, TypeOK, source, marks, sorting
  <2> QED
    BY <1>8, <2>3, <2>4, <2>5, <2>6, <2>7, <2>8, <2>9 DEF HeaderNext
<1>9. ASSUME NamesDone \/ BatchNext PROVE TypeOK'
  <2>1. CASE NamesDone \/ HeadersDone
    BY <1>1, <2>1 DEF NamesDone, HeadersDone, TypeOK, source, marks, sorting
  <2>2. CASE PartialOrder
    <3>1. Len(tuple) \in Nat
      BY <1>1 DEF TypeOK
    <3> QED
      BY <1>1, <2>2, <3>1 DEF PartialOrder, TypeOK, source, marks
  <2>3. CASE NextHeader
    <3>1. PICK t \in todo :
             /\ todo' = todo \ {t}
             /\ collection' = collection \cup {t}
             /\ IF t \in header THEN UNCHANGED <<stack, marks>> ELSE CallHeader(t)
      BY <2>3 DEF NextHeader
    <3>2. t \in Types /\ start' \in Nat /\ todo' \cup collection' \subseteq Types
      BY <1>1, <2>3, <3>1 DEF NextHeader, TypeOK
    <3>3. CASE CallHeader(t)
      BY <1>4, <2>3, <3>2, <3>3 DEF NextHeader
    <3>4. CASE UNCHANGED <<stack, marks>>
      BY <1>1, <2>3, <3>2, <3>4 DEF NextHeader, TypeOK, source, marks
    <3> QED
      BY <3>1, <3>3, <3>4
  <2> QED
    BY <1>9, <2>1, <2>2, <2>3 DEF BatchNext
<1>10. ASSUME NEW t \in Types, SortCall(t) PROVE TypeOK'
  <2>1. Frame("sort", t) \in Frames
    BY DEF Frame, FrameAt, Frames, Procedures
  <2>2. stack' \in Seq(Frames)
    BY <1>2, <1>10, <2>1, Called DEF SortCall
  <2> QED
    BY <1>1, <1>10, <2>2 DEF SortCall, TypeOK, source, marks
<1>11. ASSUME SortingNext PROVE TypeOK'
  <2>1. CASE SortNext \/ SortSuper
    BY <1>1, <1>10, <2>1 DEF SortNext, SortSuper, TypeOK
  <2>2. CASE SortEmit
    <3>1. Top.on \in Types /\ stack # <<>>
      BY <1>2, <2>2, TopFrame DEF SortEmit
    <3>2. stack' \in Seq(Frames) /\ order' \in Seq(Types)
      BY <1>1, <1>2, <2>2, <3>1, Returned DEF SortEmit, TypeOK
    <3> QED
      BY <1>1, <2>2, <3>2 DEF SortEmit, TypeOK, source, marks
  <2>3. CASE SortDone
    BY <1>1, <2>3 DEF SortDone, TypeOK, source, marks
  <2> QED
    BY <1>11, <2>1, <2>2, <2>3 DEF SortingNext
<1>12. ASSUME NEW t \in Types, Call(Frame("members", t)),
              UNCHANGED <<prog, source, marks, table, phase, start, todo, collection, pending,
                          declared>>,
              order' \in Seq(Types), bodyWork' \in Seq(Types)
       PROVE  TypeOK'
  <2>1. Frame("members", t) \in Frames
    BY DEF Frame, FrameAt, Frames, Procedures
  <2>2. stack' \in Seq(Frames)
    BY <1>2, <1>12, <2>1, Called
  <2> QED
    BY <1>1, <1>12, <2>2 DEF TypeOK, source, marks
<1>13. ASSUME MemberNext PROVE TypeOK'
  <2>1. CASE NextMembers
    <3>1. /\ Head(order) \in Types
          /\ order' \in Seq(Types) /\ bodyWork' \in Seq(Types)
      BY <1>1, <2>1 DEF NextMembers, TypeOK
    <3> QED
      BY <1>12, <2>1, <3>1 DEF NextMembers
  <2>2. CASE MemberStep
    <3>1. EnclosingTypes(File(Top.on)) \in Seq(Types)
      BY <1>1, <1>2, EnclosingType
    <3>2. Top.on \in Types /\ Top.i \in Nat \ {0}
      BY <1>2, <2>2, TopFrame DEF MemberStep
    <3>3. Member \in Types
      <4>1. prog.member[Top.on] \in Seq(Types) /\ Top.i <= Len(prog.member[Top.on])
        BY <1>1, <2>2, <3>2, ProgramFacts DEF MemberStep
      <4>2. Top.i \in 1 .. Len(prog.member[Top.on])
        BY <3>2, <4>1
      <4> QED
        BY <4>1, <4>2 DEF Member
    <3>4. CASE Find(EnclosingTypes(File(Top.on)), Member)
      BY <1>3, <2>2, <3>1, <3>3, <3>4 DEF MemberStep
    <3>5. CASE Advance /\ UNCHANGED <<source, marks, table>>
      <4>1. stack' \in Seq(Frames)
        BY <1>2, <2>2, <3>5, Advanced DEF MemberStep
      <4> QED
        BY <1>1, <2>2, <3>5, <4>1 DEF MemberStep, TypeOK, source, marks, sorting
    <3> QED
      BY <2>2, <3>4, <3>5 DEF MemberStep
  <2>3. CASE MembersDeclared
    <3>1. stack' \in Seq(Frames) /\ Top.on \in Types
      BY <1>2, <2>3, TopFrame, Advanced DEF MembersDeclared
    <3> QED
      BY <1>1, <2>3, <3>1 DEF MembersDeclared, TypeOK, source, marks
  <2>4. CASE NestedMembers
    BY <1>1, <1>12, <2>4 DEF NestedMembers, Nested, TypeOK, sorting
  <2>5. CASE MembersReturn
    <3>1. stack' \in Seq(Frames)
      BY <1>2, <2>5, TopFrame, Returned DEF MembersReturn
    <3> QED
      BY <1>1, <2>5, <3>1 DEF MembersReturn, TypeOK, source, marks, sorting
  <2>6. CASE MembersDone
    <3>1. tuple' \in Seq(loaded) /\ phase' \in {"order", "done"}
      <4>1. CASE phase' = "order" /\ UNCHANGED tuple
        BY <1>1, <4>1 DEF TypeOK
      <4>2. CASE phase' = "done" /\ tuple' = <<>>
        <5>1. <<>> \in Seq(loaded)
          OBVIOUS
        <5> QED
          BY <4>2, <5>1
      <4> QED
        BY <2>6, <4>1, <4>2 DEF MembersDone
    <3> QED
      BY <1>1, <2>6, <3>1 DEF MembersDone, TypeOK, marks, sorting
  <2> QED
    BY <1>13, <2>1, <2>2, <2>3, <2>4, <2>5, <2>6 DEF MemberNext
<1>14. ASSUME Finished PROVE TypeOK'
  BY <1>1, <1>14 DEF Finished, vars, TypeOK, source, marks, sorting
<1> QED
  BY <1>5, <1>6, <1>7, <1>8, <1>9, <1>11, <1>13, <1>14 DEF Next, NamesNext

(***************************************************************************)
(* What a step does to headers: nothing, or it calls, steps or returns     *)
(* from another procedure, reads a file, or is one of the header's own.    *)
(***************************************************************************)
Kept == UNCHANGED <<prog, header, supers, closure, circular>>

Quiet      == Kept /\ UNCHANGED <<loaded, stack>>
\* Whose member types are computed: those of enclosing types, qualifiers and supertypes.
Asked(c)   == \/ \E f \in Files : c \in ToSet(EnclosingTypes(f))
              \/ \E u \in Types : c \in ToSet(Qualifiers(u)) \cup supers[u]
Pushes     == /\ Kept /\ UNCHANGED loaded
              /\ \E op \in {"closure", "sort", "members"}, c \in Types :
                    Grown(Frame(op, c)) /\ (op = "closure" => Asked(c))
Loads      == /\ Kept
              /\ \E f \in Files : loaded' = loaded \cup {f} /\ Grown(Frame("names", f))
EntersType(t) == /\ t \notin header /\ header' = header \cup {t}
                 /\ Grown(Frame("header", t))
                 /\ UNCHANGED <<prog, supers, closure, circular, loaded>>
\* Who enters a header, other than by a clause.
Enterer(t) == \/ stack = <<>>
              \/ Running("closure") /\ t = Top.on
              \/ Running("nested") /\ t \in Nested(Top.on)
Pops       == /\ Kept /\ UNCHANGED loaded
              /\ stack # <<>> /\ Top.op # "header" /\ Shrunk
              /\ Top.op = "nested" => Nested(Top.on) \subseteq header
Steps      == /\ Kept /\ UNCHANGED loaded
              /\ stack # <<>> /\ Top.op \notin {"header", "nested"}
              /\ Replaced(FrameAt(Top.op, Top.on, Top.i + 1, NoType))

LEMMA StepKinds ==
    ASSUME HeaderInv, Next
    PROVE  \/ Quiet \/ Pushes \/ Loads \/ Pops \/ Steps
           \/ (\E t \in Types : EntersType(t) /\ Enterer(t))
           \/ HeaderUnusable \/ HeaderResolve \/ HeaderRecord \/ HeaderDone
<1>1. /\ prog \in Programs /\ TypeOK /\ stack \in Seq(Frames)
  BY DEF HeaderInv, TypeOK
<1>2. \A op \in Procedures, c \in Types : Frame(op, c) \in Frames
  BY DEF Frame, FrameAt, Frames
<1>3. \A f \in Files : Frame("names", f) \in Frames
  BY DEF Frame, FrameAt, Frames
<1> USE DEF Kept, source, marks
<1>4. ASSUME NEW enclosing \in Seq(Types), NEW u \in Types, Find(enclosing, u), prog' = prog,
             \A c \in ToSet(enclosing) : Asked(c)
      PROVE  Pushes \/ Loads
  <2>1. ASSUME NEW f \in Files, Reads(f) PROVE Loads
    BY <1>1, <1>3, <1>4, <2>1, Called DEF Reads, LoadFile, Loads
  <2>2. ASSUME NEW c \in Types, Asks(c), c \in ToSet(enclosing) \cup ToSet(Qualifiers(u))
        PROVE  Pushes
    <3>1. Asked(c)
      BY <1>4, <2>2 DEF Asked
    <3> QED
      BY <1>1, <1>2, <1>4, <2>2, <3>1, Called DEF Asks, Pushes, Procedures
  <2> QED
    BY <1>1, <1>4, <2>1, <2>2, FindEffect
<1>5. ASSUME NEW t \in Types, CallHeader(t), UNCHANGED <<prog, loaded>>
      PROVE  EntersType(t)
  BY <1>1, <1>2, <1>5, Called DEF CallHeader, Enter, EntersType, Procedures
<1>6. ASSUME NEW op \in {"names", "closure", "sort", "members"}, Running(op), Return, Kept,
             UNCHANGED loaded
      PROVE  Pops
  BY <1>1, <1>6, TopFrame, Returned DEF Pops
<1>7. ASSUME NEW op \in {"names", "closure", "sort", "members"}, Running(op), Advance, Kept,
             UNCHANGED loaded
      PROVE  Steps
  BY <1>1, <1>7, TopFrame, Advanced DEF Steps
<1>8. ASSUME NEW op \in {"sort", "members"}, NEW t \in Types, Call(Frame(op, t)), Kept,
             UNCHANGED loaded
      PROVE  Pushes
  BY <1>1, <1>2, <1>8, Called DEF Pushes, Procedures
<1>9. CASE NamesNext
  <2>1. ASSUME ImportStep PROVE Pushes \/ Loads \/ Steps
    <3>1. Import \in Types /\ <<>> \in Seq(Types) /\ ToSet(<<>>) = {}
      BY <1>1, <2>1, TopFrame, ProgramFacts DEF ImportStep, Import, ToSet
    <3> QED
      BY <1>4, <1>7, <2>1, <3>1 DEF ImportStep
  <2> QED
    BY <1>6, <1>9, <2>1 DEF NamesNext, ImportsDone, NamesDone, Quiet
<1>10. CASE ClosureNext
  <2>1. ASSUME ClosureSupertype PROVE Pushes
    <3>1. PICK s \in Types : Call(Frame("closure", s)) /\ Asked(s)
      BY <1>1, <2>1, TopFrame DEF ClosureSupertype, TypeOK, Asked
    <3> QED
      BY <1>1, <1>2, <2>1, <3>1, Called DEF ClosureSupertype, Pushes, Procedures
  <2>2. ASSUME ClosureHeader PROVE \E t \in Types : EntersType(t) /\ Enterer(t)
    BY <1>1, <1>5, <2>2, TopFrame DEF ClosureHeader, Enterer
  <2> QED
    BY <1>6, <1>7, <1>10, <2>1, <2>2 DEF ClosureNext, ClosureSkip, ClosureTable, ClosureDone
<1>11. CASE HeaderNext
  <2>1. ASSUME HeaderFind PROVE Pushes \/ Loads
    <3>1. EnclosingTypes(File(Top.on)) \in Seq(Types)
      BY <1>1, EnclosingType
    <3>2. \A c \in ToSet(EnclosingTypes(File(Top.on))) : Asked(c)
      <4>1. File(Top.on) \in Files
        BY <1>1, <2>1, TopFrame, ProgramFacts DEF HeaderFind
      <4> QED
        BY <4>1 DEF Asked
    <3>3. Top.i \in 1 .. Len(prog.clause[Top.on]) /\ Top.on \in Types
      <4>1. Top.on \in Types /\ Top.i \in Nat /\ Top.i > 0
        BY <1>1, <2>1, TopFrame DEF HeaderFind
      <4>2. Len(prog.clause[Top.on]) \in Nat
        BY <1>1, <4>1, ProgramFacts
      <4> QED
        BY <2>1, <4>1, <4>2 DEF HeaderFind
    <3>4. Clause \in Types
      BY <1>1, <3>3, ProgramFacts DEF Clause
    <3> QED
      BY <1>4, <2>1, <3>1, <3>2, <3>4 DEF HeaderFind
  <2>2. ASSUME NestedHeader PROVE \E t \in Types : EntersType(t) /\ Enterer(t)
    BY <1>5, <2>2 DEF NestedHeader, Nested, Enterer
  <2>3. ASSUME NestedDone PROVE Pops
    BY <1>1, <2>3, TopFrame, Returned DEF NestedDone, Pops
  <2> QED
    BY <1>11, <2>1, <2>2, <2>3 DEF HeaderNext
<1>12. CASE BatchNext
  <2>1. ASSUME NextHeader PROVE Quiet \/ \E t \in Types : EntersType(t) /\ Enterer(t)
    BY <1>1, <1>5, <2>1 DEF NextHeader, TypeOK, Quiet, Enterer
  <2> QED
    BY <1>12, <2>1 DEF BatchNext, PartialOrder, HeadersDone, Quiet
<1>13. CASE SortingNext
  <2>1. ASSUME SortNext \/ SortSuper PROVE Pushes
    BY <1>1, <1>8, <2>1 DEF SortNext, SortSuper, SortCall, TypeOK
  <2> QED
    BY <1>6, <1>13, <2>1 DEF SortingNext, SortEmit, SortDone, Quiet
<1>14. CASE MemberNext
  <2>1. ASSUME NextMembers PROVE Pushes
    BY <1>1, <1>8, <2>1 DEF NextMembers, TypeOK
  <2>2. ASSUME MemberStep PROVE Pushes \/ Loads \/ Steps
    <3>1. EnclosingTypes(File(Top.on)) \in Seq(Types)
      BY <1>1, EnclosingType
    <3>2. \A c \in ToSet(EnclosingTypes(File(Top.on))) : Asked(c)
      <4>1. File(Top.on) \in Files
        BY <1>1, <2>2, TopFrame, ProgramFacts DEF MemberStep
      <4> QED
        BY <4>1 DEF Asked
    <3>3. Top.i \in 1 .. Len(prog.member[Top.on]) /\ prog.member[Top.on] \in Seq(Types)
      <4>1. Top.on \in Types /\ Top.i \in Nat /\ Top.i > 0
        BY <1>1, <2>2, TopFrame DEF MemberStep
      <4>2. prog.member[Top.on] \in Seq(Types) /\ Len(prog.member[Top.on]) \in Nat
        BY <1>1, <4>1, ProgramFacts
      <4> QED
        BY <2>2, <4>1, <4>2 DEF MemberStep
    <3>4. Member \in Types
      BY <3>3 DEF Member
    <3> QED
      BY <1>4, <1>7, <2>2, <3>1, <3>2, <3>4 DEF MemberStep
  <2>3. ASSUME NestedMembers PROVE Pushes
    BY <1>8, <2>3 DEF NestedMembers, Nested
  <2> QED
    BY <1>6, <1>7, <1>14, <2>1, <2>2, <2>3
       DEF MemberNext, MembersDeclared, MembersReturn, MembersDone, Quiet
<1>15. CASE Finished
  BY <1>15 DEF Finished, vars, Quiet
<1> QED
  BY <1>9, <1>10, <1>11, <1>12, <1>13, <1>14, <1>15 DEF Next

(***************************************************************************)
(* Any other procedure leaves the frames of headers as they are.           *)
(***************************************************************************)
Others ==
    /\ Kept /\ loaded \subseteq loaded'
    /\ \A k \in 1 .. Len(stack) :
          stack[k].op = "header" => k \in 1 .. Len(stack') /\ stack'[k] = stack[k]
    /\ \A k \in 1 .. Len(stack') :
          stack'[k].op \in {"header", "nested"} => k \in 1 .. Len(stack) /\ stack'[k] = stack[k]
    /\ \A k \in 1 .. Len(stack') : stack'[k].op = "names" => stack'[k].on \in loaded'
    /\ \A k \in 1 .. Len(stack) :
          stack[k].op = "nested" => \/ k \in 1 .. Len(stack') /\ stack'[k] = stack[k]
                                    \/ Nested(stack[k].on) \subseteq header

LEMMA OtherProcedures ==
    ASSUME HeaderInv, TypeOK', Quiet \/ Pushes \/ Loads \/ Pops \/ Steps
    PROVE  Others
<1>1. /\ stack \in Seq(Frames) /\ stack' \in Seq(Frames)
      /\ \A k \in 1 .. Len(stack) : stack[k].op = "names" => stack[k].on \in loaded
  BY DEF HeaderInv, TypeOK, FramesRefer
<1> DEFINE n == Len(stack)
           m == Len(stack')
<1>2. n \in Nat /\ m \in Nat
  BY <1>1
<1>3. n > 0 => Top = stack[n]
  BY <1>1 DEF Top, Last
<1>4. CASE Quiet
  BY <1>1, <1>4 DEF Quiet, Others
<1>5. ASSUME NEW frame, Grown(frame), Kept, loaded \subseteq loaded',
             frame.op \notin {"header", "nested"},
             frame.op = "names" => frame.on \in loaded'
      PROVE  Others
  <2>1. /\ m = n + 1 /\ stack'[n + 1] = frame
        /\ \A k \in 1 .. n : stack'[k] = stack[k]
    BY <1>5 DEF Grown
  <2> HIDE DEF n, m
  <2> QED
    BY <1>1, <1>2, <1>5, <2>1 DEF Others, n, m
<1>6. CASE Pushes
  <2>1. PICK op \in {"closure", "sort", "members"}, c \in Types : Grown(Frame(op, c))
    BY <1>6 DEF Pushes
  <2> QED
    BY <1>5, <1>6, <2>1 DEF Pushes, Frame, FrameAt
<1>7. CASE Loads
  <2>1. PICK f \in Files : loaded' = loaded \cup {f} /\ Grown(Frame("names", f))
    BY <1>7 DEF Loads
  <2> QED
    BY <1>5, <1>7, <2>1 DEF Loads, Frame, FrameAt
<1>8. CASE Pops
  <2>1. /\ m = n - 1 /\ n > 0
        /\ \A k \in 1 .. n - 1 : stack'[k] = stack[k]
    BY <1>1, <1>8 DEF Pops, Shrunk
  <2>2. /\ stack[n].op # "header"
        /\ stack[n].op = "nested" => Nested(stack[n].on) \subseteq header
    BY <1>3, <1>8, <2>1 DEF Pops
  <2>3. \A k \in 1 .. n : k \in 1 .. m \/ k = n
    BY <1>2, <2>1
  <2>4. \A k \in 1 .. m : k \in 1 .. n /\ k \in 1 .. n - 1
    BY <1>2, <2>1
  <2> HIDE DEF n, m
  <2> QED
    BY <1>1, <1>8, <2>1, <2>2, <2>3, <2>4 DEF Others, n, m, Pops
<1>9. CASE Steps
  <2>1. /\ m = n /\ n > 0
        /\ stack'[n] = FrameAt(Top.op, Top.on, Top.i + 1, NoType)
        /\ \A k \in 1 .. n - 1 : stack'[k] = stack[k]
    BY <1>1, <1>9 DEF Steps, Replaced
  <2>2. /\ stack'[n].op = stack[n].op /\ stack'[n].on = stack[n].on
        /\ stack[n].op \notin {"header", "nested"}
    BY <1>3, <1>9, <2>1 DEF Steps, FrameAt
  <2>3. \A k \in 1 .. n : k \in 1 .. n - 1 \/ k = n
    BY <1>2
  <2> HIDE DEF n, m
  <2> QED
    BY <1>1, <1>9, <2>1, <2>2, <2>3 DEF Others, n, m, Steps
<1> QED
  BY <1>4, <1>6, <1>7, <1>8, <1>9

\* The invariant but for the types of the variables.
HeaderParts == /\ FramesRefer /\ OneHeader /\ Hierarchy /\ CircularOnCycle
               /\ ClausesRecorded /\ NestedKnown

LEMMA OthersKeepHeaders ==
    ASSUME HeaderInv, TypeOK', Others
    PROVE  HeaderParts'
<1>1. HeaderInv /\ Kept /\ loaded \subseteq loaded'
  BY DEF Others
<1>2. /\ \A k \in 1 .. Len(stack) :
            stack[k].op = "header" => k \in 1 .. Len(stack') /\ stack'[k] = stack[k]
      /\ \A k \in 1 .. Len(stack') :
            stack'[k].op \in {"header", "nested"} =>
                k \in 1 .. Len(stack) /\ stack'[k] = stack[k]
  BY DEF Others
<1>3. FramesRefer'
  <2>1. FramesRefer /\ \A k \in 1 .. Len(stack') :
                           stack'[k].op = "names" => stack'[k].on \in loaded'
    BY <1>1 DEF HeaderInv, Others
  <2>2. /\ prog' = prog /\ header' = header
        /\ \A t : File(t)' = File(t)
    BY <1>1 DEF Kept, File
  <2> SUFFICES ASSUME NEW k \in 1 .. Len(stack'), stack'[k].op \in {"header", "nested"}
               PROVE  /\ stack'[k].on \in header
                      /\ stack'[k].op = "header" /\ stack'[k].got # NoType =>
                            /\ stack'[k].i <= Len(prog.clause[stack'[k].on])
                            /\ stack'[k].got = prog.clause[stack'[k].on][stack'[k].i]
                            /\ File(stack'[k].got) \in loaded'
    BY <2>1, <2>2 DEF FramesRefer
  <2> QED
    BY <1>1, <1>2, <2>1 DEF FramesRefer
<1>4. OneHeader'
  BY <1>1, <1>2 DEF HeaderInv, OneHeader
<1>5. \A t : InProgress(t)' <=> InProgress(t)
  <2>1. stack \in Seq(Frames) /\ stack' \in Seq(Frames)
    BY <1>1 DEF HeaderInv, TypeOK
  <2>2. DOMAIN stack = 1 .. Len(stack) /\ DOMAIN stack' = 1 .. Len(stack')
    BY <2>1
  <2> QED
    BY <1>2, <2>2 DEF InProgress
<1>6. Hierarchy' /\ CircularOnCycle'
  BY <1>1 DEF HeaderInv, Kept, Hierarchy, CircularOnCycle, Above, OnSourceCycle, Path, File
<1>7. ClausesRecorded'
  <2>1. \A t, n : Recorded(t, n)' <=> Recorded(t, n)
    BY <1>1 DEF Kept, Recorded, Spoilt, OnSourceCycle, Above, Path
  <2>2. /\ prog' = prog /\ header' = header
        /\ \A t : OnSourceCycle(t)' <=> OnSourceCycle(t)
    BY <1>1 DEF Kept, OnSourceCycle, Above
  <2>3. ClausesRecorded
    BY <1>1 DEF HeaderInv
  <2>4. ASSUME NEW k \in 1 .. Len(stack'), stack'[k].op = "header",
               ~ OnSourceCycle(stack'[k].on)
        PROVE  Recorded(stack'[k].on, stack'[k].i - 1)
    BY <1>2, <2>3, <2>4 DEF ClausesRecorded
  <2>5. ASSUME NEW t \in header, ~ InProgress(t)', ~ OnSourceCycle(t)
        PROVE  Recorded(t, Len(prog.clause[t]))
    BY <1>5, <2>3, <2>5 DEF ClausesRecorded
  <2> QED
    BY <2>1, <2>2, <2>4, <2>5 DEF ClausesRecorded
<1>8. NestedKnown'
  <2>1. NestedKnown /\ \A k \in 1 .. Len(stack) :
            stack[k].op = "nested" => \/ k \in 1 .. Len(stack') /\ stack'[k] = stack[k]
                                      \/ Nested(stack[k].on) \subseteq header
    BY <1>1 DEF HeaderInv, Others
  <2>2. header' = header /\ \A t : Nested(t)' = Nested(t)
    BY <1>1 DEF Kept, Nested
  <2> SUFFICES ASSUME NEW t \in header
               PROVE  \/ Nested(t) \subseteq header
                      \/ \E k \in 1 .. Len(stack') :
                            stack'[k].op \in {"header", "nested"} /\ stack'[k].on = t
    BY <2>2 DEF NestedKnown
  <2>3. CASE Nested(t) \subseteq header
    BY <2>3
  <2>4. CASE \E k \in 1 .. Len(stack) : stack[k].op \in {"header", "nested"} /\ stack[k].on = t
    BY <1>2, <2>1, <2>4
  <2> QED
    BY <2>1, <2>3, <2>4 DEF NestedKnown
<1> QED
  BY <1>3, <1>4, <1>6, <1>7, <1>8 DEF HeaderParts

(***************************************************************************)
(* A header is entered, maybe by a clause that has just been resolved.     *)
(***************************************************************************)
SameCall(k) ==
    /\ stack'[k].op = stack[k].op /\ stack'[k].on = stack[k].on /\ stack'[k].i = stack[k].i
    /\ stack'[k].got # stack[k].got =>
          /\ stack[k].op = "header" /\ stack[k].i <= Len(prog.clause[stack[k].on])
          /\ stack'[k].got = prog.clause[stack[k].on][stack[k].i]
          /\ File(stack'[k].got) \in loaded

Begins(t) == /\ t \notin header /\ header' = header \cup {t}
             /\ Len(stack') = Len(stack) + 1
             /\ stack'[Len(stack) + 1] = Frame("header", t)

LEMMA EntryKeepsHeaders ==
    ASSUME HeaderInv, TypeOK', UNCHANGED <<prog, supers, closure, circular, loaded>>,
           \A k \in 1 .. Len(stack) : SameCall(k),
           \/ UNCHANGED header /\ Len(stack') = Len(stack)
           \/ \E t \in Types : Begins(t)
    PROVE  HeaderParts'
<1>1. HeaderInv /\ UNCHANGED <<prog, supers, closure, circular, loaded>>
  OBVIOUS
<1>2. stack \in Seq(Frames) /\ stack' \in Seq(Frames)
  BY <1>1 DEF HeaderInv, TypeOK
<1> DEFINE n == Len(stack)
           m == Len(stack')
<1>3. n \in Nat /\ m \in Nat /\ DOMAIN stack = 1 .. n /\ DOMAIN stack' = 1 .. m
  BY <1>2
<1>4. \A k \in 1 .. n : k \in 1 .. m /\ SameCall(k)
  <2>1. m = n \/ m = n + 1
    BY DEF Begins
  <2>2. \A k \in 1 .. n : SameCall(k)
    OBVIOUS
  <2> HIDE DEF n, m
  <2> QED
    BY <1>3, <2>1, <2>2
<1>5. ASSUME NEW k \in 1 .. m, k \notin 1 .. n
      PROVE  /\ stack'[k].op = "header" /\ stack'[k].on \in Types /\ stack'[k].on \notin header
             /\ stack'[k].i = 1 /\ stack'[k].got = NoType
             /\ header' = header \cup {stack'[k].on} /\ k = n + 1
  <2>1. PICK t \in Types : Begins(t)
    BY <1>5
  <2>2. k = n + 1
    <3>1. m = n + 1
      BY <2>1 DEF Begins
    <3> HIDE DEF n, m
    <3> QED
      BY <1>3, <1>5, <3>1
  <2> QED
    BY <2>1, <2>2 DEF Begins, Frame, FrameAt
<1>6. header \subseteq header'
  BY DEF Begins
<1>7. \A t \in header' \ header : \E k \in 1 .. m : k \notin 1 .. n /\ stack'[k].on = t
                                                     /\ stack'[k].op = "header"
  <2> SUFFICES ASSUME NEW u \in header' \ header
               PROVE  \E k \in 1 .. m : k \notin 1 .. n /\ stack'[k].on = u
                                          /\ stack'[k].op = "header"
    OBVIOUS
  <2>1. PICK t \in Types : Begins(t)
    OBVIOUS
  <2>2. u = t /\ m = n + 1 /\ stack'[n + 1] = Frame("header", t)
    BY <2>1 DEF Begins
  <2> HIDE DEF n, m
  <2>3. n + 1 \in 1 .. m /\ n + 1 \notin 1 .. n
    BY <1>3, <2>2
  <2> QED
    BY <2>2, <2>3 DEF Frame, FrameAt
<1> HIDE DEF n, m
<1>8. FramesRefer'
  <2>1. FramesRefer
    BY <1>1 DEF HeaderInv
  <2>2. \A t : File(t)' = File(t)
    BY <1>1 DEF File
  <2> SUFFICES ASSUME NEW k \in 1 .. m
               PROVE  /\ stack'[k].op = "names" => stack'[k].on \in loaded
                      /\ stack'[k].op \in {"header", "nested"} => stack'[k].on \in header'
                      /\ stack'[k].op = "header" /\ stack'[k].got # NoType =>
                            /\ stack'[k].i <= Len(prog.clause[stack'[k].on])
                            /\ stack'[k].got = prog.clause[stack'[k].on][stack'[k].i]
                            /\ File(stack'[k].got) \in loaded
    BY <1>1, <2>2 DEF FramesRefer, m
  <2>3. CASE k \in 1 .. n
    <3>1. SameCall(k)
      BY <1>4, <2>3
    <3>2. /\ stack[k].op = "names" => stack[k].on \in loaded
          /\ stack[k].op \in {"header", "nested"} => stack[k].on \in header
          /\ stack[k].op = "header" /\ stack[k].got # NoType =>
                /\ stack[k].i <= Len(prog.clause[stack[k].on])
                /\ stack[k].got = prog.clause[stack[k].on][stack[k].i]
                /\ File(stack[k].got) \in loaded
      BY <2>1, <2>3 DEF FramesRefer, n
    <3>3. CASE stack'[k].got = stack[k].got
      BY <1>6, <3>1, <3>2, <3>3 DEF SameCall
    <3>4. CASE stack'[k].got # stack[k].got
      BY <1>6, <3>1, <3>2, <3>4 DEF SameCall
    <3> QED
      BY <3>3, <3>4
  <2>4. CASE k \notin 1 .. n
    BY <1>5, <2>4
  <2> QED
    BY <2>3, <2>4
<1>9. OneHeader'
  <2> SUFFICES ASSUME NEW j \in 1 .. m, NEW k \in 1 .. m, stack'[j].op = "header",
                      stack'[k].op = "header", stack'[j].on = stack'[k].on
               PROVE  j = k
    BY DEF OneHeader, m
  <2>1. ASSUME NEW i \in 1 .. n, stack'[i].op = "header"
        PROVE  stack'[i].on = stack[i].on /\ stack[i].op = "header" /\ stack[i].on \in header
    BY <1>1, <1>4, <2>1 DEF SameCall, HeaderInv, FramesRefer, n
  <2>2. CASE j \in 1 .. n /\ k \in 1 .. n
    BY <1>1, <2>1, <2>2 DEF HeaderInv, OneHeader, n
  <2>3. CASE j \notin 1 .. n /\ k \in 1 .. n
    BY <1>5, <2>1, <2>3
  <2>4. CASE j \in 1 .. n /\ k \notin 1 .. n
    BY <1>5, <2>1, <2>4
  <2>5. CASE j \notin 1 .. n /\ k \notin 1 .. n
    BY <1>5, <2>5
  <2> QED
    BY <2>2, <2>3, <2>4, <2>5
<1>10. \A t : InProgress(t) => InProgress(t)'
  BY <1>3, <1>4 DEF InProgress, SameCall
<1>11. Hierarchy' /\ CircularOnCycle'
  BY <1>1 DEF HeaderInv, Hierarchy, CircularOnCycle, Above, OnSourceCycle, Path, File
<1>12. ClausesRecorded'
  <2>1. \A t, i : Recorded(t, i)' <=> Recorded(t, i)
    BY <1>1 DEF Recorded, Spoilt, OnSourceCycle, Above, Path
  <2>2. prog' = prog /\ \A t : OnSourceCycle(t)' <=> OnSourceCycle(t)
    BY <1>1 DEF OnSourceCycle, Above
  <2>3. ClausesRecorded
    BY <1>1 DEF HeaderInv
  <2>4. ASSUME NEW k \in 1 .. m, stack'[k].op = "header", ~ OnSourceCycle(stack'[k].on)
        PROVE  Recorded(stack'[k].on, stack'[k].i - 1)
    <3>1. CASE k \in 1 .. n
      BY <1>4, <2>3, <2>4, <3>1 DEF ClausesRecorded, SameCall, n
    <3>2. CASE k \notin 1 .. n
      <4>1. stack'[k].i - 1 = 0
        BY <1>5, <3>2
      <4>2. \A t : Recorded(t, 0)
        BY DEF Recorded
      <4> QED
        BY <4>1, <4>2
    <3> QED
      BY <3>1, <3>2
  <2>5. ASSUME NEW t \in header', ~ InProgress(t)', ~ OnSourceCycle(t)
        PROVE  Recorded(t, Len(prog.clause[t]))
    <3>1. t \in header
      BY <1>3, <1>7, <2>5 DEF InProgress
    <3> QED
      BY <1>10, <2>3, <2>5, <3>1 DEF ClausesRecorded
  <2> QED
    BY <2>1, <2>2, <2>4, <2>5 DEF ClausesRecorded, m
<1>13. NestedKnown'
  <2>1. NestedKnown /\ \A t : Nested(t)' = Nested(t)
    BY <1>1 DEF HeaderInv, Nested
  <2> SUFFICES ASSUME NEW t \in header'
               PROVE  \/ Nested(t) \subseteq header'
                      \/ \E k \in 1 .. m :
                            stack'[k].op \in {"header", "nested"} /\ stack'[k].on = t
    BY <2>1 DEF NestedKnown, m
  <2>2. CASE t \in header
    BY <1>4, <1>6, <2>1, <2>2 DEF NestedKnown, SameCall, n
  <2> QED
    BY <1>7, <2>2
<1> QED
  BY <1>8, <1>9, <1>11, <1>12, <1>13 DEF HeaderParts

(***************************************************************************)
(* The header of the innermost frame goes on to its next clause.           *)
(***************************************************************************)
LEMMA CurrentHeader ==
    ASSUME HeaderInv, Running("header")
    PROVE  /\ stack \in Seq(Frames) /\ Len(stack) \in Nat /\ Len(stack) \in 1 .. Len(stack)
           /\ Top = stack[Len(stack)] /\ Top.op = "header"
           /\ Top.on \in header /\ Top.on \in Types /\ Top.i \in Nat \ {0}
           /\ Len(prog.clause[Top.on]) \in Nat
           /\ Top.got # NoType =>
                 /\ Top.i <= Len(prog.clause[Top.on]) /\ Top.got = Clause
                 /\ File(Top.got) \in loaded
           /\ Top.i <= Len(prog.clause[Top.on]) =>
                 /\ Clause \in Types /\ Clause \in ToSet(prog.clause[Top.on])
                 /\ ToSet(Path(Clause)) \subseteq Above(Top.on)
                 /\ Clause \in ToSet(Path(Clause))
           /\ ~ OnSourceCycle(Top.on) => Recorded(Top.on, Top.i - 1)
<1>1. prog \in Programs /\ stack \in Seq(Frames) /\ FramesRefer /\ ClausesRecorded
  BY DEF HeaderInv, TypeOK
<1>2. /\ stack # <<>> /\ Len(stack) \in Nat /\ Len(stack) > 0
      /\ Top = stack[Len(stack)] /\ Top.op = "header" /\ Top.i \in Nat \ {0} /\ Top.on \in Types
  BY <1>1, TopFrame
<1>3. Len(stack) \in 1 .. Len(stack)
  <2> DEFINE n == Len(stack)
  <2>1. n \in Nat /\ n > 0
    BY <1>2
  <2> HIDE DEF n
  <2>2. n \in 1 .. n
    BY <2>1
  <2> QED
    BY <2>2 DEF n
<1>4. /\ Top.on \in header
      /\ Top.got # NoType =>
            /\ Top.i <= Len(prog.clause[Top.on]) /\ Top.got = Clause
            /\ File(Top.got) \in loaded
      /\ ~ OnSourceCycle(Top.on) => Recorded(Top.on, Top.i - 1)
  <2> DEFINE n == Len(stack)
  <2>1. n \in 1 .. Len(stack) /\ Top = stack[n] /\ Top.op = "header"
    BY <1>2, <1>3
  <2> HIDE DEF n
  <2>2. Top.on \in header
    BY <1>1, <2>1 DEF FramesRefer
  <2>3. Top.got # NoType =>
            /\ Top.i <= Len(prog.clause[Top.on]) /\ Top.got = Clause
            /\ File(Top.got) \in loaded
    BY <1>1, <2>1 DEF FramesRefer, Clause
  <2>4. ~ OnSourceCycle(Top.on) => Recorded(Top.on, Top.i - 1)
    BY <1>1, <2>1 DEF ClausesRecorded
  <2> QED
    BY <2>2, <2>3, <2>4
<1>5. prog.clause[Top.on] \in Seq(Types) /\ Len(prog.clause[Top.on]) \in Nat
  <2>1. prog.clause \in [Types -> Seq(Types)]
    BY <1>1, ProgramFacts
  <2> QED
    BY <1>2, <2>1
<1>6. ASSUME Top.i <= Len(prog.clause[Top.on])
      PROVE  /\ Clause \in Types /\ Clause \in ToSet(prog.clause[Top.on])
             /\ ToSet(Path(Clause)) \subseteq Above(Top.on)
             /\ Clause \in ToSet(Path(Clause))
  <2>1. Top.i \in 1 .. Len(prog.clause[Top.on])
    BY <1>2, <1>5, <1>6
  <2>2. Clause \in Types /\ ToSet(Path(Clause)) \subseteq Above(Top.on)
    BY <1>1, <1>2, <2>1, ProgramFacts DEF Clause
  <2>3. Clause \in ToSet(prog.clause[Top.on])
    BY <1>5, <2>1 DEF ToSet, Clause
  <2> QED
    BY <1>1, <2>2, <2>3, ProgramFacts
<1> QED
  BY <1>1, <1>2, <1>3, <1>4, <1>5, <1>6

LEMMA ClauseKeepsHeaders ==
    ASSUME HeaderInv, TypeOK', Running("header"), Advance,
           UNCHANGED <<prog, header, circular, loaded>>, Hierarchy',
           \A t \in Types : supers[t] \subseteq supers'[t],
           Top.i <= Len(prog.clause[Top.on]),
           Spoilt(Clause) \/ Clause \in supers'[Top.on]
    PROVE  HeaderParts'
<1>1. HeaderInv /\ UNCHANGED <<prog, header, circular, loaded>> /\ Hierarchy'
  OBVIOUS
<1> DEFINE n == Len(stack)
           next == FrameAt("header", Top.on, Top.i + 1, NoType)
           Now(t, m) == \A i \in 1 .. Len(prog.clause[t]) :
                            i <= m /\ ~ Spoilt(prog.clause[t][i]) =>
                                prog.clause[t][i] \in supers'[t]
<1>2. /\ n \in 1 .. n /\ n \in Nat /\ Top = stack[n] /\ Top.op = "header"
      /\ Top.on \in header /\ Top.on \in Types
      /\ Top.i \in Nat \ {0} /\ Len(prog.clause[Top.on]) \in Nat
      /\ ~ OnSourceCycle(Top.on) => Recorded(Top.on, Top.i - 1)
  BY CurrentHeader
<1>3. /\ DOMAIN stack = 1 .. n /\ DOMAIN stack' = 1 .. n /\ Len(stack') = n
      /\ stack'[n] = next /\ \A k \in 1 .. n - 1 : stack'[k] = stack[k]
  BY <1>1, CurrentHeader, Advanced DEF Replaced, HeaderInv, TypeOK
<1>4. \A k \in 1 .. n : k = n \/ k \in 1 .. n - 1
  <2> HIDE DEF n
  <2> QED
    BY <1>2
<1>5. \A k \in 1 .. n : stack'[k] = stack[k] \/ k = n
  BY <1>3, <1>4
<1>6. stack'[n].op = "header" /\ stack'[n].on = Top.on /\ stack'[n].i = Top.i + 1
      /\ stack'[n].got = NoType
  BY <1>3 DEF FrameAt
<1> HIDE DEF n, next
<1>7. \A k \in 1 .. n : stack'[k].op = stack[k].op /\ stack'[k].on = stack[k].on
  BY <1>2, <1>5, <1>6
<1>8. \A t : File(t)' = File(t) /\ Path(t)' = Path(t) /\ Nested(t)' = Nested(t)
             /\ (OnSourceCycle(t)' <=> OnSourceCycle(t)) /\ (InProgress(t)' <=> InProgress(t))
  BY <1>1, <1>3, <1>7 DEF File, Path, Nested, OnSourceCycle, Above, InProgress
<1>9. FramesRefer'
  BY <1>1, <1>3, <1>5, <1>6, <1>7, <1>8 DEF HeaderInv, FramesRefer, n
<1>10. OneHeader' /\ NestedKnown' /\ CircularOnCycle'
  <2>1. OneHeader'
    BY <1>1, <1>3, <1>7 DEF HeaderInv, OneHeader, n
  <2>2. NestedKnown'
    BY <1>1, <1>3, <1>7, <1>8 DEF HeaderInv, NestedKnown, n
  <2>3. CircularOnCycle'
    BY <1>1, <1>8 DEF HeaderInv, CircularOnCycle
  <2> QED
    BY <2>1, <2>2, <2>3
<1>11. \A t \in Types : \A m : Recorded(t, m) => Now(t, m)
  BY DEF Recorded
<1>12. ASSUME ~ OnSourceCycle(Top.on)
       PROVE  Now(Top.on, Top.i)
  <2>1. Recorded(Top.on, Top.i - 1)
    BY <1>2, <1>12
  <2> SUFFICES ASSUME NEW i \in 1 .. Len(prog.clause[Top.on]), i <= Top.i,
                      ~ Spoilt(prog.clause[Top.on][i])
               PROVE  prog.clause[Top.on][i] \in supers'[Top.on]
    OBVIOUS
  <2>2. CASE i = Top.i
    BY <2>2 DEF Clause
  <2>3. CASE i # Top.i
    <3>1. i <= Top.i - 1
      BY <1>2, <2>3
    <3> QED
      BY <1>2, <2>1, <3>1 DEF Recorded
  <2> QED
    BY <2>2, <2>3
<1>13. ClausesRecorded'
  <2>1. ClausesRecorded
    BY <1>1 DEF HeaderInv
  <2>2. ASSUME NEW k \in 1 .. n, stack'[k].op = "header", ~ OnSourceCycle(stack'[k].on)
        PROVE  Now(stack'[k].on, stack'[k].i - 1)
    <3>1. CASE k = n
      <4>1. stack'[k].on = Top.on /\ stack'[k].i - 1 = Top.i
        BY <1>2, <1>6, <3>1
      <4>2. Now(Top.on, Top.i)
        BY <1>12, <2>2, <4>1
      <4> QED
        BY <4>1, <4>2
    <3>2. CASE k # n
      <4>1. stack'[k] = stack[k] /\ stack[k].on \in Types
        BY <1>1, <1>5, <2>2, <3>2 DEF HeaderInv, TypeOK, FramesRefer, n
      <4>2. Recorded(stack[k].on, stack[k].i - 1)
        BY <2>1, <2>2, <4>1 DEF ClausesRecorded, n
      <4> QED
        BY <1>11, <4>1, <4>2
    <3> QED
      BY <3>1, <3>2
  <2>3. ASSUME NEW t \in header, ~ InProgress(t), ~ OnSourceCycle(t)
        PROVE  Now(t, Len(prog.clause[t]))
    <3>1. Recorded(t, Len(prog.clause[t])) /\ t \in Types
      BY <1>1, <2>1, <2>3 DEF ClausesRecorded, HeaderInv, TypeOK
    <3> QED
      BY <1>11, <3>1
  <2>4. \A t, m : Recorded(t, m)' <=> Now(t, m)
    BY <1>1, <1>8 DEF Recorded, Spoilt
  <2> HIDE DEF Now
  <2> QED
    BY <1>1, <1>3, <1>8, <2>2, <2>3, <2>4 DEF ClausesRecorded
<1> QED
  BY <1>1, <1>9, <1>10, <1>13 DEF HeaderParts

\* A clause that names a circular type, or a member of one, is passed over.
LEMMA UnusableKeepsHeaders ==
    ASSUME HeaderInv, TypeOK', HeaderUnusable
    PROVE  HeaderParts'
<1>1. /\ HeaderInv /\ Running("header") /\ Advance /\ Unusable(Clause)
      /\ UNCHANGED <<prog, header, circular, loaded, supers, closure>>
      /\ Top.i <= Len(prog.clause[Top.on])
  BY DEF HeaderUnusable, source, marks
<1>2. Spoilt(Clause)
  <2>1. Clause \in Types
    BY <1>1, CurrentHeader
  <2>2. PICK k \in DOMAIN Path(Clause) : Path(Clause)[k] \in circular
    BY <1>1 DEF Unusable
  <2>3. Path(Clause)[k] \in ToSet(Path(Clause))
    BY <2>2 DEF ToSet
  <2>4. CircularOnCycle
    BY <1>1 DEF HeaderInv
  <2> QED
    BY <2>2, <2>3, <2>4 DEF Spoilt, CircularOnCycle
<1>3. Hierarchy'
  BY <1>1 DEF HeaderInv, Hierarchy, Above, Path, File
<1> QED
  BY <1>1, <1>2, <1>3, ClauseKeepsHeaders

\* A clause is recorded with all that is above the type it names.
LEMMA RecordKeepsHeaders ==
    ASSUME HeaderInv, TypeOK', HeaderRecord
    PROVE  HeaderParts'
<1>1. /\ HeaderInv /\ Running("header") /\ Advance /\ Top.got # NoType
      /\ UNCHANGED <<prog, header, circular, loaded>>
      /\ IF Top.got \in prog.class \cap circular
         THEN UNCHANGED <<supers, closure>>
         ELSE /\ supers' = [supers EXCEPT ![Top.on] = @ \cup {Top.got}]
              /\ closure' = [closure EXCEPT ![Top.on] =
                     @ \cup UNION {{s} \cup closure[s] : s \in ToSet(Path(Top.got))}]
  BY DEF HeaderRecord, source
<1>2. /\ Top.on \in Types /\ Top.i <= Len(prog.clause[Top.on]) /\ Top.got = Clause
      /\ Clause \in Types /\ Clause \in ToSet(prog.clause[Top.on]) /\ File(Clause) \in loaded
      /\ ToSet(Path(Clause)) \subseteq Above(Top.on) /\ Clause \in ToSet(Path(Clause))
  BY <1>1, CurrentHeader
<1>3. /\ prog \in Programs /\ Hierarchy /\ CircularOnCycle
      /\ supers \in [Types -> SUBSET Types] /\ closure \in [Types -> SUBSET Types]
  BY <1>1 DEF HeaderInv, TypeOK
<1>4. CASE Top.got \in prog.class \cap circular
  <2>1. Spoilt(Clause)
    BY <1>2, <1>3, <1>4 DEF Spoilt, CircularOnCycle
  <2>2. Hierarchy'
    BY <1>1, <1>3, <1>4 DEF Hierarchy, Above, Path, File
  <2> QED
    BY <1>1, <1>2, <1>4, <2>1, <2>2, ClauseKeepsHeaders
<1>5. CASE Top.got \notin prog.class \cap circular
  <2> DEFINE on  == Top.on
             all == UNION {{s} \cup closure[s] : s \in ToSet(Path(Clause))}
  <2>1. /\ \A t \in Types : t # on => supers'[t] = supers[t] /\ closure'[t] = closure[t]
        /\ supers'[on] = supers[on] \cup {Clause}
        /\ closure'[on] = closure[on] \cup all
    BY <1>1, <1>2, <1>3, <1>5
  <2>2. on \in Types /\ all \subseteq Above(on)
    <3>1. \A u \in Above(on) : u \in Types /\ Above(u) \subseteq Above(on)
      BY <1>2, <1>3, ProgramFacts
    <3>2. \A u \in Types : closure[u] \subseteq Above(u)
      BY <1>3 DEF Hierarchy
    <3> QED
      BY <1>2, <3>1, <3>2
  <2>3. ToSet(Path(Clause)) \subseteq all
    OBVIOUS
  <2> HIDE DEF on, all
  <2>4. \A t : File(t)' = File(t) /\ Path(t)' = Path(t) /\ Above(t)' = Above(t)
    BY <1>1 DEF File, Path, Above
  <2>5. Hierarchy'
    <3> SUFFICES ASSUME NEW t \in Types
                 PROVE  /\ closure'[t] \subseteq Above(t)
                        /\ supers'[t] \subseteq ToSet(prog.clause[t])
                        /\ \A s \in supers'[t] :
                              ToSet(Path(s)) \subseteq closure'[t] /\ File(s) \in loaded
      BY <1>1, <2>4 DEF Hierarchy
    <3>1. CASE t # on
      BY <1>3, <2>1, <3>1 DEF Hierarchy
    <3>2. CASE t = on
      <4>1. /\ closure[on] \subseteq Above(on) /\ supers[on] \subseteq ToSet(prog.clause[on])
            /\ \A s \in supers[on] : ToSet(Path(s)) \subseteq closure[on] /\ File(s) \in loaded
        BY <1>3, <2>2 DEF Hierarchy
      <4>2. Clause \in ToSet(prog.clause[on]) /\ File(Clause) \in loaded
        BY <1>2 DEF on
      <4> QED
        BY <2>1, <2>2, <2>3, <3>2, <4>1, <4>2
    <3> QED
      BY <3>1, <3>2
  <2>6. Clause \in supers'[Top.on] /\ \A t \in Types : supers[t] \subseteq supers'[t]
    BY <2>1, <2>2 DEF on
  <2> QED
    BY <1>1, <1>2, <2>5, <2>6, ClauseKeepsHeaders
<1> QED
  BY <1>4, <1>5

\* A clause is resolved, and the header of the type it names is entered first.
LEMMA Resolved ==
    ASSUME HeaderInv, HeaderResolve
    PROVE  /\ UNCHANGED <<prog, supers, closure, circular, loaded>>
           /\ \A k \in 1 .. Len(stack) : SameCall(k)
           /\ \/ UNCHANGED header /\ Len(stack') = Len(stack)
              \/ \E t \in Types : Begins(t)
<1> DEFINE n        == Len(stack)
           resolved == FrameAt("header", Top.on, Top.i, Clause)
<1>1. /\ HeaderInv /\ Running("header") /\ Top.i <= Len(prog.clause[Top.on])
      /\ File(Clause) \in loaded
      /\ UNCHANGED <<prog, source, supers, closure, circular>>
      /\ IF Clause \in header
         THEN Continue(resolved) /\ UNCHANGED header
         ELSE /\ header' = header \cup {Clause}
              /\ stack' = Append([stack EXCEPT ![n] = resolved], Frame("header", Clause))
  BY DEF HeaderResolve, Found, Enter, marks
<1>2. /\ stack \in Seq(Frames) /\ n \in Nat /\ n \in 1 .. n /\ Top = stack[n]
      /\ Top.op = "header" /\ Clause \in Types
  BY <1>1, CurrentHeader
<1>3. UNCHANGED <<prog, supers, closure, circular, loaded>>
  BY <1>1 DEF source
<1> DEFINE mid == [stack EXCEPT ![n] = resolved]
<1>4. /\ mid \in Seq(Frames \cup {resolved}) /\ Len(mid) = n /\ mid[n] = resolved
      /\ \A k \in 1 .. n : k # n => mid[k] = stack[k]
  <2> HIDE DEF resolved
  <2> QED
    BY <1>2
<1>5. \A k \in 1 .. n : stack'[k] = mid[k]
  <2>1. CASE Clause \in header
    BY <1>1, <2>1 DEF Continue
  <2>2. CASE Clause \notin header
    <3>1. stack' = Append(mid, Frame("header", Clause))
      BY <1>1, <2>2
    <3> HIDE DEF mid
    <3> QED
      BY <1>4, <3>1
  <2> QED
    BY <2>1, <2>2
<1>6. \A k \in 1 .. n : SameCall(k)
  <2> SUFFICES ASSUME NEW k \in 1 .. n PROVE SameCall(k)
    OBVIOUS
  <2>1. CASE k = n
    <3>1. /\ stack'[k].op = "header" /\ stack'[k].on = Top.on /\ stack'[k].i = Top.i
          /\ stack'[k].got = Clause
      <4>1. stack'[k] = resolved
        BY <1>4, <1>5, <2>1
      <4> HIDE DEF n, mid
      <4> QED
        BY <4>1 DEF FrameAt
    <3> HIDE DEF n, mid, resolved
    <3> QED
      BY <1>1, <1>2, <2>1, <3>1 DEF SameCall, Clause
  <2>2. CASE k # n
    BY <1>4, <1>5, <2>2 DEF SameCall
  <2> QED
    BY <2>1, <2>2
<1>7. \/ UNCHANGED header /\ Len(stack') = n
      \/ \E t \in Types : Begins(t)
  <2>1. CASE Clause \in header
    BY <1>1, <1>4, <2>1 DEF Continue
  <2>2. CASE Clause \notin header
    <3>1. stack' = Append(mid, Frame("header", Clause)) /\ header' = header \cup {Clause}
      BY <1>1, <2>2
    <3>2. Len(stack') = n + 1 /\ stack'[n + 1] = Frame("header", Clause)
      <4> HIDE DEF mid
      <4> QED
        BY <1>4, <3>1
    <3> QED
      BY <1>2, <2>2, <3>1, <3>2 DEF Begins
  <2> QED
    BY <2>1, <2>2
<1> QED
  BY <1>3, <1>6, <1>7

LEMMA ResolveKeepsHeaders ==
    ASSUME HeaderInv, TypeOK', HeaderResolve
    PROVE  HeaderParts'
BY Resolved, EntryKeepsHeaders

\* A header ends: a type above itself loses its clauses, every other has them.
LEMMA DoneKeepsHeaders ==
    ASSUME HeaderInv, TypeOK', HeaderDone
    PROVE  HeaderParts'
<1> DEFINE n    == Len(stack)
           on   == Top.on
           next == FrameAt("nested", on, 1, NoType)
<1>1. /\ HeaderInv /\ Running("header") /\ Top.i > Len(prog.clause[on])
      /\ UNCHANGED <<prog, header, loaded, closure>> /\ Continue(next)
      /\ IF on \in closure[on]
         THEN supers' = [supers EXCEPT ![on] = {}] /\ circular' = circular \cup {on}
         ELSE UNCHANGED <<supers, circular>>
  BY DEF HeaderDone, source, Become, Frame
<1>2. /\ stack \in Seq(Frames) /\ n \in Nat /\ n \in 1 .. n /\ Top = stack[n]
      /\ Top.op = "header" /\ on \in header /\ on \in Types /\ Top.i \in Nat
      /\ Len(prog.clause[on]) \in Nat
      /\ ~ OnSourceCycle(on) => Recorded(on, Top.i - 1)
  BY <1>1, CurrentHeader
<1>3. /\ DOMAIN stack = 1 .. n /\ Len(stack') = n /\ DOMAIN stack' = 1 .. n
      /\ stack'[n] = next /\ \A k \in 1 .. n : k # n => stack'[k] = stack[k]
  <2> HIDE DEF next
  <2> QED
    BY <1>1, <1>2 DEF Continue
<1>4. stack'[n].op = "nested" /\ stack'[n].on = on
  <2> HIDE DEF n
  <2> QED
    BY <1>3 DEF FrameAt
<1>5. /\ Hierarchy /\ CircularOnCycle /\ ClausesRecorded /\ FramesRefer /\ OneHeader
      /\ NestedKnown /\ supers \in [Types -> SUBSET Types]
  BY <1>1 DEF HeaderInv, TypeOK
<1>6. on \in closure[on] => OnSourceCycle(on)
  BY <1>2, <1>5 DEF Hierarchy, OnSourceCycle
<1>7. /\ \A t \in Types : t # on \/ ~ OnSourceCycle(t) => supers'[t] = supers[t]
      /\ \A t \in Types : supers'[t] \subseteq supers[t]
      /\ \A t \in circular' : t \in circular \/ (t = on /\ OnSourceCycle(t))
  BY <1>1, <1>2, <1>5, <1>6
<1> HIDE DEF n, on, next
<1>8. \A t : /\ File(t)' = File(t) /\ Path(t)' = Path(t) /\ Nested(t)' = Nested(t)
             /\ Above(t)' = Above(t) /\ (OnSourceCycle(t)' <=> OnSourceCycle(t))
  BY <1>1 DEF File, Path, Nested, OnSourceCycle, Above
<1>9. \A t : InProgress(t) => InProgress(t)' \/ t = on
  BY <1>2, <1>3 DEF InProgress, on
<1>10. Hierarchy' /\ CircularOnCycle'
  BY <1>1, <1>5, <1>7, <1>8 DEF Hierarchy, CircularOnCycle
<1>11. FramesRefer'
  <2> SUFFICES ASSUME NEW k \in 1 .. n
               PROVE  /\ stack'[k].op = "names" => stack'[k].on \in loaded
                      /\ stack'[k].op \in {"header", "nested"} => stack'[k].on \in header
                      /\ stack'[k].op = "header" /\ stack'[k].got # NoType =>
                            /\ stack'[k].i <= Len(prog.clause[stack'[k].on])
                            /\ stack'[k].got = prog.clause[stack'[k].on][stack'[k].i]
                            /\ File(stack'[k].got) \in loaded
    BY <1>1, <1>3, <1>8 DEF FramesRefer
  <2>1. CASE k = n
    BY <1>2, <1>4, <2>1
  <2>2. CASE k # n
    BY <1>3, <1>5, <2>2 DEF FramesRefer, n
  <2> QED
    BY <2>1, <2>2
<1>12. OneHeader'
  BY <1>3, <1>4, <1>5 DEF OneHeader, n
<1>13. NestedKnown'
  <2> SUFFICES ASSUME NEW t \in header, ~ (Nested(t) \subseteq header)
               PROVE  \E k \in 1 .. n :
                         stack'[k].op \in {"header", "nested"} /\ stack'[k].on = t
    BY <1>1, <1>3, <1>8 DEF NestedKnown
  <2>1. PICK k \in 1 .. n : stack[k].op \in {"header", "nested"} /\ stack[k].on = t
    BY <1>5 DEF NestedKnown, n
  <2>2. CASE k = n
    BY <1>2, <1>4, <2>1, <2>2 DEF on
  <2>3. CASE k # n
    BY <1>3, <2>1, <2>3
  <2> QED
    BY <2>2, <2>3
<1>14. ClausesRecorded'
  <2>1. \A t \in Types : \A m : ~ OnSourceCycle(t) => (Recorded(t, m)' <=> Recorded(t, m))
    BY <1>1, <1>7, <1>8 DEF Recorded, Spoilt
  <2>2. ~ OnSourceCycle(on) => Recorded(on, Len(prog.clause[on]))
    <3>1. \A l, i, j \in Nat : i > l /\ j <= l => j <= i - 1
      OBVIOUS
    <3>2. \A j \in 1 .. Len(prog.clause[on]) :
              j <= Len(prog.clause[on]) => j <= Top.i - 1
      BY <1>1, <1>2, <3>1 DEF on
    <3> QED
      BY <1>2, <3>2 DEF Recorded, on
  <2>3. ASSUME NEW k \in 1 .. n, stack'[k].op = "header", ~ OnSourceCycle(stack'[k].on)
        PROVE  /\ stack'[k] = stack[k] /\ stack[k].on \in Types
               /\ Recorded(stack[k].on, stack[k].i - 1)
    <3>1. stack'[k] = stack[k]
      BY <1>3, <1>4, <2>3
    <3> QED
      BY <1>1, <1>5, <2>3, <3>1 DEF HeaderInv, TypeOK, FramesRefer, ClausesRecorded, n
  <2>4. ASSUME NEW t \in header, ~ InProgress(t)', ~ OnSourceCycle(t)
        PROVE  t \in Types /\ Recorded(t, Len(prog.clause[t]))
    BY <1>1, <1>5, <1>9, <2>2, <2>4 DEF HeaderInv, TypeOK, ClausesRecorded
  <2>5. \A k \in 1 .. n : stack'[k].op = "header" /\ ~ OnSourceCycle(stack'[k].on) =>
            \A i \in 1 .. Len(prog.clause[stack'[k].on]) :
               i <= stack'[k].i - 1 /\ ~ Spoilt(prog.clause[stack'[k].on][i]) =>
                   prog.clause[stack'[k].on][i] \in supers'[stack'[k].on]
    BY <1>7, <2>3 DEF Recorded
  <2>6. \A t \in header : ~ InProgress(t)' /\ ~ OnSourceCycle(t) =>
            Recorded(t, Len(prog.clause[t]))'
    BY <1>1, <2>1, <2>4
  <2> QED
    BY <1>1, <1>3, <1>8, <2>5, <2>6 DEF ClausesRecorded, Recorded, Spoilt
<1> QED
  BY <1>10, <1>11, <1>12, <1>13, <1>14 DEF HeaderParts

\* Together: every step keeps the invariant.
LEMMA HeaderStep ==
    ASSUME HeaderInv, [Next]_vars
    PROVE  HeaderInv'
<1>1. CASE Next
  <2>1. TypeOK'
    BY <1>1, TypeStep
  <2>2. ASSUME NEW t \in Types, EntersType(t)
        PROVE  HeaderParts'
    <3>1. /\ Begins(t) /\ UNCHANGED <<prog, supers, closure, circular, loaded>>
          /\ \A k \in 1 .. Len(stack) : SameCall(k)
      BY <2>2 DEF EntersType, Begins, Grown, SameCall
    <3> QED
      BY <2>1, <3>1, EntryKeepsHeaders
  <2>3. HeaderParts'
    BY <1>1, <2>1, <2>2, StepKinds, OtherProcedures, OthersKeepHeaders, UnusableKeepsHeaders,
       RecordKeepsHeaders, ResolveKeepsHeaders, DoneKeepsHeaders
  <2>4. prog' = prog
    BY <1>1, StepKinds DEF Quiet, Pushes, Loads, Pops, Steps, Kept, EntersType,
       HeaderUnusable, HeaderResolve, HeaderRecord, HeaderDone
  <2> QED
    BY <2>1, <2>3, <2>4 DEF HeaderInv, HeaderParts
<1>2. CASE UNCHANGED vars
  <2> USE <1>2 DEF vars, source, marks, sorting
  <2>1. TypeOK'
    BY DEF HeaderInv, TypeOK
  <2>2. Others
    BY DEF Others, Kept, HeaderInv, FramesRefer
  <2> QED
    BY <2>1, <2>2, OthersKeepHeaders DEF HeaderInv, HeaderParts
<1> QED
  BY <1>1, <1>2

\* The first part of the invariant, which everything about headers follows from.
THEOREM HeadersInvariant == Spec => []HeaderInv
<1>1. Init => HeaderInv
  BY InitHeader
<1>2. HeaderInv /\ [Next]_vars => HeaderInv'
  BY HeaderStep
<1> QED
  BY <1>1, <1>2, PTL DEF Spec

\* Every variable has its type, however deep the procedures nest.
THEOREM HeadersTyped == Spec => []TypeOK
<1>1. HeaderInv => TypeOK
  BY DEF HeaderInv
<1> QED
  BY <1>1, HeadersInvariant, PTL

\* What is reported as circular is circular in the source.
THEOREM ReportedCircularRightly == Spec => []CircularOnCycle
<1>1. HeaderInv => CircularOnCycle
  BY DEF HeaderInv
<1> QED
  BY <1>1, HeadersInvariant, PTL

\* No supertype is invented, and none is lost but to a cycle.
THEOREM HierarchyIsExact == Spec => []HierarchyExact
<1>1. HeaderInv => HierarchyExact
  <2> SUFFICES ASSUME HeaderInv, NEW t \in Types
               PROVE  /\ closure[t] \subseteq Above(t)
                      /\ supers[t] \subseteq ToSet(prog.clause[t])
                      /\ t \in header /\ ~ InProgress(t) /\ ~ OnSourceCycle(t) =>
                            \A s \in ToSet(prog.clause[t]) :
                                (\A u \in ToSet(Path(s)) : ~ OnSourceCycle(u)) =>
                                    s \in supers[t] /\ ToSet(Path(s)) \subseteq closure[t]
    BY DEF HierarchyExact
  <2>1. prog \in Programs /\ Hierarchy /\ ClausesRecorded
    BY DEF HeaderInv
  <2>2. ASSUME t \in header, ~ InProgress(t), ~ OnSourceCycle(t),
               NEW s \in ToSet(prog.clause[t]), ~ Spoilt(s)
        PROVE  s \in supers[t]
    <3>1. Recorded(t, Len(prog.clause[t]))
      BY <2>1, <2>2 DEF ClausesRecorded
    <3>2. prog.clause[t] \in Seq(Types)
      BY <2>1, ProgramFacts
    <3>3. PICK i \in 1 .. Len(prog.clause[t]) : s = prog.clause[t][i]
      BY <3>2 DEF ToSet
    <3>4. i <= Len(prog.clause[t])
      BY <3>2
    <3> QED
      BY <2>2, <3>1, <3>3, <3>4 DEF Recorded
  <2> QED
    BY <2>1, <2>2 DEF Hierarchy, Spoilt
<1> QED
  BY <1>1, HeadersInvariant, PTL
=============================================================================
