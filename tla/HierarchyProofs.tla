--------------------------- MODULE HierarchyProofs ---------------------------
(***************************************************************************)
(* Proofs about the module TypeHeaders: without member types, the recorded *)
(* hierarchy is acyclic whenever no header is in progress, however the     *)
(* source's own is knotted.  (With member types it need not be.)           *)
(***************************************************************************)
EXTENDS TypeBatchesProofs

\* No type is declared in another; a class extends at most one class, and
\* interfaces no class.
Flat ==
    \A t \in Types :
        /\ TopLevel(t)
        /\ \A i, j \in 1 .. Len(prog.clause[t]) :
              prog.clause[t][i] \in prog.class =>
                  t \in prog.class /\ (prog.clause[t][j] \in prog.class => i = j)

-----------------------------------------------------------------------------
(* Paths in a flat program.                                                 *)

LEMMA FlatPaths ==
    ASSUME Flat, NEW t \in Types
    PROVE  /\ Path(t) = <<t>> /\ ToSet(Path(t)) = {t} /\ ToSet(Qualifiers(t)) = {}
           /\ Nested(t) = {}
<1>1. \A x \in Types : prog.outer[x] = NoType
  BY DEF Flat, TopLevel
<1> DEFINE Equation(p) == p = [x \in Types |-> IF prog.outer[x] = NoType THEN <<x>>
                                               ELSE Append(p[prog.outer[x]], x)]
           paths == CHOOSE p : Equation(p)
<1>2. Equation([x \in Types |-> <<x>>])
  BY <1>1
<1>3. Equation(paths)
  <2> HIDE DEF Equation
  <2> QED
    BY <1>2
<1>4. Path(t) = paths[t]
  BY DEF Path, OuterPath
<1>5. paths[t] = <<t>>
  <2>1. paths = [x \in Types |-> IF prog.outer[x] = NoType THEN <<x>>
                                 ELSE Append(paths[prog.outer[x]], x)]
    BY <1>3
  <2> HIDE DEF paths
  <2> QED
    BY <1>1, <2>1
<1>6. Path(t) = <<t>>
  BY <1>4, <1>5
<1>7. ToSet(<<t>>) = {t} /\ ToSet(Front(<<t>>)) = {}
  BY DEF ToSet, Front
<1>8. Nested(t) = {}
  BY <1>1, NoTypeAssumption DEF Nested
<1> QED
  BY <1>6, <1>7, <1>8 DEF Qualifiers

-----------------------------------------------------------------------------
(***************************************************************************)
(* The inductive invariant.                                                *)
(***************************************************************************)
HeaderAt(k) == k \in 1 .. Len(stack) /\ stack[k].op = "header"

\* The headers in progress are the bottom of the stack, each entered by the
\* clause the one below is at.
Chained ==
    \A j, k \in 1 .. Len(stack) :
        j < k /\ HeaderAt(k) => HeaderAt(j) /\ (k = j + 1 => stack[j].got = stack[k].on)

\* Whatever is resolved, recorded or has its member types computed has its
\* header begun.
ClosuresBegun ==
    \A k \in 1 .. Len(stack) : stack[k].op = "closure" => stack[k].on \in header
HierarchyBegun == \A t \in Types : supers[t] \subseteq header /\ closure[t] \subseteq header
NamesBegun     == \A k \in 1 .. Len(stack) :
                      HeaderAt(k) /\ stack[k].got # NoType => stack[k].got \in header

CircularEnded == \A t \in circular : t \in closure[t] /\ ~ InProgress(t)

\* Classes come before interfaces: no class is above an interface or entered by
\* one, and a class has none above it before its extends clause is recorded.
Classes(t) == closure[t] \cap prog.class
Kinds ==
    /\ \A t \in Types \ prog.class : Classes(t) = {}
    /\ \A j, k \in 1 .. Len(stack) :
          j < k /\ HeaderAt(j) /\ HeaderAt(k) /\ stack[k].on \in prog.class =>
              stack[j].on \in prog.class
    /\ \A k \in 1 .. Len(stack) :
          HeaderAt(k) /\ Classes(stack[k].on) # {} =>
              \E i \in 1 .. Len(prog.clause[stack[k].on]) :
                  i < stack[k].i /\ prog.clause[stack[k].on][i] \in prog.class

\* The classes above a type end at one in progress at most; if they close to a
\* cycle, at none.
OneChain ==
    \A t \in Types : \A x, y \in Classes(t) : InProgress(x) /\ InProgress(y) => x = y
ClosedChain ==
    \A t \in prog.class :
        t \in closure[t] /\ ~ InProgress(t) => \A x \in Classes(t) : ~ InProgress(x)

\* A header in progress that something below it in the hierarchy names is above
\* itself already, or is named on the way to a header entered from it: it will
\* be found circular.
Reached(k) == closure[stack[k].on] \cup
                 IF stack[k].got = NoType THEN {} ELSE {stack[k].got} \cup closure[stack[k].got]
Awaited ==
    \A t \in Types : \A k \in 1 .. Len(stack) :
        HeaderAt(k) /\ stack[k].on \in supers[t] /\ ~ InProgress(t) =>
            \E j \in 1 .. Len(stack) : j >= k /\ HeaderAt(j) /\ stack[k].on \in Reached(j)

\* No cycle among types whose headers have ended or not begun.
Grounded ==
    \A S \in (SUBSET Types) \ {{}} :
        (\A t \in S : ~ InProgress(t)) => \E t \in S : supers[t] \cap S = {}

Chains  == /\ Chained /\ HierarchyBegun /\ NamesBegun /\ CircularEnded
           /\ Kinds /\ OneChain /\ ClosedChain /\ Awaited /\ Grounded
FlatInv == Flat => ClosuresBegun /\ Chains

-----------------------------------------------------------------------------
(* What a step of a flat program does to headers.                           *)

\* The types enclosing where a file is being looked at: its one type, whose
\* header has been entered.
LEMMA FlatScope ==
    ASSUME Flat, HeaderInv, BatchInv, NEW f, NEW c \in ToSet(EnclosingTypes(f))
    PROVE  c \in header
<1>1. stack \in Seq(Frames) /\ FramesRefer /\ Headed
  BY DEF HeaderInv, TypeOK, BatchInv
<1>2. Scope(f) # NoType
  BY DEF EnclosingTypes, ToSet
<1> DEFINE envs == {k \in DOMAIN stack :
                        stack[k].op \in {"nested", "members"} /\ File(stack[k].on) = f}
           last == CHOOSE k \in envs : \A j \in envs : j <= k
<1>3. envs # {} /\ Scope(f) = stack[last].on
  BY <1>2 DEF Scope
<1>4. last \in envs
  <2>1. Len(stack) \in Nat /\ envs \in SUBSET (1 .. Len(stack))
    BY <1>1
  <2> HIDE DEF envs
  <2>2. \E k \in envs : \A j \in envs : j <= k
    BY <1>3, <2>1, GreatestOf
  <2> QED
    BY <2>2
<1>5. last \in 1 .. Len(stack) /\ stack[last].op \in {"nested", "members"}
  BY <1>1, <1>4
<1> HIDE DEF last, envs
<1>6. Scope(f) \in header
  BY <1>1, <1>3, <1>5 DEF FramesRefer, Headed
<1>7. Scope(f) \in Types
  BY <1>1, <1>2, ScopeType
<1>8. ToSet(EnclosingTypes(f)) = {Scope(f)}
  <2>1. EnclosingTypes(f) = Reverse(<<Scope(f)>>)
    BY <1>2, <1>7, FlatPaths DEF EnclosingTypes
  <2>2. \A x : ToSet(Reverse(<<x>>)) = {x}
    BY DEF ToSet, Reverse
  <2> QED
    BY <2>1, <2>2
<1> QED
  BY <1>6, <1>8

\* Only a clause enters a header from within another procedure.
LEMMA FlatSteps ==
    ASSUME Flat, HeaderInv, TypeOK', BatchInv, ClosuresBegun, HierarchyBegun, Next
    PROVE  \/ Others /\ ClosuresBegun'
           \/ stack = <<>> /\ \E t \in Types : EntersType(t)
           \/ HeaderUnusable \/ HeaderResolve \/ HeaderRecord \/ HeaderDone
<1>1. /\ stack \in Seq(Frames) /\ stack' \in Seq(Frames) /\ FramesRefer
  BY DEF HeaderInv, TypeOK
<1> DEFINE n == Len(stack)
<1>2. n \in Nat /\ (stack # <<>> => n > 0 /\ Top = stack[n] /\ Top \in Frames)
  BY <1>1 DEF Top, Last
<1>3. ASSUME NEW c \in Types, Asked(c)
      PROVE  c \in header
  BY <1>3, FlatScope, FlatPaths DEF Asked, HierarchyBegun
<1>4. ASSUME NEW t \in Types, EntersType(t), Enterer(t)
      PROVE  stack = <<>>
  <2>1. CASE Running("closure") /\ t = Top.on
    <3>1. stack # <<>> /\ Top.op = "closure" /\ t \notin header
      BY <1>4, <2>1 DEF Running, EntersType
    <3>2. n \in 1 .. n
      BY <1>2, <3>1
    <3> QED
      BY <1>2, <2>1, <3>1, <3>2 DEF ClosuresBegun
  <2>2. CASE Running("nested") /\ t \in Nested(Top.on)
    <3>1. Top.on \in Types
      BY <1>1, <2>2, TopFrame
    <3> QED
      BY <2>2, <3>1, FlatPaths
  <2> QED
    BY <1>4, <2>1, <2>2 DEF Enterer
<1>5. ASSUME NEW frame, Grown(frame), UNCHANGED header,
             frame.op = "closure" => frame.on \in header
      PROVE  ClosuresBegun'
  <2>1. /\ Len(stack') = n + 1 /\ stack'[n + 1] = frame
        /\ \A k \in 1 .. n : stack'[k] = stack[k]
    BY <1>5 DEF Grown
  <2>2. \A k \in 1 .. n + 1 : k \in 1 .. n \/ k = n + 1
    BY <1>2
  <2>3. \A k \in 1 .. n : stack[k].op = "closure" => stack[k].on \in header
    BY DEF ClosuresBegun
  <2> HIDE DEF n
  <2> QED
    BY <1>5, <2>1, <2>2, <2>3 DEF ClosuresBegun
<1>6. CASE Quiet
  BY <1>6, OtherProcedures DEF Quiet, Kept, ClosuresBegun
<1>7. CASE Pushes
  <2>1. PICK op \in {"closure", "sort", "members"}, c \in Types :
            Grown(Frame(op, c)) /\ (op = "closure" => Asked(c))
    BY <1>7 DEF Pushes
  <2>2. Frame(op, c).op = "closure" => Frame(op, c).on \in header
    BY <1>3, <2>1 DEF Frame, FrameAt
  <2>3. UNCHANGED header
    BY <1>7 DEF Pushes, Kept
  <2> QED
    BY <1>5, <1>7, <2>1, <2>2, <2>3, OtherProcedures
<1>8. CASE Loads
  <2>1. PICK f \in Files : Grown(Frame("names", f))
    BY <1>8 DEF Loads
  <2>2. Frame("names", f).op # "closure"
    BY DEF Frame, FrameAt
  <2>3. UNCHANGED header
    BY <1>8 DEF Loads, Kept
  <2> QED
    BY <1>5, <1>8, <2>1, <2>2, <2>3, OtherProcedures
<1>9. CASE Pops
  <2>1. /\ stack # <<>> /\ Len(stack') = n - 1 /\ \A k \in 1 .. n - 1 : stack'[k] = stack[k]
    BY <1>9 DEF Pops, Shrunk
  <2>2. \A k \in 1 .. n - 1 : k \in 1 .. n
    BY <1>2
  <2>3. \A k \in 1 .. n : stack[k].op = "closure" => stack[k].on \in header
    BY DEF ClosuresBegun
  <2>4. UNCHANGED header
    BY <1>9 DEF Pops, Kept
  <2> HIDE DEF n
  <2>5. ClosuresBegun'
    BY <2>1, <2>2, <2>3, <2>4 DEF ClosuresBegun
  <2> QED
    BY <1>9, <2>5, OtherProcedures
<1>10. CASE Steps
  <2>1. /\ stack # <<>> /\ Len(stack') = n /\ \A k \in 1 .. n - 1 : stack'[k] = stack[k]
        /\ stack'[n] = FrameAt(Top.op, Top.on, Top.i + 1, NoType)
    BY <1>10 DEF Steps, Replaced
  <2>2. \A k \in 1 .. n : k \in 1 .. n - 1 \/ k = n
    BY <1>2
  <2>3. \A k \in 1 .. n : stack[k].op = "closure" => stack[k].on \in header
    BY DEF ClosuresBegun
  <2>4. UNCHANGED header
    BY <1>10 DEF Steps, Kept
  <2>5. stack'[n].op = stack[n].op /\ stack'[n].on = stack[n].on
    BY <1>2, <2>1 DEF FrameAt
  <2> HIDE DEF n
  <2>6. ClosuresBegun'
    BY <2>1, <2>2, <2>3, <2>4, <2>5 DEF ClosuresBegun
  <2> QED
    BY <1>10, <2>6, OtherProcedures
<1> QED
  BY <1>4, <1>6, <1>7, <1>8, <1>9, <1>10, StepKinds

\* The header in progress at a place of the stack.
LEMMA HeaderFrame ==
    ASSUME HeaderInv, NEW k, HeaderAt(k)
    PROVE  /\ stack[k].on \in Types /\ stack[k].on \in header /\ InProgress(stack[k].on)
           /\ stack[k].i \in Nat \ {0} /\ stack[k].got \in Types \cup {NoType}
           /\ Len(prog.clause[stack[k].on]) \in Nat
           /\ stack[k].got # NoType =>
                 /\ stack[k].i \in 1 .. Len(prog.clause[stack[k].on])
                 /\ stack[k].got = prog.clause[stack[k].on][stack[k].i]
<1>1. /\ stack \in Seq(Frames) /\ prog \in Programs /\ FramesRefer
      /\ k \in 1 .. Len(stack) /\ stack[k].op = "header"
  BY DEF HeaderInv, TypeOK, HeaderAt
<1>2. stack[k] \in Frames
  BY <1>1
<1>3. stack[k].on \in Types /\ stack[k].i \in Nat \ {0} /\ stack[k].got \in Types \cup {NoType}
  BY <1>1, <1>2 DEF Frames, Procedures
<1>4. prog.clause[stack[k].on] \in Seq(Types)
  BY <1>1, <1>3, ProgramFacts
<1>5. InProgress(stack[k].on)
  BY <1>1 DEF InProgress
<1>6. /\ stack[k].on \in header
      /\ stack[k].got # NoType =>
            /\ stack[k].i <= Len(prog.clause[stack[k].on])
            /\ stack[k].got = prog.clause[stack[k].on][stack[k].i]
  BY <1>1 DEF FramesRefer
<1>7. stack[k].got # NoType => stack[k].i \in 1 .. Len(prog.clause[stack[k].on])
  BY <1>3, <1>4, <1>6
<1> QED
  BY <1>3, <1>4, <1>5, <1>6, <1>7

-----------------------------------------------------------------------------
(* Steps that leave the hierarchy alone.                                    *)

\* The header at k goes on, at most to a later clause.
GoesOn(k) ==
    /\ HeaderAt(k)' /\ stack'[k].on = stack[k].on /\ stack'[k].i >= stack[k].i
    /\ \/ stack'[k].got = stack[k].got
       \/ stack[k].got = NoType /\ stack'[k].got \in header'

LEMMA WaitingKeepsChains ==
    ASSUME Flat, HeaderInv, TypeOK', Chains,
           UNCHANGED <<prog, header, supers, closure, circular>>,
           \A k \in 1 .. Len(stack) : HeaderAt(k) => GoesOn(k),
           \A k : HeaderAt(k)' => HeaderAt(k)
    PROVE  Chains'
<1>1. /\ stack \in Seq(Frames) /\ stack' \in Seq(Frames)
      /\ UNCHANGED <<prog, header, supers, closure, circular>>
  BY DEF HeaderInv, TypeOK
<1>2. \A k : HeaderAt(k) => GoesOn(k) /\ k \in 1 .. Len(stack) /\ k \in 1 .. Len(stack')
  BY DEF HeaderAt, GoesOn
<1>3. \A t : InProgress(t)' <=> InProgress(t)
  <2>1. /\ \A t : InProgress(t) <=> \E k : HeaderAt(k) /\ stack[k].on = t
        /\ \A t : InProgress(t)' <=> \E k : HeaderAt(k)' /\ stack'[k].on = t
    BY <1>1 DEF InProgress, HeaderAt
  <2> QED
    BY <1>2, <2>1 DEF GoesOn
<1>4. \A k : HeaderAt(k) => /\ stack[k].on \in Types /\ stack[k].on # NoType
                            /\ stack[k].i \in Nat
                            /\ Len(prog.clause[stack[k].on]) \in Nat
  BY HeaderFrame, NoTypeAssumption
<1>5. Chained' /\ NamesBegun'
  <2>1. ASSUME NEW j \in 1 .. Len(stack'), NEW k \in 1 .. Len(stack'), j < k, HeaderAt(k)'
        PROVE  HeaderAt(j)' /\ (k = j + 1 => stack'[j].got = stack'[k].on)
    <3>1. HeaderAt(k) /\ k \in 1 .. Len(stack) /\ stack'[k].on = stack[k].on
      BY <1>2, <2>1 DEF GoesOn
    <3>2. j \in 1 .. Len(stack)
      BY <1>1, <2>1, <3>1
    <3>3. HeaderAt(j) /\ (k = j + 1 => stack[j].got = stack[k].on)
      BY <2>1, <3>1, <3>2 DEF Chains, Chained
    <3> QED
      BY <1>2, <1>4, <3>1, <3>3 DEF GoesOn
  <2>2. NamesBegun'
    BY <1>1, <1>2 DEF Chains, NamesBegun, GoesOn
  <2> QED
    BY <2>1, <2>2 DEF Chained
<1>6. HierarchyBegun' /\ CircularEnded'
  BY <1>1, <1>3 DEF Chains, HierarchyBegun, CircularEnded
<1>7. \A t : Classes(t)' = Classes(t)
  BY <1>1 DEF Classes
<1>8. Kinds'
  <2>1. Kinds
    BY DEF Chains
  <2>2. \A t \in Types \ prog.class : Classes(t)' = {}
    BY <1>7, <2>1 DEF Kinds
  <2>3. \A j, k \in 1 .. Len(stack') :
          j < k /\ HeaderAt(j)' /\ HeaderAt(k)' /\ stack'[k].on \in prog.class =>
              stack'[j].on \in prog.class
    BY <1>2, <2>1 DEF Kinds, GoesOn
  <2>4. ASSUME NEW k \in 1 .. Len(stack'), HeaderAt(k)', closure'[stack'[k].on] \cap prog.class # {}
        PROVE  \E i \in 1 .. Len(prog.clause[stack'[k].on]) :
                   i < stack'[k].i /\ prog.clause[stack'[k].on][i] \in prog.class
    <3>1. HeaderAt(k) /\ k \in 1 .. Len(stack) /\ GoesOn(k) /\ stack'[k].on = stack[k].on
      BY <1>2, <2>4 DEF GoesOn
    <3>2. PICK i \in 1 .. Len(prog.clause[stack[k].on]) :
              i < stack[k].i /\ prog.clause[stack[k].on][i] \in prog.class
      BY <1>1, <2>1, <2>4, <3>1 DEF Kinds, Classes
    <3>3. stack'[k].i \in Nat /\ stack[k].i \in Nat
      <4>1. stack'[k] \in Frames
        BY <1>1, <2>4
      <4> QED
        BY <1>4, <3>1, <4>1 DEF Frames
    <3>4. i < stack'[k].i
      BY <1>4, <3>1, <3>2, <3>3 DEF GoesOn
    <3> QED
      BY <3>1, <3>2, <3>4
  <2> QED
    BY <1>1, <2>2, <2>3, <2>4 DEF Kinds, Classes
<1>9. OneChain' /\ ClosedChain'
  BY <1>1, <1>3, <1>7 DEF Chains, OneChain, ClosedChain
<1>10. Awaited'
  <2> SUFFICES ASSUME NEW t \in Types, NEW k \in 1 .. Len(stack'), HeaderAt(k)',
                      stack'[k].on \in supers'[t], ~ InProgress(t)'
               PROVE  \E j \in 1 .. Len(stack') :
                          j >= k /\ HeaderAt(j)' /\ stack'[k].on \in Reached(j)'
    BY DEF Awaited
  <2>1. HeaderAt(k) /\ k \in 1 .. Len(stack) /\ stack'[k].on = stack[k].on
    BY <1>2 DEF GoesOn
  <2>2. PICK j \in 1 .. Len(stack) : j >= k /\ HeaderAt(j) /\ stack[k].on \in Reached(j)
    BY <1>1, <1>3, <2>1 DEF Chains, Awaited
  <2>3. HeaderAt(j)' /\ j \in 1 .. Len(stack') /\ Reached(j) \subseteq Reached(j)'
    BY <1>1, <1>2, <2>2 DEF Reached, GoesOn
  <2> QED
    BY <2>1, <2>2, <2>3
<1>11. Grounded'
  BY <1>1, <1>3 DEF Chains, Grounded
<1> QED
  BY <1>5, <1>6, <1>8, <1>9, <1>10, <1>11 DEF Chains

\* A header is entered: by a clause of the innermost one, or by no other.
LEMMA EntryKeepsChains ==
    ASSUME Flat, HeaderInv, TypeOK', Chains, UNCHANGED <<prog, supers, closure, circular>>,
           NEW t \in Types, Begins(t),
           \A k \in 1 .. Len(stack) : HeaderAt(k) => GoesOn(k),
           \A k \in 1 .. Len(stack) : HeaderAt(k)' => HeaderAt(k),
           stack # <<>> => /\ HeaderAt(Len(stack))
                           /\ stack'[Len(stack)].got = t
                           /\ t \in ToSet(prog.clause[stack[Len(stack)].on])
    PROVE  Chains'
<1> DEFINE n == Len(stack)
<1>1. /\ stack \in Seq(Frames) /\ stack' \in Seq(Frames) /\ n \in Nat
      /\ UNCHANGED <<prog, supers, closure, circular>>
      /\ circular \subseteq header /\ \A u \in Types \ header : closure[u] = {}
  BY DEF HeaderInv, TypeOK
<1>2. /\ t \notin header /\ header' = header \cup {t} /\ Len(stack') = n + 1
      /\ stack'[n + 1].op = "header" /\ stack'[n + 1].on = t
      /\ stack'[n + 1].i = 1 /\ stack'[n + 1].got = NoType
  BY DEF Begins, Frame, FrameAt
<1>3. stack # <<>> => n > 0
  BY <1>1
<1>4. /\ \A k : HeaderAt(k) => GoesOn(k) /\ k \in 1 .. n /\ k \in 1 .. n + 1 /\ k # n + 1
      /\ \A k \in 1 .. n + 1 : k \in 1 .. n \/ k = n + 1
  BY <1>1 DEF HeaderAt
<1> HIDE DEF n
<1>5. /\ \A k : HeaderAt(k)' <=> HeaderAt(k) \/ k = n + 1
      /\ \A k : HeaderAt(k)' => k \in 1 .. n + 1
  <2>1. \A k : HeaderAt(k)' => k \in 1 .. n + 1
    BY <1>2 DEF HeaderAt
  <2>2. \A k : k = n + 1 => HeaderAt(k)'
    BY <1>1, <1>2 DEF HeaderAt
  <2> QED
    BY <1>4, <2>1, <2>2 DEF GoesOn, n
<1>6. \A u : InProgress(u)' <=> InProgress(u) \/ u = t
  <2>1. /\ \A u : InProgress(u) <=> \E k : HeaderAt(k) /\ stack[k].on = u
        /\ \A u : InProgress(u)' <=> \E k : HeaderAt(k)' /\ stack'[k].on = u
    BY <1>1 DEF InProgress, HeaderAt
  <2> QED
    BY <1>2, <1>4, <1>5, <2>1 DEF GoesOn
<1>7. \A k : HeaderAt(k) => /\ stack[k].on \in Types /\ stack[k].on # NoType
                            /\ stack[k].on \in header /\ stack[k].on # t
                            /\ stack[k].i \in Nat
                            /\ Len(prog.clause[stack[k].on]) \in Nat
  BY <1>2, HeaderFrame, NoTypeAssumption
<1>8. \A u \in Types : t \notin supers[u] /\ t \notin closure[u]
  BY <1>2 DEF Chains, HierarchyBegun
<1>9. Chained' /\ NamesBegun'
  <2>1. ASSUME NEW j \in 1 .. n + 1, NEW k \in 1 .. n + 1, j < k, HeaderAt(k)'
        PROVE  HeaderAt(j)' /\ (k = j + 1 => stack'[j].got = stack'[k].on)
    <3>1. j \in 1 .. n
      BY <1>1, <2>1
    <3>2. CASE k = n + 1
      <4>1. stack # <<>>
        BY <1>1, <3>1 DEF n
      <4>2. HeaderAt(n) /\ stack'[n].got = t /\ n \in 1 .. n
        BY <1>4, <4>1 DEF n
      <4>3. j < n => HeaderAt(j)
        BY <3>1, <4>2 DEF Chains, Chained, n
      <4>4. j < n \/ j = n
        BY <1>1, <3>1
      <4> QED
        BY <1>2, <1>5, <3>2, <4>2, <4>3, <4>4
    <3>3. CASE k # n + 1
      <4>1. HeaderAt(k) /\ k \in 1 .. Len(stack) /\ stack'[k].on = stack[k].on
        BY <1>4, <1>5, <2>1, <3>3 DEF GoesOn, n
      <4>2. HeaderAt(j) /\ (k = j + 1 => stack[j].got = stack[k].on)
        BY <2>1, <3>1, <4>1 DEF Chains, Chained, n
      <4> QED
        BY <1>4, <1>5, <1>7, <4>1, <4>2 DEF GoesOn
    <3> QED
      BY <3>2, <3>3
  <2>2. NamesBegun'
    <3> SUFFICES ASSUME NEW k \in 1 .. n + 1, HeaderAt(k)', stack'[k].got # NoType
                 PROVE  stack'[k].got \in header'
      BY <1>2 DEF NamesBegun
    <3>1. HeaderAt(k) /\ k \in 1 .. Len(stack) /\ GoesOn(k)
      BY <1>2, <1>4, <1>5 DEF n
    <3> QED
      BY <1>2, <3>1 DEF Chains, NamesBegun, GoesOn
  <2> QED
    BY <1>2, <2>1, <2>2 DEF Chained
<1>10. HierarchyBegun' /\ CircularEnded'
  BY <1>1, <1>2, <1>6 DEF Chains, HierarchyBegun, CircularEnded
<1>11. \A u : Classes(u)' = Classes(u)
  BY <1>1 DEF Classes
<1>12. Kinds'
  <2>1. Kinds
    BY DEF Chains
  <2>2. \A u \in Types \ prog.class : Classes(u)' = {}
    BY <1>11, <2>1 DEF Kinds
  <2>3. ASSUME NEW j \in 1 .. n + 1, NEW k \in 1 .. n + 1, j < k, HeaderAt(j)', HeaderAt(k)',
               stack'[k].on \in prog.class
        PROVE  stack'[j].on \in prog.class
    <3>1. j \in 1 .. n /\ HeaderAt(j) /\ stack'[j].on = stack[j].on
      BY <1>1, <1>4, <1>5, <2>3 DEF GoesOn
    <3>2. CASE k = n + 1
      <4>1. stack # <<>>
        BY <3>1, <1>1 DEF n
      <4>2. HeaderAt(n) /\ t \in ToSet(prog.clause[stack[n].on]) /\ t \in prog.class
        BY <1>2, <2>3, <3>2, <4>1 DEF n
      <4>3. stack[n].on \in prog.class
        <5>1. stack[n].on \in Types
          BY <1>7, <4>2
        <5>2. prog.clause[stack[n].on] \in Seq(Types)
          BY <5>1, ProgramFacts DEF HeaderInv
        <5>3. PICK i \in 1 .. Len(prog.clause[stack[n].on]) : prog.clause[stack[n].on][i] = t
          BY <4>2, <5>2 DEF ToSet
        <5> QED
          BY <4>2, <5>1, <5>3 DEF Flat
      <4>4. n \in 1 .. n /\ (j < n \/ j = n)
        BY <1>1, <2>3, <3>1, <3>2
      <4> QED
        BY <2>1, <3>1, <4>2, <4>3, <4>4 DEF Kinds, n
    <3>3. CASE k # n + 1
      <4>1. k \in 1 .. n /\ HeaderAt(k) /\ stack'[k].on = stack[k].on
        BY <1>4, <1>5, <2>3, <3>3 DEF GoesOn
      <4> QED
        BY <2>1, <2>3, <3>1, <4>1 DEF Kinds, n
    <3> QED
      BY <3>2, <3>3
  <2>4. ASSUME NEW k \in 1 .. n + 1, HeaderAt(k)', closure'[stack'[k].on] \cap prog.class # {}
        PROVE  \E i \in 1 .. Len(prog.clause[stack'[k].on]) :
                   i < stack'[k].i /\ prog.clause[stack'[k].on][i] \in prog.class
    <3>1. k # n + 1
      BY <1>1, <1>2, <2>4
    <3>2. HeaderAt(k) /\ k \in 1 .. Len(stack) /\ GoesOn(k) /\ stack'[k].on = stack[k].on
      BY <1>4, <1>5, <2>4, <3>1 DEF GoesOn, n
    <3>3. PICK i \in 1 .. Len(prog.clause[stack[k].on]) :
              i < stack[k].i /\ prog.clause[stack[k].on][i] \in prog.class
      BY <1>1, <2>1, <2>4, <3>2 DEF Kinds, Classes
    <3>4. stack'[k].i \in Nat /\ stack[k].i \in Nat
      <4>1. stack'[k] \in Frames
        BY <1>1, <1>2, <2>4
      <4> QED
        BY <1>7, <3>2, <4>1 DEF Frames
    <3>5. i < stack'[k].i
      BY <1>7, <3>2, <3>3, <3>4 DEF GoesOn
    <3> QED
      BY <3>2, <3>3, <3>5
  <2> QED
    BY <1>1, <1>2, <2>2, <2>3, <2>4 DEF Kinds, Classes
<1>13. OneChain' /\ ClosedChain'
  <2>1. OneChain /\ ClosedChain
    BY DEF Chains
  <2>2. \A u \in Types : \A x \in Classes(u) : InProgress(x)' <=> InProgress(x)
    BY <1>6, <1>8 DEF Classes
  <2>3. OneChain'
    BY <1>1, <1>11, <2>1, <2>2 DEF OneChain
  <2>4. \A u \in prog.class : InProgress(u) => InProgress(u)'
    BY <1>6
  <2>5. prog.class \subseteq Types
    BY ProgramsAssumption DEF HeaderInv, WellFormed, ProgramRecords
  <2>6. ClosedChain'
    BY <1>1, <1>11, <2>1, <2>2, <2>4, <2>5 DEF ClosedChain
  <2> QED
    BY <2>3, <2>6
<1>14. Awaited'
  <2> SUFFICES ASSUME NEW u \in Types, NEW k \in 1 .. n + 1, HeaderAt(k)',
                      stack'[k].on \in supers'[u], ~ InProgress(u)'
               PROVE  \E j \in 1 .. n + 1 :
                          j >= k /\ HeaderAt(j)' /\ stack'[k].on \in Reached(j)'
    BY <1>2 DEF Awaited
  <2>1. k # n + 1
    BY <1>1, <1>2, <1>8
  <2>2. HeaderAt(k) /\ k \in 1 .. Len(stack) /\ stack'[k].on = stack[k].on
    BY <1>4, <1>5, <2>1 DEF GoesOn, n
  <2>3. PICK j \in 1 .. Len(stack) : j >= k /\ HeaderAt(j) /\ stack[k].on \in Reached(j)
    BY <1>1, <1>6, <2>2 DEF Chains, Awaited
  <2>4. HeaderAt(j)' /\ j \in 1 .. n + 1 /\ Reached(j) \subseteq Reached(j)'
    BY <1>1, <1>4, <1>5, <2>3 DEF Reached, GoesOn
  <2> QED
    BY <2>2, <2>3, <2>4
<1>15. Grounded'
  <2>1. Grounded
    BY DEF Chains
  <2> QED
    BY <1>1, <1>6, <2>1 DEF Grounded
<1> QED
  BY <1>9, <1>10, <1>12, <1>13, <1>14, <1>15 DEF Chains

-----------------------------------------------------------------------------
(* Steps that change it.                                                    *)

\* While a class is at its extends clause no class is above it.
LEMMA AtSuperclass ==
    ASSUME Flat, HeaderInv, Chains, NEW k, HeaderAt(k), stack[k].got \in Types,
           stack[k].got \in prog.class
    PROVE  stack[k].on \in prog.class /\ Classes(stack[k].on) = {}
<1> DEFINE on == stack[k].on
           i  == stack[k].i
<1>1. stack[k].got # NoType
  BY NoTypeAssumption
<1>2. /\ on \in Types /\ i \in 1 .. Len(prog.clause[on]) /\ prog.clause[on][i] \in prog.class
      /\ k \in 1 .. Len(stack)
  BY <1>1, HeaderFrame DEF HeaderAt
<1>3. on \in prog.class /\ \A j \in 1 .. Len(prog.clause[on]) :
                               prog.clause[on][j] \in prog.class => i = j
  BY <1>2 DEF Flat
<1>4. Len(prog.clause[on]) \in Nat
  BY HeaderFrame
<1>5. ~ \E j \in 1 .. Len(prog.clause[on]) : j < i /\ prog.clause[on][j] \in prog.class
  BY <1>2, <1>3, <1>4
<1> QED
  BY <1>2, <1>3, <1>5 DEF Chains, Kinds

\* So it is with every class in progress below a class.
LEMMA BelowClass ==
    ASSUME Flat, HeaderInv, Chains, NEW k, NEW n, HeaderAt(k), HeaderAt(n), k < n,
           stack[n].on \in prog.class
    PROVE  Classes(stack[k].on) = {}
<1>1. k \in 1 .. Len(stack) /\ n \in 1 .. Len(stack) /\ Len(stack) \in Nat
  BY DEF HeaderAt, HeaderInv, TypeOK
<1>2. k + 1 \in 1 .. Len(stack) /\ k < k + 1 /\ (k + 1 = n \/ k + 1 < n)
  BY <1>1
<1>3. HeaderAt(k + 1) /\ stack[k].got = stack[k + 1].on
  BY <1>1, <1>2 DEF Chains, Chained
<1>4. stack[k + 1].on \in prog.class
  BY <1>1, <1>2, <1>3 DEF Chains, Kinds
<1>5. stack[k].got \in Types
  BY <1>3, HeaderFrame
<1> QED
  BY <1>3, <1>4, <1>5, AtSuperclass

\* A resolved clause is recorded, or ignored: a superclass found to be circular.
LEMMA RecordKeepsChains ==
    ASSUME Flat, HeaderInv, TypeOK', Chains, HeaderRecord
    PROVE  Chains'
<1> DEFINE n  == Len(stack)
           on == Top.on
           g  == Top.got
<1>1. /\ stack \in Seq(Frames) /\ stack' \in Seq(Frames)
      /\ UNCHANGED <<prog, header, circular>>
      /\ Running("header") /\ Advance
      /\ circular \subseteq header /\ header \subseteq Types
      /\ supers \in [Types -> SUBSET Types] /\ closure \in [Types -> SUBSET Types]
  BY DEF HeaderInv, TypeOK, HeaderRecord
<1>2. /\ n \in Nat /\ n \in 1 .. n /\ Top = stack[n] /\ HeaderAt(n) /\ on \in Types
      /\ g # NoType /\ g \in Types
  BY <1>1, CurrentHeader DEF HeaderAt, HeaderRecord
<1>3. /\ Len(stack') = n /\ stack'[n] = FrameAt("header", on, Top.i + 1, NoType)
      /\ \A k \in 1 .. n : k # n => stack'[k] = stack[k]
  <2>1. Replaced(FrameAt("header", on, Top.i + 1, NoType))
    BY <1>1, Advanced
  <2>2. \A k \in 1 .. n : k # n => k \in 1 .. n - 1
    BY <1>2
  <2> QED
    BY <2>1, <2>2 DEF Replaced
<1>4. /\ stack'[n].op = "header" /\ stack'[n].on = on /\ stack'[n].i = Top.i + 1
      /\ stack'[n].got = NoType /\ stack[n].on = on /\ stack[n].got = g /\ stack[n].i \in Nat
      /\ Top.i = stack[n].i /\ g \in header
  <2>1. g \in header
    BY <1>2 DEF Chains, NamesBegun
  <2>2. stack[n].i \in Nat
    BY <1>2, HeaderFrame
  <2> HIDE DEF n
  <2> QED
    BY <1>2, <1>3, <2>1, <2>2 DEF FrameAt
<1>5. \/ g \in prog.class \cap circular /\ UNCHANGED <<supers, closure>>
      \/ /\ supers' = [supers EXCEPT ![on] = @ \cup {g}]
         /\ closure' = [closure EXCEPT ![on] = @ \cup {g} \cup closure[g]]
  <2>1. ToSet(Path(g)) = {g}
    BY <1>2, FlatPaths
  <2>2. (UNION {{s} \cup closure[s] : s \in ToSet(Path(g))}) = {g} \cup closure[g]
    BY <2>1
  <2>3. \A S : S \cup ({g} \cup closure[g]) = S \cup {g} \cup closure[g]
    OBVIOUS
  <2> QED
    BY <2>2, <2>3 DEF HeaderRecord
<1> HIDE DEF n, on, g
<1>6. \A k : /\ HeaderAt(k)' <=> HeaderAt(k)
             /\ HeaderAt(k) => k \in 1 .. n /\ stack[k].on \in Types
             /\ HeaderAt(k) => stack'[k].on = stack[k].on
             /\ HeaderAt(k) /\ k # n => stack'[k] = stack[k] /\ stack[k].on # on
  <2>1. \A k : HeaderAt(k) => k \in 1 .. n /\ stack[k].on \in Types
    BY HeaderFrame DEF HeaderAt, n
  <2>2. \A k : HeaderAt(k) /\ k # n => stack[k].on # on
    BY <1>2, <1>4, <2>1 DEF HeaderInv, OneHeader, HeaderAt, n
  <2>3. \A k : HeaderAt(k)' <=> HeaderAt(k)
    BY <1>2, <1>3, <1>4 DEF HeaderAt, n
  <2> QED
    BY <1>3, <1>4, <2>1, <2>2, <2>3
<1>7. \A u : InProgress(u)' <=> InProgress(u)
  <2>1. /\ \A u : InProgress(u) <=> \E k : HeaderAt(k) /\ stack[k].on = u
        /\ \A u : InProgress(u)' <=> \E k : HeaderAt(k)' /\ stack'[k].on = u
    BY <1>1 DEF InProgress, HeaderAt
  <2> QED
    BY <1>6, <2>1
<1>8. InProgress(on)
  BY <1>2, <1>4, HeaderFrame
<1>9. /\ \A u \in Types : u # on => supers'[u] = supers[u] /\ closure'[u] = closure[u]
      /\ \A u \in Types : supers[u] \subseteq supers'[u] /\ closure[u] \subseteq closure'[u]
      /\ supers'[on] \subseteq supers[on] \cup {g}
      /\ closure'[on] \subseteq closure[on] \cup {g} \cup closure[g]
  BY <1>1, <1>2, <1>5
<1>10. Chained' /\ NamesBegun'
  <2>1. ASSUME NEW j \in 1 .. n, NEW k \in 1 .. n, j < k, HeaderAt(k)'
        PROVE  HeaderAt(j)' /\ (k = j + 1 => stack'[j].got = stack'[k].on)
    <3>1. HeaderAt(j) /\ (k = j + 1 => stack[j].got = stack[k].on)
      BY <1>6, <2>1 DEF Chains, Chained, n
    <3>2. j # n
      BY <1>2, <2>1
    <3> QED
      BY <1>6, <2>1, <3>1, <3>2
  <2>2. NamesBegun'
    BY <1>1, <1>3, <1>4, <1>6 DEF Chains, NamesBegun, n
  <2> QED
    BY <1>3, <2>1, <2>2 DEF Chained
<1>11. HierarchyBegun' /\ CircularEnded'
  <2>1. HierarchyBegun /\ CircularEnded
    BY DEF Chains
  <2>2. HierarchyBegun'
    BY <1>1, <1>2, <1>4, <1>9, <2>1 DEF HierarchyBegun
  <2>3. CircularEnded'
    BY <1>1, <1>7, <1>9, <2>1 DEF CircularEnded
  <2> QED
    BY <2>2, <2>3
<1>12. g \in prog.class => on \in prog.class /\ Classes(on) = {}
  BY <1>2, <1>4, AtSuperclass
<1>13. g \notin prog.class => Classes(g) = {}
  BY <1>2 DEF Chains, Kinds
<1>14. \A u : Classes(u)' = closure'[u] \cap prog.class
  BY <1>1 DEF Classes
<1>15. Kinds'
  <2>1. Kinds
    BY DEF Chains
  <2>2. ASSUME NEW u \in Types \ prog.class
        PROVE  closure'[u] \cap prog.class = {}
    <3>1. Classes(u) = {}
      BY <2>1 DEF Kinds
    <3>2. u = on => g \notin prog.class
      BY <1>12
    <3> QED
      BY <1>9, <1>13, <3>1, <3>2 DEF Classes
  <2>3. \A j, k \in 1 .. n :
          j < k /\ HeaderAt(j)' /\ HeaderAt(k)' /\ stack'[k].on \in prog.class =>
              stack'[j].on \in prog.class
    BY <1>6, <2>1 DEF Kinds, n
  <2>4. ASSUME NEW k \in 1 .. n, HeaderAt(k)', closure'[stack'[k].on] \cap prog.class # {}
        PROVE  \E i \in 1 .. Len(prog.clause[stack'[k].on]) :
                   i < stack'[k].i /\ prog.clause[stack'[k].on][i] \in prog.class
    <3>1. HeaderAt(k) /\ stack'[k].on = stack[k].on /\ stack[k].on \in Types
      BY <1>6, <2>4
    <3>2. CASE Classes(stack[k].on) # {}
      <4>1. PICK i \in 1 .. Len(prog.clause[stack[k].on]) :
                i < stack[k].i /\ prog.clause[stack[k].on][i] \in prog.class
        BY <2>1, <3>1, <3>2 DEF Kinds, n
      <4>2. i < stack'[k].i
        <5>1. stack[k].i \in Nat /\ Len(prog.clause[stack[k].on]) \in Nat
          BY <3>1, HeaderFrame
        <5>2. stack'[k].i = stack[k].i \/ stack'[k].i = stack[k].i + 1
          BY <1>4, <1>6, <3>1
        <5> QED
          BY <4>1, <5>1, <5>2
      <4> QED
        BY <3>1, <4>1, <4>2
    <3>3. CASE Classes(stack[k].on) = {}
      <4>1. k = n
        BY <1>6, <1>9, <2>4, <3>1, <3>3 DEF Classes
      <4>2. g \in prog.class
        BY <1>4, <1>9, <1>13, <2>4, <3>1, <3>3, <4>1 DEF Classes
      <4>3. /\ Top.i \in 1 .. Len(prog.clause[on]) /\ g = prog.clause[on][Top.i]
        BY <1>2, <1>4, HeaderFrame
      <4>4. Top.i < stack'[n].i
        BY <1>4
      <4> QED
        BY <1>4, <4>1, <4>2, <4>3, <4>4
    <3> QED
      BY <3>2, <3>3
  <2> QED
    BY <1>1, <1>3, <2>2, <2>3, <2>4 DEF Kinds, Classes
<1>16. OneChain'
  <2>1. OneChain
    BY DEF Chains
  <2> SUFFICES ASSUME NEW u \in Types,
                      NEW x \in closure'[u] \cap prog.class, NEW y \in closure'[u] \cap prog.class,
                      InProgress(x), InProgress(y)
               PROVE  x = y
    BY <1>7, <1>14 DEF OneChain
  <2>2. CASE x \in Classes(u) /\ y \in Classes(u)
    BY <2>1, <2>2 DEF OneChain
  <2>3. CASE ~ (x \in Classes(u) /\ y \in Classes(u))
    <3>1. u = on
      BY <1>9, <2>3 DEF Classes
    <3>2. g \in prog.class
      BY <1>9, <1>13, <2>3, <3>1 DEF Classes
    <3>3. x \in {g} \cup Classes(g) /\ y \in {g} \cup Classes(g)
      BY <1>9, <1>12, <3>1, <3>2 DEF Classes
    <3>4. CASE InProgress(g)
      <4>1. PICK k \in 1 .. n : HeaderAt(k) /\ stack[k].on = g
        BY <1>1, <3>4 DEF InProgress, HeaderAt, n
      <4>2. k = n \/ k < n
        BY <1>2, <4>1
      <4>3. k = n => Classes(g) = {}
        BY <1>4, <1>12, <3>2, <4>1
      <4>4. k < n => Classes(g) = {}
        BY <1>2, <1>4, <1>12, <3>2, <4>1, BelowClass
      <4> QED
        BY <3>3, <4>2, <4>3, <4>4
    <3>5. CASE ~ InProgress(g)
      <4>1. x \in Classes(g) /\ y \in Classes(g)
        BY <3>3, <3>5
      <4> QED
        BY <1>2, <2>1, <4>1 DEF OneChain
    <3> QED
      BY <3>4, <3>5
  <2> QED
    BY <2>2, <2>3
<1>17. prog.class \subseteq Types
  BY ProgramsAssumption DEF HeaderInv, WellFormed, ProgramRecords
<1>18. ClosedChain'
  <2>1. ClosedChain
    BY DEF Chains
  <2> SUFFICES ASSUME NEW u \in prog.class, u \in closure'[u], ~ InProgress(u),
                      NEW x \in closure'[u] \cap prog.class
               PROVE  ~ InProgress(x)
    BY <1>1, <1>7, <1>14 DEF ClosedChain
  <2>2. closure'[u] = closure[u]
    BY <1>8, <1>9, <1>17
  <2> QED
    BY <2>1, <2>2 DEF ClosedChain, Classes
<1>19. Awaited'
  <2> SUFFICES ASSUME NEW u \in Types, NEW k \in 1 .. n, HeaderAt(k),
                      stack[k].on \in supers'[u], ~ InProgress(u)
               PROVE  \E j \in 1 .. n : j >= k /\ HeaderAt(j)' /\ stack[k].on \in Reached(j)'
    BY <1>3, <1>6, <1>7 DEF Awaited
  <2> DEFINE x == stack[k].on
  <2>1. x \in supers[u] /\ x \in Types /\ InProgress(x)
    BY <1>8, <1>9, HeaderFrame
  <2>2. PICK j \in 1 .. n : j >= k /\ HeaderAt(j) /\ x \in Reached(j)
    BY <2>1 DEF Chains, Awaited, n
  <2>3. CASE j # n
    <3>1. stack[j].got \in Types \cup {NoType} /\ stack'[j] = stack[j]
      BY <1>6, <2>2, <2>3, HeaderFrame
    <3>2. x \in Reached(j)'
      BY <1>6, <1>9, <2>2, <3>1 DEF Reached
    <3> QED
      BY <1>6, <2>2, <3>2
  <2>4. CASE j = n
    <3>1. x \in closure[on] \cup {g} \cup closure[g]
      BY <1>2, <1>4, <2>2, <2>4 DEF Reached
    <3>2. x \in closure'[on]
      <4>1. CASE g \in prog.class \cap circular /\ UNCHANGED <<supers, closure>>
        <5>1. g \in closure[g] /\ ~ InProgress(g) /\ on \in prog.class
          BY <1>12, <4>1 DEF Chains, CircularEnded
        <5>2. x \in prog.class
          <6>1. k = n \/ k < n
            BY <1>2
          <6> QED
            BY <1>2, <1>4, <5>1, <6>1 DEF Chains, Kinds, n
        <5>3. x \notin closure[g]
          BY <2>1, <4>1, <5>1, <5>2 DEF Chains, ClosedChain, Classes
        <5> QED
          BY <2>1, <3>1, <4>1, <5>1, <5>3
      <4>2. CASE closure' = [closure EXCEPT ![on] = @ \cup {g} \cup closure[g]]
        BY <1>1, <1>2, <3>1, <4>2
      <4> QED
        BY <1>5, <4>1, <4>2
    <3>3. x \in Reached(j)'
      BY <1>4, <2>4, <3>2 DEF Reached
    <3> QED
      BY <1>6, <2>2, <3>3
  <2> QED
    BY <2>3, <2>4
<1>20. Grounded'
  <2>1. Grounded
    BY DEF Chains
  <2> QED
    BY <1>7, <1>8, <1>9, <2>1 DEF Grounded
<1> QED
  BY <1>10, <1>11, <1>15, <1>16, <1>18, <1>19, <1>20 DEF Chains

\* A header ends, and with it every cycle that is closed now.
LEMMA DoneKeepsChains ==
    ASSUME Flat, HeaderInv, TypeOK', Chains, HeaderDone
    PROVE  Chains'
<1> DEFINE n  == Len(stack)
           on == Top.on
<1>1. /\ stack \in Seq(Frames) /\ stack' \in Seq(Frames)
      /\ UNCHANGED <<prog, header, closure>>
      /\ Running("header") /\ Continue(Frame("nested", on)) /\ Top.i > Len(prog.clause[on])
      /\ header \subseteq Types
      /\ supers \in [Types -> SUBSET Types] /\ closure \in [Types -> SUBSET Types]
  BY DEF HeaderInv, TypeOK, HeaderDone, Become
<1>2. /\ n \in Nat /\ n \in 1 .. n /\ Top = stack[n] /\ HeaderAt(n) /\ on \in Types
      /\ Top.i \in Nat /\ Len(prog.clause[on]) \in Nat /\ Top.got = NoType
  <2>1. /\ n \in Nat /\ n \in 1 .. n /\ Top = stack[n] /\ HeaderAt(n) /\ on \in Types
        /\ Top.i \in Nat /\ Len(prog.clause[on]) \in Nat
        /\ Top.got # NoType => Top.i <= Len(prog.clause[on])
    BY <1>1, CurrentHeader DEF HeaderAt
  <2>2. ~ (Top.i <= Len(prog.clause[on]))
    BY <1>1, <2>1
  <2> QED
    BY <2>1, <2>2
<1>3. /\ Len(stack') = n /\ stack'[n].op = "nested"
      /\ \A k \in 1 .. n : k # n => stack'[k] = stack[k]
  <2>1. Frame("nested", on) \in Frames
    BY <1>2 DEF Frame, FrameAt, Frames, Procedures
  <2>2. Replaced(Frame("nested", on))
    BY <1>1, <2>1, TopFrame, Stepped
  <2>3. \A k \in 1 .. n : k # n => k \in 1 .. n - 1
    BY <1>2
  <2> QED
    BY <2>2, <2>3 DEF Replaced, Frame, FrameAt
<1>4. stack[n].on = on /\ stack[n].got = NoType
  BY <1>2
<1>5. \/ /\ on \in closure[on]
         /\ supers' = [supers EXCEPT ![on] = {}] /\ circular' = circular \cup {on}
      \/ on \notin closure[on] /\ UNCHANGED <<supers, circular>>
  BY DEF HeaderDone
<1> HIDE DEF n, on
<1>6. \A k : /\ HeaderAt(k)' <=> HeaderAt(k) /\ k # n
             /\ HeaderAt(k) => k \in 1 .. n /\ stack[k].on \in Types
             /\ HeaderAt(k) /\ k # n => stack'[k] = stack[k] /\ stack[k].on # on
  <2>1. \A k : HeaderAt(k) => k \in 1 .. n /\ stack[k].on \in Types
    BY HeaderFrame DEF HeaderAt, n
  <2>2. \A k : HeaderAt(k) /\ k # n => stack[k].on # on
    BY <1>2, <1>4, <2>1 DEF HeaderInv, OneHeader, HeaderAt, n
  <2>3. \A k : HeaderAt(k)' <=> HeaderAt(k) /\ k # n
    BY <1>2, <1>3 DEF HeaderAt, n
  <2> QED
    BY <1>3, <2>1, <2>2, <2>3
<1>7. \A u : InProgress(u)' <=> InProgress(u) /\ u # on
  <2>1. /\ \A u : InProgress(u) <=> \E k : HeaderAt(k) /\ stack[k].on = u
        /\ \A u : InProgress(u)' <=> \E k : HeaderAt(k)' /\ stack'[k].on = u
    BY <1>1 DEF InProgress, HeaderAt
  <2> QED
    BY <1>4, <1>6, <2>1
<1>8. InProgress(on)
  BY <1>2, <1>4, HeaderFrame
<1>9. /\ \A u \in Types : supers'[u] \subseteq supers[u] /\ (u # on => supers'[u] = supers[u])
      /\ on \in closure[on] => supers'[on] = {}
      /\ \A u \in circular' : u \in circular \/ (u = on /\ on \in closure[on])
  BY <1>1, <1>2, <1>5
<1>10. Chained' /\ NamesBegun'
  <2>1. ASSUME NEW j \in 1 .. n, NEW k \in 1 .. n, j < k, HeaderAt(k)'
        PROVE  HeaderAt(j)' /\ (k = j + 1 => stack'[j].got = stack'[k].on)
    <3>1. HeaderAt(j) /\ (k = j + 1 => stack[j].got = stack[k].on)
      BY <1>6, <2>1 DEF Chains, Chained, n
    <3>2. j # n
      BY <1>2, <2>1
    <3> QED
      BY <1>6, <2>1, <3>1, <3>2
  <2>2. NamesBegun'
    BY <1>1, <1>3, <1>6 DEF Chains, NamesBegun, n
  <2> QED
    BY <1>3, <2>1, <2>2 DEF Chained
<1>11. HierarchyBegun' /\ CircularEnded'
  <2>1. HierarchyBegun /\ CircularEnded
    BY DEF Chains
  <2>2. HierarchyBegun'
    BY <1>1, <1>9, <2>1 DEF HierarchyBegun
  <2>3. CircularEnded'
    BY <1>1, <1>7, <1>9, <2>1 DEF CircularEnded
  <2> QED
    BY <2>2, <2>3
<1>12. \A u : Classes(u)' = Classes(u)
  BY <1>1 DEF Classes
<1>13. Kinds'
  <2>1. Kinds
    BY DEF Chains
  <2>2. \A u \in Types \ prog.class : closure'[u] \cap prog.class = {}
    BY <1>1, <2>1 DEF Kinds, Classes
  <2>3. \A j, k \in 1 .. n :
          j < k /\ HeaderAt(j)' /\ HeaderAt(k)' /\ stack'[k].on \in prog.class =>
              stack'[j].on \in prog.class
    BY <1>6, <2>1 DEF Kinds, n
  <2>4. \A k \in 1 .. n :
          HeaderAt(k)' /\ closure'[stack'[k].on] \cap prog.class # {} =>
              \E i \in 1 .. Len(prog.clause[stack'[k].on]) :
                  i < stack'[k].i /\ prog.clause[stack'[k].on][i] \in prog.class
    BY <1>1, <1>6, <2>1 DEF Kinds, Classes, n
  <2> QED
    BY <1>1, <1>3, <2>2, <2>3, <2>4 DEF Kinds, Classes
<1>14. OneChain'
  BY <1>7, <1>12 DEF Chains, OneChain
<1>15. ClosedChain'
  <2>1. OneChain /\ ClosedChain
    BY DEF Chains
  <2> SUFFICES ASSUME NEW u \in prog.class, u \in closure[u], ~ InProgress(u)',
                      NEW x \in Classes(u)
               PROVE  ~ InProgress(x)'
    BY <1>1, <1>12 DEF ClosedChain
  <2>2. CASE u = on
    <3>1. on \in Classes(on)
      BY <2>2 DEF Classes
    <3> QED
      BY <1>2, <1>7, <1>8, <2>1, <2>2, <3>1 DEF OneChain
  <2>3. CASE u # on
    BY <1>7, <2>1, <2>3 DEF ClosedChain
  <2> QED
    BY <2>2, <2>3
<1>16. ASSUME NEW x \in supers[on]
       PROVE  x \in closure[on]
  <2>1. Hierarchy /\ x \in Types
    BY <1>1, <1>2, <1>16 DEF HeaderInv
  <2> QED
    BY <1>2, <1>16, <2>1, FlatPaths DEF Hierarchy
<1>17. Awaited'
  <2> SUFFICES ASSUME NEW u \in Types, NEW k \in 1 .. n, HeaderAt(k)',
                      stack'[k].on \in supers'[u], ~ InProgress(u)'
               PROVE  \E j \in 1 .. n : j >= k /\ HeaderAt(j)' /\ stack'[k].on \in Reached(j)'
    BY <1>3 DEF Awaited
  <2> DEFINE x == stack[k].on
  <2>1. HeaderAt(k) /\ k # n /\ k < n /\ stack'[k] = stack[k] /\ x \in supers[u]
    BY <1>2, <1>6, <1>9
  <2>2. ASSUME x \in closure[on]
        PROVE  \E j \in 1 .. n : j >= k /\ HeaderAt(j)' /\ x \in Reached(j)'
    <3>1. n - 1 \in 1 .. n /\ n - 1 >= k /\ n - 1 < n /\ n = (n - 1) + 1 /\ n - 1 # n
      BY <1>2, <2>1
    <3>2. HeaderAt(n - 1) /\ stack[n - 1].got = on
      BY <1>2, <1>4, <3>1 DEF Chains, Chained, n
    <3>3. ASSUME NEW j, j = n - 1
          PROVE  HeaderAt(j)' /\ x \in Reached(j)'
      BY <1>1, <1>2, <1>6, <2>2, <3>1, <3>2, <3>3, NoTypeAssumption DEF Reached
    <3> QED
      BY <3>1, <3>3
  <2>3. CASE u = on
    <3>1. x \in supers[on]
      BY <2>1, <2>3
    <3> QED
      BY <1>16, <2>1, <2>2, <3>1
  <2>4. CASE u # on
    <3>1. PICK j \in 1 .. n : j >= k /\ HeaderAt(j) /\ x \in Reached(j)
      BY <1>7, <2>1, <2>4 DEF Chains, Awaited, n
    <3>2. CASE j = n
      <4>1. x \in closure[on]
        BY <1>4, <3>1, <3>2 DEF Reached
      <4> QED
        BY <2>1, <2>2, <4>1
    <3>3. CASE j # n
      <4>1. HeaderAt(j)' /\ x \in Reached(j)'
        BY <1>1, <1>6, <3>1, <3>3 DEF Reached
      <4> QED
        BY <2>1, <3>1, <4>1
    <3> QED
      BY <3>2, <3>3
  <2> QED
    BY <2>3, <2>4
<1>18. Grounded'
  <2>1. Grounded
    BY DEF Chains
  <2> SUFFICES ASSUME NEW S \in (SUBSET Types) \ {{}}, \A u \in S : ~ InProgress(u)'
               PROVE  \E u \in S : supers'[u] \cap S = {}
    BY DEF Grounded
  <2>2. CASE on \notin S
    <3>1. \A u \in S : ~ InProgress(u)
      BY <1>7, <2>2
    <3> QED
      BY <1>9, <2>1, <3>1 DEF Grounded
  <2>3. CASE on \in S /\ supers'[on] \cap S = {}
    BY <2>3
  <2>4. CASE on \in S /\ supers'[on] \cap S # {}
    <3>1. on \notin closure[on] /\ on \notin supers[on]
      BY <1>9, <1>16, <2>4
    <3> DEFINE R == S \ {on}
    <3>2. R \in (SUBSET Types) \ {{}} /\ \A u \in R : ~ InProgress(u)
      BY <1>2, <1>7, <1>9, <2>4, <3>1
    <3>3. PICK u \in R : supers[u] \cap R = {}
      <4> HIDE DEF R
      <4> QED
        BY <2>1, <3>2 DEF Grounded
    <3>4. on \notin supers[u]
      <4>1. SUFFICES ASSUME on \in supers[u] PROVE FALSE
        OBVIOUS
      <4>2. u \in Types /\ ~ InProgress(u)
        BY <3>2
      <4>3. PICK j \in 1 .. n : j >= n /\ HeaderAt(j) /\ on \in Reached(j)
        BY <1>2, <1>4, <4>1, <4>2 DEF Chains, Awaited, n
      <4>4. j = n
        BY <1>2, <4>3
      <4> QED
        BY <1>4, <3>1, <4>3, <4>4 DEF Reached
    <3> QED
      BY <1>9, <3>2, <3>3, <3>4
  <2> QED
    BY <2>2, <2>3, <2>4
<1> QED
  BY <1>10, <1>11, <1>13, <1>14, <1>15, <1>17, <1>18 DEF Chains

-----------------------------------------------------------------------------
(* Together.                                                                *)

\* What resolving a clause does to the stack.
LEMMA ResolvedFrames ==
    ASSUME HeaderInv, HeaderResolve
    PROVE  /\ HeaderAt(Len(stack)) /\ stack[Len(stack)].got = NoType
           /\ Clause \in Types /\ Clause \in header'
           /\ Clause \in ToSet(prog.clause[stack[Len(stack)].on])
           /\ stack'[Len(stack)] = FrameAt("header", stack[Len(stack)].on,
                                           stack[Len(stack)].i, Clause)
           /\ \A k \in 1 .. Len(stack) : k # Len(stack) => stack'[k] = stack[k]
           /\ \/ UNCHANGED header /\ Len(stack') = Len(stack)
              \/ Begins(Clause)
<1> DEFINE n        == Len(stack)
           resolved == FrameAt("header", Top.on, Top.i, Clause)
           mid      == [stack EXCEPT ![n] = resolved]
<1>1. /\ Running("header") /\ Top.i <= Len(prog.clause[Top.on]) /\ Top.got = NoType
      /\ IF Clause \in header
         THEN Continue(resolved) /\ UNCHANGED header
         ELSE /\ Clause \notin header /\ header' = header \cup {Clause}
              /\ stack' = Append(mid, Frame("header", Clause))
  BY DEF HeaderResolve, Enter, marks
<1>2. /\ stack \in Seq(Frames) /\ n \in Nat /\ n \in 1 .. n /\ Top = stack[n]
      /\ Top.op = "header" /\ Clause \in Types /\ Clause \in ToSet(prog.clause[Top.on])
  BY <1>1, CurrentHeader
<1>3. /\ mid \in Seq(Frames \cup {resolved}) /\ Len(mid) = n /\ mid[n] = resolved
      /\ \A k \in 1 .. n : k # n => mid[k] = stack[k]
  <2> HIDE DEF resolved
  <2> QED
    BY <1>2
<1>4. \/ stack' = mid /\ UNCHANGED header /\ Clause \in header
      \/ /\ Clause \notin header /\ header' = header \cup {Clause}
         /\ stack' = Append(mid, Frame("header", Clause))
  BY <1>1 DEF Continue
<1> HIDE DEF mid, resolved
<1>5. /\ \A k \in 1 .. n : stack'[k] = mid[k]
      /\ Clause \in header'
      /\ \/ UNCHANGED header /\ Len(stack') = n
         \/ Begins(Clause)
  <2>1. CASE stack' = mid /\ UNCHANGED header /\ Clause \in header
    BY <1>3, <2>1
  <2>2. CASE /\ Clause \notin header /\ header' = header \cup {Clause}
             /\ stack' = Append(mid, Frame("header", Clause))
    <3>1. /\ Len(stack') = n + 1 /\ stack'[n + 1] = Frame("header", Clause)
          /\ \A k \in 1 .. n : stack'[k] = mid[k]
      BY <1>3, <2>2
    <3> QED
      BY <2>2, <3>1 DEF Begins
  <2> QED
    BY <1>4, <2>1, <2>2
<1>6. HeaderAt(n)
  BY <1>2 DEF HeaderAt
<1> QED
  BY <1>1, <1>2, <1>3, <1>5, <1>6 DEF resolved

LEMMA InitChains == Init => ClosuresBegun /\ Chains
<1> SUFFICES ASSUME Init PROVE ClosuresBegun /\ Chains
  OBVIOUS
<1>1. /\ stack = <<Frame("names", prog.root)>> /\ header = {} /\ circular = {}
      /\ supers = [t \in Types |-> {}] /\ closure = [t \in Types |-> {}]
  BY DEF Init
<1>2. /\ Len(stack) = 1 /\ stack[1].op = "names" /\ 1 .. Len(stack) = {1}
  BY <1>1 DEF Frame, FrameAt
<1>3. \A k : ~ HeaderAt(k)
  BY <1>2 DEF HeaderAt
<1>4. ClosuresBegun /\ Chained /\ HierarchyBegun /\ NamesBegun /\ CircularEnded
  BY <1>1, <1>2, <1>3 DEF ClosuresBegun, Chained, HierarchyBegun, NamesBegun, CircularEnded
<1>5. \A t \in Types : Classes(t) = {}
  BY <1>1 DEF Classes
<1>6. Kinds /\ OneChain /\ Awaited
  BY <1>3, <1>5 DEF Kinds, OneChain, Awaited
<1>7. ClosedChain
  <2>1. prog.class \subseteq Types
    BY ProgramsAssumption DEF Init, WellFormed, ProgramRecords
  <2> QED
    BY <1>5, <2>1 DEF ClosedChain
<1>8. Grounded
  BY <1>1 DEF Grounded
<1> QED
  BY <1>4, <1>6, <1>7, <1>8 DEF Chains

LEMMA ChainsStep ==
    ASSUME HeaderInv, HeaderInv', BatchInv, FlatInv, [Next]_vars
    PROVE  FlatInv'
<1>1. Flat' => Flat
  <2>1. prog' = prog
    <3>1. CASE UNCHANGED vars
      BY <3>1 DEF vars
    <3>2. CASE Next
      BY <3>2, StepKinds DEF Quiet, Pushes, Loads, Pops, Steps, Kept, EntersType,
         HeaderUnusable, HeaderResolve, HeaderRecord, HeaderDone
    <3> QED
      BY <3>1, <3>2
  <2> QED
    BY <2>1 DEF Flat, TopLevel
<1> SUFFICES ASSUME Flat PROVE ClosuresBegun' /\ Chains'
  BY <1>1 DEF FlatInv
<1>2. ClosuresBegun /\ Chains /\ HierarchyBegun /\ TypeOK'
  BY DEF FlatInv, Chains, HeaderInv
<1>3. /\ stack \in Seq(Frames) /\ Len(stack) \in Nat
  BY DEF HeaderInv, TypeOK
<1> DEFINE n == Len(stack)
\* The frames of other procedures are left alone.
<1>4. ASSUME header \subseteq header', HeaderAt(n) \/ stack = <<>>,
             \A k \in 1 .. n : k # n => stack'[k] = stack[k],
             n # 0 => stack'[n].op # "closure",
             \/ Len(stack') = n
             \/ Len(stack') = n + 1 /\ stack'[n + 1].op # "closure"
      PROVE  ClosuresBegun'
  <2>1. \A k \in 1 .. Len(stack') : k \in 1 .. n \/ k = n + 1
    BY <1>3, <1>4
  <2>2. \A k \in 1 .. n : stack[k].op = "closure" => stack[k].on \in header
    BY <1>2 DEF ClosuresBegun
  <2>3. \A k \in 1 .. n : n # 0
    BY <1>3
  <2>4. ~ (n + 1 \in 1 .. n)
    BY <1>3
  <2> HIDE DEF n
  <2> SUFFICES ASSUME NEW k \in 1 .. Len(stack'), stack'[k].op = "closure"
               PROVE  stack'[k].on \in header'
    BY DEF ClosuresBegun
  <2>5. CASE k \in 1 .. n
    BY <1>4, <2>2, <2>3, <2>5
  <2>6. CASE k \notin 1 .. n
    <3>1. k = n + 1
      BY <2>1, <2>6
    <3>2. Len(stack') # n
      BY <2>6
    <3> QED
      BY <1>4, <3>1, <3>2
  <2> QED
    BY <2>5, <2>6
<1>5. CASE Next
  <2>1. CASE Others /\ ClosuresBegun'
    <3>1. UNCHANGED <<prog, header, supers, closure, circular>>
      BY <2>1 DEF Others, Kept
    <3>2. \A k \in 1 .. n : HeaderAt(k) => GoesOn(k)
      <4> SUFFICES ASSUME NEW k \in 1 .. n, HeaderAt(k) PROVE GoesOn(k)
        OBVIOUS
      <4>1. k \in 1 .. Len(stack') /\ stack'[k] = stack[k] /\ stack[k].op = "header"
        BY <2>1 DEF Others, HeaderAt
      <4>2. stack[k].i \in Nat
        BY HeaderFrame
      <4>3. stack'[k].i >= stack[k].i
        BY <4>1, <4>2
      <4>4. HeaderAt(k)'
        BY <4>1 DEF HeaderAt
      <4> QED
        BY <4>1, <4>3, <4>4 DEF GoesOn
    <3>3. \A k : HeaderAt(k)' => HeaderAt(k)
      BY <2>1 DEF Others, HeaderAt
    <3> QED
      BY <1>2, <2>1, <3>1, <3>2, <3>3, WaitingKeepsChains
  <2>2. CASE stack = <<>> /\ \E t \in Types : EntersType(t)
    <3>1. PICK t \in Types : EntersType(t)
      BY <2>2
    <3>2. /\ n = 0 /\ 1 .. n = {} /\ UNCHANGED <<prog, supers, closure, circular>>
          /\ Begins(t) /\ header' = header \cup {t}
      BY <2>2, <3>1 DEF EntersType, Begins, Grown
    <3>3. Len(stack') = n + 1 /\ stack'[n + 1].op # "closure"
      BY <3>2 DEF Begins, Frame, FrameAt
    <3>4. ClosuresBegun'
      BY <1>4, <2>2, <3>2, <3>3
    <3>5. Chains'
      <4> HIDE DEF n
      <4> QED
        BY <1>2, <2>2, <3>1, <3>2, EntryKeepsChains DEF n
    <3> QED
      BY <3>4, <3>5
  <2>3. CASE HeaderUnusable
    <3>1. /\ UNCHANGED <<prog, header, supers, closure, circular>>
          /\ Running("header") /\ Advance /\ Top.got = NoType
      BY <2>3 DEF HeaderUnusable, marks
    <3>2. /\ n \in 1 .. n /\ Top = stack[n] /\ HeaderAt(n) /\ Top.i \in Nat
          /\ \A k : HeaderAt(k) => k \in 1 .. n
      BY <3>1, CurrentHeader DEF HeaderAt
    <3>3. /\ Len(stack') = n /\ stack'[n] = FrameAt("header", Top.on, Top.i + 1, NoType)
          /\ \A k \in 1 .. n : k # n => stack'[k] = stack[k]
      <4>1. Replaced(FrameAt("header", Top.on, Top.i + 1, NoType))
        BY <1>3, <3>1, Advanced
      <4>2. \A k \in 1 .. n : k # n => k \in 1 .. n - 1
        BY <1>3
      <4> QED
        BY <4>1, <4>2 DEF Replaced
    <3>4. /\ stack'[n].op = "header" /\ stack'[n].on = stack[n].on /\ stack'[n].got = NoType
          /\ stack[n].got = NoType /\ stack'[n].i = stack[n].i + 1 /\ stack[n].i \in Nat
      <4> HIDE DEF n
      <4> QED
        BY <3>1, <3>2, <3>3 DEF FrameAt
    <3>5. \A k : HeaderAt(k)' => HeaderAt(k)
      BY <3>2, <3>3 DEF HeaderAt
    <3>6. \A k \in 1 .. n : HeaderAt(k) => GoesOn(k)
      <4> SUFFICES ASSUME NEW k \in 1 .. n, HeaderAt(k) PROVE GoesOn(k)
        OBVIOUS
      <4>1. HeaderAt(k)'
        BY <3>2, <3>3, <3>4 DEF HeaderAt
      <4>2. stack[k].i \in Nat
        BY HeaderFrame
      <4> HIDE DEF n
      <4> QED
        BY <3>3, <3>4, <4>1, <4>2 DEF GoesOn
    <3>7. ClosuresBegun'
      BY <1>4, <3>1, <3>2, <3>3, <3>4
    <3> QED
      BY <1>2, <3>1, <3>5, <3>6, <3>7, WaitingKeepsChains
  <2>4. CASE HeaderResolve
    <3> DEFINE t == Clause
    <3>1. UNCHANGED <<prog, supers, closure, circular>>
      BY <2>4, Resolved
    <3>2. /\ HeaderAt(n) /\ stack[n].got = NoType /\ t \in Types /\ t \in header'
          /\ t \in ToSet(prog.clause[stack[n].on])
          /\ stack'[n] = FrameAt("header", stack[n].on, stack[n].i, t)
          /\ \A k \in 1 .. n : k # n => stack'[k] = stack[k]
          /\ \/ UNCHANGED header /\ Len(stack') = n
             \/ Begins(t)
      BY <2>4, ResolvedFrames
    <3> HIDE DEF t
    <3>3. /\ stack'[n].op = "header" /\ stack'[n].on = stack[n].on /\ stack'[n].got = t
          /\ stack'[n].i = stack[n].i /\ stack[n].i \in Nat
      <4>1. stack[n].i \in Nat
        BY <3>2, HeaderFrame
      <4> HIDE DEF n
      <4> QED
        BY <3>2, <4>1 DEF FrameAt
    <3>4. /\ n \in 1 .. n /\ n # 0 /\ stack # <<>>
          /\ Len(stack') = n \/ Len(stack') = n + 1
          /\ \A k \in 1 .. n : k \in 1 .. Len(stack')
      <4>1. n \in 1 .. n
        BY <3>2 DEF HeaderAt
      <4>2. Len(stack') = n \/ Len(stack') = n + 1
        BY <3>2 DEF Begins
      <4> QED
        BY <1>3, <4>1, <4>2
    <3>5. \A k \in 1 .. n : HeaderAt(k) => GoesOn(k)
      <4> SUFFICES ASSUME NEW k \in 1 .. n, HeaderAt(k) PROVE GoesOn(k)
        OBVIOUS
      <4>1. HeaderAt(k)'
        BY <3>2, <3>3, <3>4 DEF HeaderAt
      <4>2. stack[k].i \in Nat
        BY HeaderFrame
      <4> HIDE DEF n
      <4> QED
        BY <3>2, <3>3, <4>1, <4>2 DEF GoesOn
    <3>6. \A k \in 1 .. n : HeaderAt(k)' => HeaderAt(k)
      BY <3>2 DEF HeaderAt
    <3>7. CASE UNCHANGED header /\ Len(stack') = n
      <4>1. \A k : HeaderAt(k)' => HeaderAt(k)
        BY <3>6, <3>7 DEF HeaderAt
      <4>2. ClosuresBegun'
        BY <1>4, <3>2, <3>3, <3>7
      <4> QED
        BY <1>2, <3>1, <3>5, <3>7, <4>1, <4>2, WaitingKeepsChains
    <3>8. CASE Begins(t)
      <4>1. header \subseteq header' /\ Len(stack') = n + 1 /\ stack'[n + 1].op # "closure"
        BY <3>8 DEF Begins, Frame, FrameAt
      <4>2. ClosuresBegun'
        BY <1>4, <3>2, <3>3, <4>1
      <4> QED
        BY <1>2, <3>1, <3>2, <3>3, <3>5, <3>6, <3>8, <4>2, EntryKeepsChains
    <3> QED
      BY <3>2, <3>7, <3>8
  <2>5. CASE HeaderRecord
    <3>1. UNCHANGED header /\ Running("header") /\ Advance
      BY <2>5 DEF HeaderRecord
    <3>2. HeaderAt(n)
      BY <3>1, CurrentHeader DEF HeaderAt
    <3>3. /\ Len(stack') = n /\ stack'[n] = FrameAt("header", Top.on, Top.i + 1, NoType)
          /\ \A k \in 1 .. n : k # n => stack'[k] = stack[k]
      <4>1. Replaced(FrameAt("header", Top.on, Top.i + 1, NoType))
        BY <1>3, <3>1, Advanced
      <4>2. \A k \in 1 .. n : k # n => k \in 1 .. n - 1
        BY <1>3
      <4> QED
        BY <4>1, <4>2 DEF Replaced
    <3>4. stack'[n].op # "closure"
      <4> HIDE DEF n
      <4> QED
        BY <3>3 DEF FrameAt
    <3> QED
      BY <1>2, <1>4, <2>5, <3>1, <3>2, <3>3, <3>4, RecordKeepsChains
  <2>6. CASE HeaderDone
    <3>1. UNCHANGED header /\ Running("header") /\ Continue(Frame("nested", Top.on))
      BY <2>6 DEF HeaderDone, Become
    <3>2. HeaderAt(n) /\ Top.on \in Types
      BY <3>1, CurrentHeader DEF HeaderAt
    <3>3. /\ Len(stack') = n /\ stack'[n] = Frame("nested", Top.on)
          /\ \A k \in 1 .. n : k # n => stack'[k] = stack[k]
      <4>1. Frame("nested", Top.on) \in Frames
        BY <3>2 DEF Frame, FrameAt, Frames, Procedures
      <4>2. Replaced(Frame("nested", Top.on))
        BY <1>3, <3>1, <4>1, TopFrame, Stepped
      <4>3. \A k \in 1 .. n : k # n => k \in 1 .. n - 1
        BY <1>3
      <4> QED
        BY <4>2, <4>3 DEF Replaced
    <3>4. stack'[n].op # "closure"
      <4> HIDE DEF n
      <4> QED
        BY <3>3 DEF Frame, FrameAt
    <3> QED
      BY <1>2, <1>4, <2>6, <3>1, <3>2, <3>3, <3>4, DoneKeepsChains
  <2> QED
    BY <1>2, <1>5, <2>1, <2>2, <2>3, <2>4, <2>5, <2>6, FlatSteps
<1>6. CASE UNCHANGED vars
  <2>1. UNCHANGED <<prog, header, supers, closure, circular, stack>>
    BY <1>6 DEF vars, source, marks
  <2>2. \A k : HeaderAt(k)' => HeaderAt(k)
    BY <2>1 DEF HeaderAt
  <2>3. \A k \in 1 .. n : HeaderAt(k) => GoesOn(k)
    <3> SUFFICES ASSUME NEW k \in 1 .. n, HeaderAt(k) PROVE GoesOn(k)
      OBVIOUS
    <3>1. stack[k].i \in Nat
      BY HeaderFrame
    <3> QED
      BY <2>1, <3>1 DEF GoesOn, HeaderAt
  <2>4. ClosuresBegun'
    BY <1>2, <2>1 DEF ClosuresBegun
  <2> QED
    BY <1>2, <2>1, <2>2, <2>3, <2>4, WaitingKeepsChains
<1> QED
  BY <1>5, <1>6

\* The third part of the invariant, on top of the other two.
THEOREM ChainsInvariant == Spec => [](HeaderInv /\ BatchInv /\ FlatInv)
<1>1. Init => HeaderInv /\ BatchInv /\ FlatInv
  BY InitHeader, InitBatch, InitChains DEF FlatInv
<1>2. HeaderInv /\ BatchInv /\ FlatInv /\ [Next]_vars => HeaderInv' /\ BatchInv' /\ FlatInv'
  BY HeaderStep, BatchStep, ChainsStep
<1> QED
  BY <1>1, <1>2, PTL DEF Spec

\* Without member types no cycle is left in the recorded hierarchy, whatever
\* cycles the source has and in whatever order its files and headers are reached.
THEOREM FlatHierarchyIsAcyclic == Spec => [](Flat => HierarchyAcyclic)
<1>1. HeaderInv /\ FlatInv => (Flat => HierarchyAcyclic)
  <2> SUFFICES ASSUME HeaderInv, FlatInv, Flat, ~ HeaderInProgress,
                      NEW S \in (SUBSET Types) \ {{}}
               PROVE  \E t \in S : supers[t] \cap S = {}
    BY DEF HierarchyAcyclic
  <2>1. \A t \in S : ~ InProgress(t)
    BY DEF HeaderInProgress, InProgress
  <2> QED
    BY <2>1 DEF FlatInv, Chains, Grounded
<1> QED
  BY <1>1, ChainsInvariant, PTL
=============================================================================
