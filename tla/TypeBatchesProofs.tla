-------------------------- MODULE TypeBatchesProofs --------------------------
(***************************************************************************)
(* Proofs about the batches of the module TypeHeaders: the types of new    *)
(* files are queued, sorted and declared, whatever is read meanwhile.      *)
(***************************************************************************)
EXTENDS TypeHeadersProofs

-----------------------------------------------------------------------------
(* Sequences as lists of distinct types.                                    *)

\* The elements of a sequence one longer.
LEMMA AppendedSet ==
    ASSUME NEW S, NEW s \in Seq(S), NEW e \in S
    PROVE  /\ Append(s, e) \in Seq(S) /\ Len(Append(s, e)) = Len(s) + 1
           /\ ToSet(Append(s, e)) = ToSet(s) \cup {e}
           /\ \A k \in 1 .. Len(s) : Append(s, e)[k] = s[k]
           /\ Append(s, e)[Len(s) + 1] = e
           /\ IsInjective(s) /\ e \notin ToSet(s) => IsInjective(Append(s, e))
<1> DEFINE n == Len(s)
           a == Append(s, e)
<1>1. /\ n \in Nat /\ a \in Seq(S) /\ Len(a) = n + 1 /\ DOMAIN s = 1 .. n
      /\ DOMAIN a = 1 .. (n + 1)
      /\ \A k \in 1 .. n : a[k] = s[k]
      /\ a[n + 1] = e
  OBVIOUS
<1> HIDE DEF n, a
<1>2. 1 .. (n + 1) = (1 .. n) \cup {n + 1}
  BY <1>1
<1>3. ToSet(a) = ToSet(s) \cup {e}
  BY <1>1, <1>2 DEF ToSet
<1>4. IsInjective(s) /\ e \notin ToSet(s) => IsInjective(a)
  BY <1>1, <1>2 DEF IsInjective, ToSet
<1> QED
  BY <1>1, <1>3, <1>4 DEF n, a

\* The elements of a sequence without its first.
LEMMA TailSet ==
    ASSUME NEW S, NEW s \in Seq(S), s # <<>>, IsInjective(s)
    PROVE  /\ Tail(s) \in Seq(S) /\ Head(s) = s[1] /\ Head(s) \in S
           /\ Len(s) \in Nat /\ Len(s) > 0 /\ Len(Tail(s)) = Len(s) - 1
           /\ \A k \in 1 .. Len(Tail(s)) : Tail(s)[k] = s[k + 1]
           /\ ToSet(s) = ToSet(Tail(s)) \cup {Head(s)} /\ Head(s) \notin ToSet(Tail(s))
           /\ IsInjective(Tail(s))
<1> DEFINE n == Len(s) - 1
           r == Tail(s)
<1>1. /\ n \in Nat /\ Len(s) = n + 1 /\ r \in Seq(S) /\ Len(r) = n /\ DOMAIN r = 1 .. n
      /\ DOMAIN s = 1 .. (n + 1) /\ Head(s) = s[1] /\ s[1] \in S
      /\ \A k \in 1 .. n : r[k] = s[k + 1]
  OBVIOUS
<1> HIDE DEF n, r
<1>2. \A k \in 1 .. (n + 1) : k = 1 \/ (k - 1 \in 1 .. n /\ s[k] = r[k - 1])
  <2> SUFFICES ASSUME NEW k \in 1 .. (n + 1), k # 1
               PROVE  k - 1 \in 1 .. n /\ s[k] = r[k - 1]
    OBVIOUS
  <2>1. k - 1 \in 1 .. n /\ (k - 1) + 1 = k
    BY <1>1
  <2> QED
    BY <1>1, <2>1
<1>3. \A k \in 1 .. n : k + 1 \in 1 .. (n + 1) /\ k + 1 # 1
  BY <1>1
<1>4. 1 \in 1 .. (n + 1)
  BY <1>1
<1>5. ToSet(s) = ToSet(r) \cup {s[1]}
  <2>1. ToSet(s) = {s[k] : k \in 1 .. (n + 1)} /\ ToSet(r) = {r[k] : k \in 1 .. n}
    BY <1>1 DEF ToSet
  <2>2. \A k \in 1 .. n : r[k] \in ToSet(s)
    BY <1>1, <1>3, <2>1
  <2>3. \A k \in 1 .. (n + 1) : s[k] \in ToSet(r) \cup {s[1]}
    BY <1>2, <2>1
  <2> QED
    BY <1>4, <2>1, <2>2, <2>3
<1>6. \A j, k \in 1 .. (n + 1) : s[j] = s[k] => j = k
  BY <1>1 DEF IsInjective
<1>7. s[1] \notin ToSet(r)
  BY <1>1, <1>3, <1>4, <1>6 DEF ToSet
<1>8. IsInjective(r)
  <2> SUFFICES ASSUME NEW j \in 1 .. n, NEW k \in 1 .. n, r[j] = r[k]
               PROVE  j = k
    BY <1>1 DEF IsInjective
  <2>1. j + 1 = k + 1
    BY <1>1, <1>3, <1>6
  <2> QED
    BY <2>1
<1> QED
  BY <1>1, <1>5, <1>7, <1>8 DEF n, r
-----------------------------------------------------------------------------
(***************************************************************************)
(* The inductive invariant, second part: the batches.                      *)
(***************************************************************************)

Reading == {"names", "closure", "header", "nested"}

\* Which procedures may be active in a phase; those of members are below all
\* that they call.
Shape ==
    /\ phase \in {"order", "done"} => stack = <<>>
    /\ \A k \in 1 .. Len(stack) :
          /\ phase \in {"names", "headers"} => stack[k].op \in Reading
          /\ phase = "sort" => stack[k].op = "sort"
          /\ phase = "members" => stack[k].op \in Reading \cup {"members"}
          /\ stack[k].op = "members" => \A j \in 1 .. k - 1 : stack[j].op = "members"

Queued    == todo \cup collection \cup ToSet(order)
Listed(t) == \E k \in 1 .. start : tuple[k] = File(t)

\* The files are listed once, in the order they were read; the top-level types
\* of those that were listed are queued or have gone on to their bodies.
Batches ==
    phase # "done" =>
        /\ ToSet(tuple) = loaded /\ IsInjective(tuple) /\ start <= Len(tuple)
        /\ \A t \in Queued \cup ToSet(bodyWork) : TopLevel(t) /\ Listed(t)
        /\ \A t \in Types : TopLevel(t) /\ Listed(t) => t \in Queued \cup ToSet(bodyWork)
        /\ Queued \cap ToSet(bodyWork) = {}

Queues ==
    /\ phase # "headers" => todo = {}
    /\ phase \in {"names", "order", "headers"} => order = <<>>
    /\ phase # "sort" => pending = {}
    /\ phase = "sort" => /\ start = Len(tuple) /\ pending \subseteq collection
                         /\ pending = ToSet(order) \cup {stack[k].on : k \in 1 .. Len(stack)}
    /\ phase \in {"members", "done"} => collection = {}
    /\ IsInjective(order) /\ IsInjective(bodyWork)

\* What TopologicalSort has in hand: each frame is for a type above the one below.
Sorting ==
    phase = "sort" =>
        /\ \A k \in 1 .. Len(stack) : stack[k].on \notin ToSet(order)
        /\ \A j, k \in 1 .. Len(stack) : j < k => /\ stack[j].on # stack[k].on
                                                 /\ stack[k].on \in Above(stack[j].on)

\* Supertypes come first.
Sorted ==
    \A k \in 1 .. Len(order) :
        ~ OnSourceCycle(order[k]) =>
            \A s \in supers[order[k]] :
                Head(Path(s)) \in ToSet(bodyWork) \cup {order[j] : j \in 1 .. k - 1}

\* The headers of the types in all these lists are done; in collection they may
\* be in progress until the sorting begins.
Headed ==
    /\ collection \subseteq header
    /\ \A t \in ToSet(order) \cup ToSet(bodyWork) \cup declared : t \in header /\ ~ InProgress(t)
    /\ \A k \in 1 .. Len(stack) :
          stack[k].op = "members" => stack[k].on \in header /\ ~ InProgress(stack[k].on)

\* A type whose members are not declared yet is waiting or innermost.
Members ==
    /\ \A t \in ToSet(bodyWork) : t \in declared \/ \E k \in 1 .. Len(stack) :
                                      stack[k].op = "members" /\ stack[k].on = t
    /\ \A t \in declared : Nested(t) \subseteq declared \/ \E k \in 1 .. Len(stack) :
                                      stack[k].op = "members" /\ stack[k].on = t
    /\ \A t \in declared : TopLevel(t) => t \in ToSet(bodyWork)
    /\ \A k \in 1 .. Len(stack) :
          stack[k].op = "members" =>
              /\ stack[k].on \in declared <=> stack[k].i > Len(prog.member[stack[k].on]) + 1
              /\ \A j \in 1 .. k - 1 : stack[j].on \in declared /\ stack[j].on # stack[k].on
              /\ TopLevel(stack[k].on) => stack[k].on \in ToSet(bodyWork)

\* In the end nothing is left out.
AllDone ==
    phase = "done" =>
        \A t \in Types : File(t) \in loaded =>
            t \in declared /\ (TopLevel(t) => t \in ToSet(bodyWork))

BatchInv == Shape /\ Batches /\ Queues /\ Sorting /\ Sorted /\ Headed /\ Members
                /\ MembersAfterSupers /\ AllDone

-----------------------------------------------------------------------------
(* The steps that read on, and what no step disturbs.                       *)

\* A header that has been processed stays what it is.
LEMMA SettledStep ==
    ASSUME HeaderInv, [Next]_vars, NEW t \in header, ~ InProgress(t)
    PROVE  /\ t \in header' /\ ~ InProgress(t)'
           /\ supers'[t] = supers[t] /\ (t \in circular' => t \in circular)
<1>1. HeaderInv'
  BY HeaderStep
<1>2. stack \in Seq(Frames) /\ stack' \in Seq(Frames) /\ t \in Types
  BY <1>1 DEF HeaderInv, TypeOK
<1>3. DOMAIN stack = 1 .. Len(stack) /\ DOMAIN stack' = 1 .. Len(stack') /\ Len(stack) \in Nat
  BY <1>2
<1> DEFINE n == Len(stack)
<1>4. ASSUME Others
      PROVE  UNCHANGED <<header, supers, circular>> /\ ~ InProgress(t)'
  BY <1>3, <1>4 DEF Others, Kept, InProgress
<1>5. ASSUME NEW u \in Types, EntersType(u)
      PROVE  t \in header' /\ UNCHANGED <<supers, circular>> /\ ~ InProgress(t)'
  <2>1. /\ u \notin header /\ header' = header \cup {u} /\ Len(stack') = n + 1
        /\ stack'[n + 1] = Frame("header", u) /\ \A k \in 1 .. n : stack'[k] = stack[k]
        /\ UNCHANGED <<supers, circular>>
    BY <1>5 DEF EntersType, Grown
  <2> HIDE DEF n
  <2>2. \A k \in 1 .. Len(stack') : k \in 1 .. n \/ k = n + 1
    BY <1>3, <2>1 DEF n
  <2> QED
    BY <1>3, <2>1, <2>2 DEF InProgress, Frame, FrameAt, n
<1>6. ASSUME HeaderUnusable \/ HeaderResolve \/ HeaderRecord \/ HeaderDone
      PROVE  /\ t \in header' /\ ~ InProgress(t)'
             /\ supers'[t] = supers[t] /\ (t \in circular' => t \in circular)
  <2>1. Running("header")
    BY <1>6 DEF HeaderUnusable, HeaderResolve, HeaderRecord, HeaderDone
  <2>2. /\ Top = stack[n] /\ n \in 1 .. n /\ n \in Nat /\ Top.op = "header" /\ Top.on \in Types
        /\ Top.i <= Len(prog.clause[Top.on]) => Clause \in Types
        /\ Top.i \in Nat \ {0}
    BY <2>1, CurrentHeader
  <2>3. t # Top.on
    BY <1>3, <2>2 DEF InProgress
  <2>4. /\ supers \in [Types -> SUBSET Types]
    BY DEF HeaderInv, TypeOK
  <2>5. supers'[t] = supers[t] /\ (t \in circular' => t \in circular)
    <3> DEFINE on == Top.on
    <3>1. CASE HeaderUnusable \/ HeaderResolve
      BY <3>1 DEF HeaderUnusable, HeaderResolve, marks, Enter
    <3>2. CASE HeaderRecord
      <4>1. /\ circular' = circular
            /\ \/ supers' = supers
               \/ supers' = [supers EXCEPT ![on] = @ \cup {Top.got}]
        BY <3>2 DEF HeaderRecord
      <4> HIDE DEF on
      <4> QED
        BY <1>2, <2>3, <2>4, <4>1 DEF on
    <3>3. CASE HeaderDone
      <4>1. /\ circular' \subseteq circular \cup {on}
            /\ supers' = supers \/ supers' = [supers EXCEPT ![on] = {}]
        BY <3>3 DEF HeaderDone
      <4> HIDE DEF on
      <4> QED
        BY <1>2, <2>3, <2>4, <4>1 DEF on
    <3> QED
      BY <1>6, <3>1, <3>2, <3>3
  <2>6. t \in header'
    BY <1>6 DEF HeaderUnusable, HeaderResolve, HeaderRecord, HeaderDone, marks, Enter
  <2>7. ASSUME NEW frame, Continue(frame), frame.on = Top.on
        PROVE  ~ InProgress(t)'
    <3>1. DOMAIN stack' = 1 .. n /\ stack'[n] = frame /\ \A k \in 1 .. n : k # n => stack'[k] = stack[k]
      BY <1>2, <2>2, <2>7 DEF Continue
    <3> HIDE DEF n
    <3> QED
      BY <1>3, <2>3, <2>7, <3>1 DEF InProgress, n
  <2>8. CASE HeaderUnusable \/ HeaderRecord
    <3> DEFINE frame == FrameAt(Top.op, Top.on, Top.i + 1, NoType)
    <3>1. Continue(frame) /\ frame.on = Top.on
      BY <2>8 DEF HeaderUnusable, HeaderRecord, Advance, FrameAt
    <3> HIDE DEF frame
    <3> QED
      BY <2>5, <2>6, <2>7, <3>1
  <2>9. CASE HeaderDone
    <3> DEFINE frame == Frame("nested", Top.on)
    <3>1. Continue(frame) /\ frame.on = Top.on
      BY <2>9 DEF HeaderDone, Become, Frame, FrameAt
    <3> HIDE DEF frame
    <3> QED
      BY <2>5, <2>6, <2>7, <3>1
  <2>10. CASE HeaderResolve
    <3>1. /\ \A k \in 1 .. n : stack'[k].op = stack[k].op /\ stack'[k].on = stack[k].on
          /\ Len(stack') = n \/ \E u \in Types : Begins(u)
      BY <2>10, Resolved DEF SameCall
    <3>2. \A k \in 1 .. n : stack'[k].op = "header" => stack'[k].on # t
      BY <1>3, <3>1 DEF InProgress
    <3>3. CASE Len(stack') = n
      BY <1>3, <2>5, <2>6, <3>2, <3>3 DEF InProgress
    <3>4. CASE \E u \in Types : Begins(u)
      <4>1. PICK u \in Types : Begins(u)
        BY <3>4
      <4>2. /\ u # t /\ Len(stack') = n + 1 /\ stack'[n + 1].on = u
        BY <4>1 DEF Begins, Frame, FrameAt
      <4> HIDE DEF n
      <4>3. \A k \in 1 .. Len(stack') : k \in 1 .. n \/ k = n + 1
        BY <2>2, <4>2
      <4> QED
        BY <1>3, <2>5, <2>6, <3>2, <4>2, <4>3 DEF InProgress
    <3> QED
      BY <3>1, <3>3, <3>4
  <2> QED
    BY <1>6, <2>8, <2>9, <2>10
<1>7. CASE Next
  BY <1>1, <1>4, <1>5, <1>6, <1>7, StepKinds, OtherProcedures DEF HeaderInv
<1>8. CASE UNCHANGED vars
  BY <1>8 DEF vars, marks, InProgress
<1> QED
  BY <1>7, <1>8

\* A step of a procedure that reads: the calls of ProcessMembers stay, but for
\* the next member, the queues too, and at most one file is read.
SameMembers(k) ==
    /\ stack[k].op = "members" /\ stack'[k].op = "members" /\ stack'[k].on = stack[k].on
    /\ \/ stack'[k].i = stack[k].i
       \/ stack[k].i <= Len(prog.member[stack[k].on]) /\ stack'[k].i = stack[k].i + 1

StackReads ==
    /\ \A k \in 1 .. Len(stack) :
          stack[k].op = "members" => k \in 1 .. Len(stack') /\ SameMembers(k)
    /\ \A k \in 1 .. Len(stack') :
          stack'[k].op \in Reading \/ (k \in 1 .. Len(stack) /\ SameMembers(k))

MayLoad ==
    \/ UNCHANGED <<loaded, tuple>>
    \/ \E f \in Files \ loaded : loaded' = loaded \cup {f} /\ tuple' = Append(tuple, f)

ReadingStep ==
    /\ UNCHANGED <<prog, phase, sorting>> /\ stack # <<>> /\ phase \notin {"order", "sort", "done"}
    /\ MayLoad /\ StackReads

LEMMA StackReadsOn ==
    ASSUME HeaderInv, Shape, stack # <<>>, Top.op \in Reading \cup {"members"}, NEW frame,
           \/ Grown(frame) /\ frame.op \in Reading
           \/ Top.op \in Reading /\ Shrunk
           \/ Top.op \in Reading /\ Replaced(frame) /\ frame.op \in Reading
           \/ /\ Top.op = "members" /\ Top.i <= Len(prog.member[Top.on])
              /\ Replaced(FrameAt("members", Top.on, Top.i + 1, NoType))
    PROVE  phase \notin {"order", "sort", "done"} /\ StackReads
<1> DEFINE n == Len(stack)
           m == Len(stack')
<1>0. /\ stack \in Seq(Frames)
      /\ phase \in {"names", "order", "headers", "sort", "members", "done"}
  BY DEF HeaderInv, TypeOK
<1>1. n \in Nat /\ n > 0 /\ Top = stack[n] /\ n \in 1 .. n
  <2>1. n \in Nat /\ n > 0 /\ Top = stack[n]
    BY <1>0 DEF Top, Last
  <2> HIDE DEF n
  <2> QED
    BY <2>1
<1>2. phase \in {"order", "done"} => stack = <<>>
  BY DEF Shape
<1>3. phase = "sort" => stack[n].op = "sort"
  BY <1>1 DEF Shape
<1>4. phase \in {"names", "headers", "members"}
  BY <1>0, <1>1, <1>2, <1>3 DEF Reading
<1>5. \A k \in 1 .. n : stack[k].op \in Reading \cup {"members"}
  BY <1>4 DEF Shape
<1>6. \A k \in 1 .. n : stack'[k] = stack[k] =>
          stack'[k].op \in Reading \/ SameMembers(k)
  BY <1>5 DEF SameMembers
<1>7. CASE Grown(frame) /\ frame.op \in Reading
  <2>1. /\ m = n + 1 /\ stack'[n + 1] = frame
        /\ \A k \in 1 .. n : stack'[k] = stack[k]
    BY <1>7 DEF Grown
  <2> HIDE DEF n, m
  <2>2. /\ \A k \in 1 .. n : k \in 1 .. m
        /\ \A k \in 1 .. m : k \in 1 .. n \/ k = n + 1
    BY <1>1, <2>1
  <2> QED
    BY <1>4, <1>6, <1>7, <2>1, <2>2 DEF StackReads, SameMembers, n, m
<1>8. CASE Top.op \in Reading /\ Shrunk
  <2>1. m = n - 1 /\ \A k \in 1 .. n - 1 : stack'[k] = stack[k]
    BY <1>8 DEF Shrunk
  <2> HIDE DEF n, m
  <2>2. /\ \A k \in 1 .. n : k \in 1 .. m \/ k = n
        /\ \A k \in 1 .. m : k \in 1 .. n /\ k \in 1 .. n - 1
    BY <1>1, <2>1
  <2>3. stack[n].op # "members"
    BY <1>1, <1>8 DEF Reading
  <2> QED
    BY <1>4, <1>6, <2>1, <2>2, <2>3 DEF StackReads, SameMembers, n, m
<1>9. ASSUME NEW new, Replaced(new), new.op \in Reading \cup {"members"},
             new.op = "members" => SameMembers(n), new.op # "members" => Top.op \in Reading
      PROVE  StackReads
  <2>1. m = n /\ stack'[n] = new /\ \A k \in 1 .. n - 1 : stack'[k] = stack[k]
    BY <1>9 DEF Replaced
  <2> HIDE DEF n, m
  <2>2. \A k \in 1 .. n : k \in 1 .. n - 1 \/ k = n
    BY <1>1, <2>1
  <2>3. new.op # "members" => stack[n].op # "members"
    BY <1>1, <1>9 DEF Reading
  <2> QED
    BY <1>1, <1>6, <1>9, <2>1, <2>2, <2>3 DEF StackReads, SameMembers, n, m
<1>10. CASE Top.op \in Reading /\ Replaced(frame) /\ frame.op \in Reading
  BY <1>4, <1>9, <1>10 DEF Reading
<1>11. CASE /\ Top.op = "members" /\ Top.i <= Len(prog.member[Top.on])
            /\ Replaced(FrameAt("members", Top.on, Top.i + 1, NoType))
  <2> DEFINE new == FrameAt("members", Top.on, Top.i + 1, NoType)
  <2>1. new.op = "members" /\ new.on = Top.on /\ new.i = Top.i + 1
    BY DEF FrameAt
  <2> HIDE DEF new
  <2>2. Replaced(new)
    BY <1>11 DEF new
  <2>3. SameMembers(n)
    BY <1>1, <1>11, <2>1, <2>2 DEF SameMembers, Replaced
  <2> HIDE DEF n
  <2> QED
    BY <1>4, <1>9, <2>1, <2>2, <2>3
<1> QED
  BY <1>7, <1>8, <1>10, <1>11

LEMMA ReadingSteps ==
    ASSUME HeaderInv, Shape,
           ImportStep \/ ImportsDone \/ ClosureNext \/ HeaderNext \/ MemberStep
    PROVE  ReadingStep
<1>1. /\ prog \in Programs /\ TypeOK /\ stack \in Seq(Frames)
  BY DEF HeaderInv, TypeOK
<1>2. \A op \in Procedures, c \in Types : Frame(op, c) \in Frames
  BY DEF Frame, FrameAt, Frames
<1>3. \A f \in Files : Frame("names", f) \in Frames
  BY DEF Frame, FrameAt, Frames
<1> DEFINE OnTop == stack # <<>> /\ Top.op \in Reading \cup {"members"}
           Effect == phase \notin {"order", "sort", "done"} /\ StackReads
           Goal   == UNCHANGED <<prog, phase, sorting>> /\ OnTop /\ Effect /\ MayLoad
<1>4. ASSUME OnTop, NEW f \in Files \cup Types, NEW op \in {"names", "closure", "header"},
             Frame(op, f) \in Frames, Call(Frame(op, f))
      PROVE  Effect
  <2>1. Grown(Frame(op, f)) /\ Frame(op, f).op \in Reading
    BY <1>1, <1>4, Called DEF Frame, FrameAt, Reading
  <2> QED
    BY <1>4, <2>1, StackReadsOn
<1>5. ASSUME OnTop, NEW enclosing \in Seq(Types), NEW u \in Types, Find(enclosing, u)
      PROVE  Effect /\ MayLoad
  <2>1. ASSUME NEW f \in Files, Reads(f) PROVE Effect /\ MayLoad
    BY <1>3, <1>4, <1>5, <2>1 DEF Reads, LoadFile, MayLoad
  <2>2. ASSUME NEW c \in Types, Asks(c) PROVE Effect /\ MayLoad
    BY <1>2, <1>4, <1>5, <2>2 DEF Asks, MayLoad, source, Procedures
  <2> QED
    BY <1>1, <1>5, <2>1, <2>2, FindEffect
<1>6. ASSUME NEW op \in Reading, Running(op), Advance
      PROVE  OnTop /\ Effect
  <2>1. OnTop /\ Top.op \in Reading
    BY <1>1, <1>6, TopFrame
  <2> DEFINE frame == FrameAt(op, Top.on, Top.i + 1, NoType)
  <2>2. Replaced(frame) /\ frame.op \in Reading
    BY <1>1, <1>6, Advanced DEF FrameAt
  <2> HIDE DEF frame
  <2> QED
    BY <2>1, <2>2, StackReadsOn
<1>7. ASSUME NEW op \in Reading, Running(op), Return
      PROVE  OnTop /\ Effect
  <2>1. OnTop /\ Top.op \in Reading /\ Shrunk
    BY <1>1, <1>7, TopFrame, Returned
  <2> QED
    BY <2>1, StackReadsOn
<1>8. ASSUME NEW op \in Reading \cup {"members"}, Running(op)
      PROVE  OnTop
  BY <1>1, <1>8, TopFrame
<1> HIDE DEF OnTop, Effect
<1> USE DEF Reading, source
<1>9. ASSUME ImportStep
       PROVE  Goal
  <2>1. Import \in Types /\ <<>> \in Seq(Types)
    BY <1>1, <1>9, TopFrame, ProgramFacts DEF ImportStep, Import
  <2>2. Running("names") /\ OnTop
    BY <1>8, <1>9 DEF ImportStep
  <2>3. Find(<<>>, Import) \/ (Advance /\ UNCHANGED <<source, marks, table>>)
    BY <1>9 DEF ImportStep
  <2>4. Effect /\ MayLoad
    BY <1>5, <1>6, <2>1, <2>2, <2>3 DEF MayLoad
  <2> QED
    BY <1>9, <2>2, <2>4 DEF ImportStep
<1>10. ASSUME ImportsDone
       PROVE  Goal
  BY <1>7, <1>10 DEF ImportsDone, MayLoad
<1>11. ASSUME ClosureNext
       PROVE  Goal
  <2>1. /\ Running("closure") /\ UNCHANGED <<prog, phase, sorting>> /\ MayLoad
    BY <1>11 DEF ClosureNext, ClosureHeader, ClosureSkip, ClosureTable, ClosureSupertype,
                 ClosureDone, MayLoad
  <2>2. OnTop
    BY <1>8, <2>1
  <2>3. CASE ClosureHeader
    <3>1. Top.on \in Types /\ Call(Frame("header", Top.on))
      BY <1>1, <2>3, TopFrame DEF ClosureHeader, CallHeader
    <3> QED
      BY <1>2, <1>4, <2>1, <2>2, <3>1 DEF Procedures
  <2>4. CASE ClosureSupertype
    <3>1. PICK s \in Types : Call(Frame("closure", s))
      BY <1>1, <2>4, TopFrame DEF ClosureSupertype, TypeOK
    <3> QED
      BY <1>2, <1>4, <2>1, <2>2, <3>1 DEF Procedures
  <2> QED
    BY <1>6, <1>7, <1>11, <2>1, <2>2, <2>3, <2>4
       DEF ClosureNext, ClosureSkip, ClosureTable, ClosureDone
<1>12. ASSUME HeaderNext
       PROVE  Goal
  <2>1. CASE HeaderFind
    <3>1. EnclosingTypes(File(Top.on)) \in Seq(Types) /\ Clause \in Types /\ OnTop
      BY <1>1, <1>8, <2>1, EnclosingType, CurrentHeader DEF HeaderFind
    <3> QED
      BY <1>5, <2>1, <3>1 DEF HeaderFind
  <2>2. CASE HeaderUnusable \/ HeaderRecord
    BY <1>6, <2>2 DEF HeaderUnusable, HeaderRecord, MayLoad
  <2>3. CASE HeaderResolve
    <3>1. OnTop /\ Running("header") /\ UNCHANGED <<prog, phase, sorting>> /\ MayLoad
      BY <1>8, <2>3 DEF HeaderResolve, MayLoad
    <3> DEFINE n == Len(stack)
    <3>2. /\ n \in Nat /\ n \in 1 .. n /\ Top = stack[n] /\ Top.op = "header"
      BY <3>1, CurrentHeader
    <3>3. \A k \in 1 .. n : SameCall(k)
      BY <2>3, Resolved
    <3>4. phase \notin {"order", "sort", "done"}
      BY <3>1, <3>2 DEF Shape, OnTop
    <3>5. /\ \A k \in 1 .. n : k \in 1 .. Len(stack')
          /\ \A k \in 1 .. Len(stack') : k \in 1 .. n \/ stack'[k].op = "header"
      <4>1. \/ Len(stack') = n
            \/ Len(stack') = n + 1 /\ stack'[n + 1].op = "header"
        <5>1. CASE Len(stack') = n
          BY <5>1
        <5>2. CASE \E t \in Types : Begins(t)
          BY <5>2 DEF Begins, Frame, FrameAt
        <5> QED
          BY <2>3, <5>1, <5>2, Resolved
      <4> HIDE DEF n
      <4> QED
        BY <3>2, <4>1
    <3>6. \A k \in 1 .. n : stack[k].op \in Reading \cup {"members"}
      BY <1>1, <3>4 DEF Shape, TypeOK
    <3> HIDE DEF n
    <3>7. StackReads
      BY <3>3, <3>5, <3>6 DEF StackReads, SameCall, SameMembers, n
    <3> QED
      BY <3>1, <3>4, <3>7 DEF Effect
  <2>4. CASE HeaderDone
    <3>1. /\ OnTop /\ Running("header") /\ UNCHANGED <<prog, phase, sorting>> /\ MayLoad
          /\ Continue(Frame("nested", Top.on))
      BY <1>8, <2>4 DEF HeaderDone, MayLoad, Become
    <3> DEFINE frame == Frame("nested", Top.on)
    <3>2. frame \in Frames /\ frame.op \in Reading /\ Top.op \in Reading
      BY <1>1, <1>2, <3>1, TopFrame DEF Frame, FrameAt, Procedures
    <3>3. Replaced(frame)
      BY <1>1, <3>1, <3>2, Stepped DEF OnTop
    <3> HIDE DEF frame
    <3>4. Effect
      BY <3>1, <3>2, <3>3, StackReadsOn DEF Effect, OnTop
    <3> QED
      BY <3>1, <3>4
  <2>5. CASE NestedHeader
    <3>1. /\ OnTop /\ UNCHANGED <<prog, phase, sorting>> /\ MayLoad
      BY <1>8, <2>5 DEF NestedHeader, MayLoad
    <3>2. PICK c \in Types : Call(Frame("header", c))
      BY <2>5 DEF NestedHeader, Nested, CallHeader
    <3> QED
      BY <1>2, <1>4, <3>1, <3>2 DEF Procedures
  <2>6. CASE NestedDone
    BY <1>7, <2>6 DEF NestedDone, MayLoad
  <2> QED
    BY <1>12, <2>1, <2>2, <2>3, <2>4, <2>5, <2>6 DEF HeaderNext
<1>13. ASSUME MemberStep
       PROVE  Goal
  <2>1. /\ Running("members") /\ OnTop /\ Top.op = "members" /\ Top.on \in Types
        /\ Top.i \in Nat /\ Top.i > 0 /\ Top.i <= Len(prog.member[Top.on])
    BY <1>1, <1>8, <1>13, TopFrame DEF MemberStep
  <2>2. EnclosingTypes(File(Top.on)) \in Seq(Types)
    BY <1>1, EnclosingType
  <2>3. Member \in Types
    <3>1. prog.member[Top.on] \in Seq(Types) /\ Len(prog.member[Top.on]) \in Nat
      BY <1>1, <2>1, ProgramFacts
    <3>2. Top.i \in 1 .. Len(prog.member[Top.on])
      BY <2>1, <3>1
    <3> QED
      BY <3>1, <3>2 DEF Member
  <2>4. CASE Find(EnclosingTypes(File(Top.on)), Member)
    BY <1>5, <1>13, <2>1, <2>2, <2>3, <2>4 DEF MemberStep
  <2>5. CASE Advance /\ UNCHANGED <<source, marks, table>>
    <3>1. Replaced(FrameAt("members", Top.on, Top.i + 1, NoType))
      BY <1>1, <2>1, <2>5, Advanced
    <3>2. Effect
      BY <2>1, <3>1, StackReadsOn DEF Effect, OnTop
    <3> QED
      BY <1>13, <2>1, <2>5, <3>2 DEF MemberStep, MayLoad
  <2> QED
    BY <1>13, <2>4, <2>5 DEF MemberStep
<1> QED
  BY <1>9, <1>10, <1>11, <1>12, <1>13 DEF ReadingStep, OnTop, Effect

(***************************************************************************)
(* The steps of the batches, with what they do to the stack.               *)
(***************************************************************************)
QueuesHeader(t) ==
    /\ phase = "headers" /\ stack = <<>> /\ t \in todo
    /\ todo' = todo \ {t} /\ collection' = collection \cup {t}
    /\ \/ t \in header /\ UNCHANGED <<stack, header>>
       \/ header' = header \cup {t} /\ Grown(Frame("header", t))
    /\ UNCHANGED <<prog, loaded, tuple, phase, start, pending, order, declared, bodyWork>>

SortCalls(t) ==
    /\ phase = "sort" /\ t \in collection \ pending /\ SortCall(t) /\ Grown(Frame("sort", t))
    /\ stack # <<>> => t \in closure[Top.on]

SortEmits == phase = "sort" /\ SortEmit /\ Shrunk

CallsMembers(c) == phase = "members" /\ NextMembers /\ c = Head(order) /\ Grown(Frame("members", c))

DeclaresMembers == phase = "members" /\ MembersDeclared
                       /\ Replaced(FrameAt("members", Top.on, Top.i + 1, NoType))

CallsNested(c) == phase = "members" /\ NestedMembers /\ c \in Nested(Top.on) \ declared
                      /\ Grown(Frame("members", c))

ReturnsMembers == phase = "members" /\ MembersReturn /\ Shrunk

LEMMA OnStack ==
    ASSUME HeaderInv, Shape, NEW op \in {"sort", "members"}, Running(op)
    PROVE  /\ phase = op /\ stack # <<>> /\ Len(stack) \in Nat /\ Len(stack) \in 1 .. Len(stack)
           /\ Top = stack[Len(stack)] /\ Top.op = op /\ Top.on \in Types /\ Top.i \in Nat \ {0}
           /\ \A k \in 1 .. Len(stack) : stack[k].op = op
<1> DEFINE n == Len(stack)
<1>1. /\ stack \in Seq(Frames)
      /\ phase \in {"names", "order", "headers", "sort", "members", "done"}
  BY DEF HeaderInv, TypeOK
<1>2. /\ stack # <<>> /\ n \in Nat /\ n > 0 /\ Top = stack[n] /\ Top.op = op
      /\ Top.on \in Types /\ Top.i \in Nat \ {0}
  BY <1>1, TopFrame
<1>3. n \in 1 .. n /\ \A k \in 1 .. n : k = n \/ k \in 1 .. n - 1
  <2> HIDE DEF n
  <2> QED
    BY <1>2
<1>4. phase = op
  BY <1>1, <1>2, <1>3 DEF Shape, Reading
<1>5. \A k \in 1 .. n : stack[k].op = op
  BY <1>2, <1>3, <1>4 DEF Shape
<1> QED
  BY <1>2, <1>3, <1>4, <1>5

LEMMA BatchSteps ==
    ASSUME HeaderInv, Shape, Next
    PROVE  \/ ReadingStep \/ NamesDone \/ PartialOrder \/ (\E t \in Types : QueuesHeader(t))
           \/ HeadersDone \/ (\E t \in Types : SortCalls(t)) \/ SortEmits \/ SortDone
           \/ (\E c \in Types : CallsMembers(c)) \/ DeclaresMembers
           \/ (\E c \in Types : CallsNested(c)) \/ ReturnsMembers \/ MembersDone \/ Finished
<1>1. TypeOK /\ stack \in Seq(Frames)
  BY DEF HeaderInv, TypeOK
<1>2. \A op \in Procedures, c \in Types : Frame(op, c) \in Frames
  BY DEF Frame, FrameAt, Frames
<1>3. ASSUME NextHeader
      PROVE  \E t \in Types : QueuesHeader(t)
  <2>1. PICK t \in todo :
           /\ todo' = todo \ {t} /\ collection' = collection \cup {t}
           /\ IF t \in header THEN UNCHANGED <<stack, marks>> ELSE CallHeader(t)
    BY <1>3 DEF NextHeader
  <2>2. t \in Types
    BY <1>1 DEF TypeOK
  <2>3. CallHeader(t) => Grown(Frame("header", t))
    BY <1>1, <1>2, <2>2, Called DEF CallHeader, Procedures
  <2> QED
    BY <1>3, <2>1, <2>2, <2>3 DEF NextHeader, QueuesHeader, source, marks, CallHeader, Enter
<1>4. ASSUME NEW t \in collection \ pending, SortCall(t)
      PROVE  t \in Types /\ Grown(Frame("sort", t))
  BY <1>1, <1>2, <1>4, Called DEF SortCall, TypeOK, Procedures
<1>5. ASSUME SortNext \/ SortSuper
      PROVE  \E t \in Types : SortCalls(t)
  <2>1. CASE SortNext
    BY <1>4, <2>1 DEF SortNext, SortCalls
  <2>2. CASE SortSuper
    <3>1. phase = "sort"
      BY <2>2, OnStack DEF SortSuper
    <3> QED
      BY <1>4, <2>2, <3>1 DEF SortSuper, SortCalls
  <2> QED
    BY <1>5, <2>1, <2>2
<1>6. ASSUME SortEmit PROVE SortEmits
  BY <1>1, <1>6, OnStack, Returned DEF SortEmit, SortEmits
<1>7. ASSUME NextMembers
      PROVE  \E c \in Types : CallsMembers(c)
  <2>1. Head(order) \in Types
    BY <1>1, <1>7 DEF NextMembers, TypeOK
  <2>2. Grown(Frame("members", Head(order)))
    BY <1>1, <1>2, <1>7, <2>1, Called DEF NextMembers, Procedures
  <2> QED
    BY <1>7, <2>1, <2>2 DEF NextMembers, CallsMembers
<1>8. ASSUME MembersDeclared PROVE DeclaresMembers
  BY <1>1, <1>8, OnStack, Advanced DEF MembersDeclared, DeclaresMembers
<1>9. ASSUME NestedMembers
      PROVE  \E c \in Types : CallsNested(c)
  <2>1. PICK c \in Nested(Top.on) \ declared : Call(Frame("members", c))
    BY <1>9 DEF NestedMembers
  <2>2. c \in Types /\ phase = "members"
    BY <1>9, OnStack DEF NestedMembers, Nested
  <2>3. Grown(Frame("members", c))
    BY <1>1, <1>2, <2>1, <2>2, Called DEF Procedures
  <2> QED
    BY <1>9, <2>1, <2>2, <2>3 DEF CallsNested
<1>10. ASSUME MembersReturn PROVE ReturnsMembers
  BY <1>1, <1>10, OnStack, Returned DEF MembersReturn, ReturnsMembers
<1> QED
  BY <1>3, <1>5, <1>6, <1>7, <1>8, <1>9, <1>10, ReadingSteps
     DEF Next, NamesNext, BatchNext, SortingNext, MemberNext

-----------------------------------------------------------------------------
(* Every step keeps every part of the invariant.                            *)

LEMMA ShapeStep ==
    ASSUME HeaderInv, Shape, Next
    PROVE  Shape'
<1>1. /\ stack \in Seq(Frames) /\ stack' \in Seq(Frames) /\ HeaderInv'
      /\ phase \in {"names", "order", "headers", "sort", "members", "done"}
  BY HeaderStep DEF HeaderInv, TypeOK
<1> DEFINE n == Len(stack)
           m == Len(stack')
<1>2. n \in Nat /\ m \in Nat
  BY <1>1
<1>3. /\ phase \in {"order", "done"} => stack = <<>>
      /\ \A k \in 1 .. n :
            /\ phase \in {"names", "headers"} => stack[k].op \in Reading
            /\ phase = "sort" => stack[k].op = "sort"
            /\ phase = "members" => stack[k].op \in Reading \cup {"members"}
            /\ stack[k].op = "members" => \A j \in 1 .. k - 1 : stack[j].op = "members"
  BY DEF Shape
<1> HIDE DEF n, m
<1>4. CASE ReadingStep
  <2>1. /\ \A k \in 1 .. n : stack[k].op = "members" => k \in 1 .. m /\ SameMembers(k)
        /\ \A k \in 1 .. m : stack'[k].op \in Reading \/ (k \in 1 .. n /\ SameMembers(k))
        /\ phase' = phase /\ phase \notin {"order", "sort", "done"}
    BY <1>4 DEF ReadingStep, StackReads, n, m
  <2>2. ASSUME NEW k \in 1 .. m, stack'[k].op = "members", NEW j \in 1 .. k - 1
        PROVE  stack'[j].op = "members"
    <3>1. k \in 1 .. n /\ stack[k].op = "members" /\ j \in 1 .. n
      BY <1>2, <2>1, <2>2 DEF Reading, SameMembers
    <3> QED
      BY <1>3, <2>1, <3>1 DEF SameMembers
  <2>3. ASSUME NEW k \in 1 .. m, phase \in {"names", "headers"}
        PROVE  stack'[k].op \in Reading
    BY <1>3, <2>1, <2>3 DEF SameMembers, Reading
  <2>4. \A k \in 1 .. m : stack'[k].op \in Reading \cup {"members"}
    BY <2>1 DEF SameMembers
  <2> QED
    BY <2>1, <2>2, <2>3, <2>4 DEF Shape, m
<1>5. ASSUME stack' = <<>>
      PROVE  Shape'
  <2>1. m = 0
    BY <1>5 DEF m
  <2> QED
    BY <1>5, <2>1 DEF Shape, m
<1>6. ASSUME NEW frame, Grown(frame), phase' = phase,
             \/ phase = "headers" /\ stack = <<>> /\ frame.op = "header"
             \/ phase = "sort" /\ frame.op = "sort"
             \/ /\ phase = "members" /\ frame.op = "members"
                /\ \A k \in 1 .. n : stack[k].op = "members"
      PROVE  Shape'
  <2>1. /\ m = n + 1 /\ stack'[n + 1] = frame
        /\ \A k \in 1 .. n : stack'[k] = stack[k]
    BY <1>6 DEF Grown, n, m
  <2>2. /\ \A k \in 1 .. m : k \in 1 .. n \/ (k = n + 1 /\ \A j \in 1 .. k - 1 : j \in 1 .. n)
        /\ \A k \in 1 .. n : \A j \in 1 .. k - 1 : j \in 1 .. n
    BY <1>2, <2>1
  <2>3. /\ phase \notin {"order", "done"}
        /\ phase = "headers" => n = 0 /\ frame.op \in Reading
    BY <1>6 DEF n, Reading
  <2>4. ASSUME NEW k \in 1 .. m
        PROVE  /\ phase \in {"names", "headers"} => stack'[k].op \in Reading
               /\ phase = "sort" => stack'[k].op = "sort"
               /\ phase = "members" => stack'[k].op \in Reading \cup {"members"}
               /\ stack'[k].op = "members" => \A j \in 1 .. k - 1 : stack'[j].op = "members"
    <3>1. CASE k \in 1 .. n
      BY <1>3, <2>1, <2>2, <3>1
    <3>2. CASE k = n + 1
      BY <1>2, <1>6, <2>1, <2>2, <2>3, <3>2
    <3> QED
      BY <2>2, <3>1, <3>2
  <2> QED
    BY <1>6, <2>3, <2>4 DEF Shape, m
<1>7. ASSUME Shrunk, phase' = phase
      PROVE  Shape'
  <2>1. m = n - 1 /\ \A k \in 1 .. n - 1 : stack'[k] = stack[k]
    BY <1>7 DEF Shrunk, n, m
  <2>2. \A k \in 1 .. m : k \in 1 .. n /\ k \in 1 .. n - 1 /\ \A j \in 1 .. k - 1 : j \in 1 .. m
    BY <1>2, <2>1
  <2>3. stack # <<>>
    BY <1>7 DEF Shrunk
  <2> QED
    BY <1>3, <1>7, <2>1, <2>2, <2>3 DEF Shape, m
<1>8. CASE DeclaresMembers
  <2>1. /\ m = n /\ stack'[n] = FrameAt("members", Top.on, Top.i + 1, NoType) /\ stack # <<>>
        /\ phase = "members" /\ phase' = "members" /\ Running("members")
        /\ \A k \in 1 .. n - 1 : stack'[k] = stack[k]
    BY <1>8 DEF DeclaresMembers, MembersDeclared, Replaced, n, m
  <2>2. \A k \in 1 .. n : stack[k].op = "members"
    BY <2>1, OnStack DEF n
  <2>3. \A k \in 1 .. n : k \in 1 .. n - 1 \/ k = n
    BY <1>2
  <2>4. \A k \in 1 .. m : stack'[k].op = "members" /\ \A j \in 1 .. k - 1 : j \in 1 .. m
    BY <1>2, <2>1, <2>2, <2>3 DEF FrameAt
  <2> QED
    BY <2>1, <2>4 DEF Shape, m
<1>9. ASSUME NEW t \in Types, QueuesHeader(t)
      PROVE  Shape'
  BY <1>5, <1>6, <1>9 DEF QueuesHeader, Frame, FrameAt
<1>10. ASSUME NEW t \in Types, SortCalls(t)
       PROVE  Shape'
  BY <1>6, <1>10 DEF SortCalls, SortCall, Frame, FrameAt
<1>11. ASSUME NEW c \in Types, CallsMembers(c)
       PROVE  Shape'
  <2>1. n = 0 /\ phase' = phase
    BY <1>11 DEF CallsMembers, NextMembers, n
  <2> QED
    BY <1>6, <1>11, <2>1 DEF CallsMembers, Frame, FrameAt
<1>12. ASSUME NEW c \in Types, CallsNested(c)
       PROVE  Shape'
  <2>1. Running("members") /\ phase' = phase
    BY <1>12 DEF CallsNested, NestedMembers
  <2>2. \A k \in 1 .. n : stack[k].op = "members"
    BY <2>1, OnStack DEF n
  <2> QED
    BY <1>6, <1>12, <2>1, <2>2 DEF CallsNested, Frame, FrameAt
<1>13. ASSUME SortEmits \/ ReturnsMembers
       PROVE  Shape'
  BY <1>7, <1>13 DEF SortEmits, SortEmit, ReturnsMembers, MembersReturn
<1>14. ASSUME NamesDone \/ PartialOrder \/ HeadersDone \/ SortDone \/ MembersDone \/ Finished
       PROVE  Shape'
  <2>1. stack' = <<>>
    BY <1>3, <1>14 DEF NamesDone, PartialOrder, HeadersDone, SortDone, MembersDone, Finished, vars
  <2> QED
    BY <1>5, <2>1
<1> QED
  BY <1>4, <1>8, <1>9, <1>10, <1>11, <1>12, <1>13, <1>14, BatchSteps

\* What an invariant state knows of the lists.
LEMMA ListFacts ==
    ASSUME HeaderInv
    PROVE  /\ prog \in Programs /\ loaded \subseteq Files
           /\ tuple \in Seq(loaded) /\ DOMAIN tuple = 1 .. Len(tuple) /\ Len(tuple) \in Nat
           /\ start \in Nat
           /\ order \in Seq(Types) /\ DOMAIN order = 1 .. Len(order) /\ Len(order) \in Nat
           /\ bodyWork \in Seq(Types)
           /\ todo \cup collection \cup pending \cup declared \subseteq Types
           /\ ToSet(order) = {order[k] : k \in 1 .. Len(order)}
           /\ ToSet(tuple) = {tuple[k] : k \in 1 .. Len(tuple)}
           /\ stack \in Seq(Frames) /\ DOMAIN stack = 1 .. Len(stack) /\ Len(stack) \in Nat
<1>1. /\ prog \in Programs /\ loaded \subseteq Files /\ tuple \in Seq(loaded) /\ start \in Nat
      /\ order \in Seq(Types) /\ bodyWork \in Seq(Types) /\ stack \in Seq(Frames)
      /\ todo \cup collection \cup pending \cup declared \subseteq Types
  BY DEF HeaderInv, TypeOK
<1>2. /\ DOMAIN tuple = 1 .. Len(tuple) /\ Len(tuple) \in Nat
      /\ DOMAIN order = 1 .. Len(order) /\ Len(order) \in Nat
      /\ DOMAIN stack = 1 .. Len(stack) /\ Len(stack) \in Nat
  BY <1>1
<1> QED
  BY <1>1, <1>2 DEF ToSet

LEMMA BatchesStep ==
    ASSUME HeaderInv, Shape, Queues, Batches, Next
    PROVE  Batches'
<1> SUFFICES ASSUME phase' # "done"
             PROVE  Batches'
  BY DEF Batches
<1> USE ListFacts
<1>1. phase # "done"
  <2>1. phase = "done" => stack = <<>>
    BY DEF Shape
  <2> QED
    BY <2>1, BatchSteps
       DEF ReadingStep, NamesDone, PartialOrder, QueuesHeader, HeadersDone, SortCalls,
           SortEmits, SortDone, CallsMembers, DeclaresMembers, CallsNested, ReturnsMembers,
           MembersDone, NextMembers, Finished, vars
<1>2. /\ ToSet(tuple) = loaded /\ IsInjective(tuple) /\ start <= Len(tuple)
      /\ \A t \in Queued \cup ToSet(bodyWork) : TopLevel(t) /\ Listed(t)
      /\ \A t \in Types : TopLevel(t) /\ Listed(t) => t \in Queued \cup ToSet(bodyWork)
      /\ Queued \cap ToSet(bodyWork) = {}
  BY <1>1 DEF Batches
<1>3. ASSUME UNCHANGED <<prog, loaded, tuple, start, bodyWork, Queued>>
      PROVE  Batches'
  BY <1>2, <1>3 DEF Batches, Listed, TopLevel, File
<1>4. CASE ReadingStep
  <2>1. CASE UNCHANGED <<loaded, tuple>>
    BY <1>3, <1>4, <2>1 DEF ReadingStep, sorting, Queued
  <2>2. CASE \E f \in Files \ loaded : loaded' = loaded \cup {f} /\ tuple' = Append(tuple, f)
    <3>1. PICK f \in Files \ loaded : loaded' = loaded \cup {f} /\ tuple' = Append(tuple, f)
      BY <2>2
    <3>2. /\ Len(tuple') = Len(tuple) + 1 /\ ToSet(tuple') = loaded' /\ IsInjective(tuple')
          /\ \A k \in 1 .. Len(tuple) : tuple'[k] = tuple[k]
      <4>1. tuple \in Seq(Files)
        <5>1. ToSet(tuple) \subseteq Files
          BY <1>2
        <5> QED
          BY <1>2
      <4> QED
        BY <1>2, <3>1, <4>1, AppendedSet
    <3>3. start <= Len(tuple') /\ \A k \in 1 .. start : k \in 1 .. Len(tuple)
      <4> DEFINE n == Len(tuple)
      <4>1. n \in Nat /\ start \in Nat /\ start <= n /\ Len(tuple') = n + 1
        BY <1>2, <3>2
      <4> HIDE DEF n
      <4>2. start <= n + 1 /\ \A k \in 1 .. start : k \in 1 .. n
        BY <4>1
      <4> QED
        BY <4>1, <4>2 DEF n
    <3>4. UNCHANGED <<prog, start, bodyWork, Queued>>
      BY <1>4 DEF ReadingStep, sorting, Queued
    <3>5. \A t : (Listed(t)' <=> Listed(t)) /\ (TopLevel(t)' <=> TopLevel(t))
      BY <3>2, <3>3, <3>4 DEF Listed, TopLevel, File
    <3>6. \A t \in (Queued \cup ToSet(bodyWork))' : (TopLevel(t) /\ Listed(t))'
      BY <1>2, <3>4, <3>5
    <3>7. \A t \in Types : (TopLevel(t) /\ Listed(t) => t \in Queued \cup ToSet(bodyWork))'
      BY <1>2, <3>4, <3>5
    <3> QED
      BY <1>2, <3>2, <3>3, <3>4, <3>6, <3>7 DEF Batches
  <2> QED
    BY <1>4, <2>1, <2>2 DEF ReadingStep, MayLoad
<1>5. CASE PartialOrder
  <2>1. /\ todo' = {t \in Types : TopLevel(t) /\ \E k \in start + 1 .. Len(tuple) : File(t) = tuple[k]}
        /\ start' = Len(tuple) /\ UNCHANGED <<prog, loaded, tuple, collection, order, bodyWork>>
    BY <1>5 DEF PartialOrder, source
  <2>2. todo = {} /\ Queued' = Queued \cup todo'
    BY <1>5, <2>1 DEF PartialOrder, Queues, Queued
  <2> DEFINE n == Len(tuple)
  <2>3. n \in Nat /\ start \in Nat /\ start <= n
    BY <1>2
  <2>4. \A t : TopLevel(t)' <=> TopLevel(t)
    BY <2>1 DEF TopLevel
  <2>5. \A t : Listed(t)' <=> \E k \in 1 .. n : tuple[k] = File(t)
    BY <2>1 DEF Listed, File
  <2> HIDE DEF n
  <2>6. /\ \A k \in 1 .. start : k \in 1 .. n
        /\ \A k \in start + 1 .. n : k \in 1 .. n /\ k \notin 1 .. start
        /\ \A k \in 1 .. n : k \in 1 .. start \/ k \in start + 1 .. n
    BY <2>3
  <2>7. \A t \in todo' : TopLevel(t) /\ \E k \in start + 1 .. n : tuple[k] = File(t)
    BY <2>1 DEF n
  <2>8. \A t \in Types : TopLevel(t) /\ (\E k \in start + 1 .. n : tuple[k] = File(t)) => t \in todo'
    BY <2>1 DEF n
  <2>9. (\A t \in Queued \cup ToSet(bodyWork) : TopLevel(t) /\ Listed(t))'
    BY <1>2, <2>1, <2>2, <2>4, <2>5, <2>6, <2>7 DEF Listed
  <2>10. (\A t \in Types : TopLevel(t) /\ Listed(t) => t \in Queued \cup ToSet(bodyWork))'
    BY <1>2, <2>1, <2>2, <2>4, <2>5, <2>6, <2>8 DEF Listed
  <2>11. (Queued \cap ToSet(bodyWork))' = {}
    <3> SUFFICES ASSUME NEW t \in todo', t \in ToSet(bodyWork)
                 PROVE  FALSE
      BY <1>2, <2>1, <2>2
    <3>1. PICK k \in start + 1 .. n : tuple[k] = File(t)
      BY <2>7
    <3>2. PICK j \in 1 .. start : tuple[j] = File(t)
      BY <1>2 DEF Listed
    <3>3. j = k
      BY <1>2, <2>6, <3>1, <3>2 DEF IsInjective, n
    <3> QED
      BY <2>6, <3>3
  <2>12. start' <= Len(tuple')
    BY <2>1, <2>3 DEF n
  <2> QED
    BY <1>2, <2>1, <2>9, <2>10, <2>11, <2>12 DEF Batches
<1>6. ASSUME NEW t \in Types, QueuesHeader(t)
      PROVE  Batches'
  <2>1. Queued' = Queued
    BY <1>6 DEF QueuesHeader, Queued
  <2> QED
    BY <1>3, <1>6, <2>1 DEF QueuesHeader
<1>7. CASE SortEmits
  <2>1. Top.on \in collection /\ Top.on \in Types
    BY <1>7, OnStack DEF SortEmits, SortEmit, Queues
  <2>2. ToSet(order') = ToSet(order) \cup {Top.on}
    BY <1>7, <2>1, AppendedSet DEF SortEmits, SortEmit
  <2>3. Queued' = Queued
    BY <1>7, <2>1, <2>2 DEF SortEmits, SortEmit, Queued
  <2> QED
    BY <1>3, <1>7, <2>3 DEF SortEmits, SortEmit, source
<1>8. CASE SortDone
  <2>1. collection \subseteq ToSet(order)
    <3>1. pending = ToSet(order) \cup {stack[k].on : k \in 1 .. Len(stack)} /\ Len(stack) = 0
      BY <1>8 DEF SortDone, Queues
    <3>2. 1 .. Len(stack) = {}
      BY <3>1
    <3> QED
      BY <1>8, <3>1, <3>2 DEF SortDone
  <2>2. Queued' = Queued
    BY <1>8, <2>1 DEF SortDone, Queued
  <2> QED
    BY <1>3, <1>8, <2>2 DEF SortDone, source
<1>9. ASSUME NEW c \in Types, CallsMembers(c)
      PROVE  Batches'
  <2>1. /\ order # <<>> /\ c = Head(order) /\ order' = Tail(order) /\ bodyWork' = Append(bodyWork, c)
        /\ todo = {} /\ collection = {} /\ IsInjective(order)
        /\ UNCHANGED <<prog, loaded, tuple, start, todo, collection>>
    BY <1>9 DEF CallsMembers, NextMembers, Queues, source
  <2>2. ToSet(order) = ToSet(order') \cup {c} /\ c \notin ToSet(order')
    BY <2>1, TailSet
  <2>3. ToSet(bodyWork') = ToSet(bodyWork) \cup {c}
    BY <2>1, AppendedSet
  <2>4. Queued = ToSet(order) /\ Queued' = ToSet(order')
    BY <2>1 DEF Queued
  <2>5. \A t : (Listed(t)' <=> Listed(t)) /\ (TopLevel(t)' <=> TopLevel(t))
    BY <2>1 DEF Listed, TopLevel, File
  <2>6. (\A t \in Queued \cup ToSet(bodyWork) : TopLevel(t) /\ Listed(t))'
    BY <1>2, <2>2, <2>3, <2>4, <2>5
  <2>7. (\A t \in Types : TopLevel(t) /\ Listed(t) => t \in Queued \cup ToSet(bodyWork))'
    BY <1>2, <2>2, <2>3, <2>4, <2>5
  <2>8. (Queued \cap ToSet(bodyWork))' = {}
    BY <1>2, <2>2, <2>3, <2>4
  <2> QED
    BY <1>2, <2>1, <2>6, <2>7, <2>8 DEF Batches
<1>10. CASE MembersDone
  <2>1. UNCHANGED <<prog, loaded, tuple, start, todo, collection, order, bodyWork>>
    BY <1>10 DEF MembersDone, sorting
  <2> QED
    BY <1>3, <2>1 DEF Queued
<1>11. ASSUME \/ NamesDone \/ HeadersDone \/ (\E t \in Types : SortCalls(t)) \/ DeclaresMembers
              \/ (\E c \in Types : CallsNested(c)) \/ ReturnsMembers \/ Finished
       PROVE  Batches'
  <2>1. UNCHANGED <<prog, loaded, tuple, start, todo, collection, order, bodyWork>>
    BY <1>11 DEF NamesDone, HeadersDone, SortCalls, SortCall, DeclaresMembers, MembersDeclared,
                 CallsNested, NestedMembers, ReturnsMembers, MembersReturn, Finished, vars,
                 source, sorting
  <2> QED
    BY <1>3, <2>1 DEF Queued
<1> QED
  BY <1>4, <1>5, <1>6, <1>7, <1>8, <1>9, <1>10, <1>11, BatchSteps

LEMMA QueuesStep ==
    ASSUME HeaderInv, Shape, Queues, Batches, Sorting, Next
    PROVE  Queues'
<1> USE ListFacts
<1>1. /\ phase # "headers" => todo = {}
      /\ phase \in {"names", "order", "headers"} => order = <<>>
      /\ phase # "sort" => pending = {}
      /\ phase = "sort" => /\ start = Len(tuple) /\ pending \subseteq collection
                           /\ pending = ToSet(order) \cup {stack[k].on : k \in 1 .. Len(stack)}
      /\ phase \in {"members", "done"} => collection = {}
      /\ IsInjective(order) /\ IsInjective(bodyWork)
  BY DEF Queues
<1>2. CASE ReadingStep
  BY <1>1, <1>2 DEF ReadingStep, Queues, sorting
<1>3. CASE NamesDone
  BY <1>1, <1>3 DEF NamesDone, Queues, sorting
<1>4. CASE PartialOrder
  BY <1>1, <1>4 DEF PartialOrder, Queues
<1>5. ASSUME NEW t \in Types, QueuesHeader(t)
      PROVE  Queues'
  BY <1>1, <1>5 DEF QueuesHeader, Queues
<1>6. CASE HeadersDone
  <2>1. /\ todo = {} /\ stack = <<>> /\ UNCHANGED <<sorting, tuple, stack>> /\ phase = "headers"
        /\ phase' = IF start < Len(tuple) THEN "order" ELSE "sort"
    BY <1>6 DEF HeadersDone, source
  <2>2. order = <<>> /\ pending = {}
    BY <1>1, <2>1
  <2>3. CASE start < Len(tuple)
    BY <1>1, <2>1, <2>2, <2>3 DEF Queues, sorting
  <2>4. CASE ~ (start < Len(tuple))
    <3>1. start = Len(tuple)
      <4> DEFINE n == Len(tuple)
      <4>1. start <= n /\ n \in Nat /\ ~ (start < n)
        BY <2>1, <2>4 DEF Batches
      <4> HIDE DEF n
      <4>2. start = n
        BY <4>1
      <4> QED
        BY <4>2 DEF n
    <3>2. ToSet(order) = {} /\ {stack[k].on : k \in 1 .. Len(stack)} = {}
      <4>1. Len(order) = 0 /\ Len(stack) = 0
        BY <2>1, <2>2
      <4>2. 1 .. Len(order) = {} /\ 1 .. Len(stack) = {}
        BY <4>1
      <4> QED
        BY <4>2
    <3> QED
      BY <1>1, <2>1, <2>2, <2>4, <3>1, <3>2 DEF Queues, sorting
  <2> QED
    BY <2>3, <2>4
<1>7. ASSUME NEW t \in Types, SortCalls(t)
      PROVE  Queues'
  <2>1. /\ phase = "sort" /\ phase' = "sort" /\ t \in collection /\ pending' = pending \cup {t}
        /\ UNCHANGED <<start, tuple, todo, collection, order, bodyWork>>
    BY <1>7 DEF SortCalls, SortCall, source
  <2>2. {stack'[k].on : k \in 1 .. Len(stack')} = {stack[k].on : k \in 1 .. Len(stack)} \cup {t}
    <3> DEFINE n == Len(stack)
    <3>1. /\ n \in Nat /\ Len(stack') = n + 1 /\ stack'[n + 1].on = t
          /\ \A k \in 1 .. n : stack'[k] = stack[k]
      BY <1>7 DEF SortCalls, Grown, Frame, FrameAt
    <3> HIDE DEF n
    <3>2. /\ n + 1 \in 1 .. n + 1 /\ \A k \in 1 .. n : k \in 1 .. n + 1
          /\ \A k \in 1 .. n + 1 : k \in 1 .. n \/ k = n + 1
      BY <3>1
    <3>3. \A k \in 1 .. n + 1 : stack'[k].on \in {stack[j].on : j \in 1 .. n} \cup {t}
      BY <3>1, <3>2
    <3>4. \A k \in 1 .. n : stack[k].on \in {stack'[j].on : j \in 1 .. n + 1}
      BY <3>1, <3>2
    <3>5. t \in {stack'[j].on : j \in 1 .. n + 1}
      BY <3>1, <3>2
    <3> QED
      BY <3>1, <3>3, <3>4, <3>5 DEF n
  <2>3. pending' = ToSet(order) \cup {stack'[k].on : k \in 1 .. Len(stack')}
    BY <1>1, <2>1, <2>2
  <2>4. todo = {} /\ start = Len(tuple) /\ pending' \subseteq collection
    BY <1>1, <2>1
  <2> QED
    BY <1>1, <2>1, <2>3, <2>4 DEF Queues
<1>8. CASE SortEmits
  <2>1. /\ phase = "sort" /\ phase' = "sort" /\ order' = Append(order, Top.on)
        /\ UNCHANGED <<start, tuple, todo, collection, pending, bodyWork>> /\ Running("sort")
    BY <1>8 DEF SortEmits, SortEmit, source
  <2>2. /\ Top.on \in Types /\ Top = stack[Len(stack)] /\ Len(stack) \in 1 .. Len(stack)
    BY <2>1, OnStack
  <2>3. Top.on \notin ToSet(order)
    BY <2>1, <2>2 DEF Sorting
  <2>4. ToSet(order') = ToSet(order) \cup {Top.on} /\ IsInjective(order')
    BY <1>1, <2>1, <2>2, <2>3, AppendedSet
  <2>5. {stack[k].on : k \in 1 .. Len(stack)} =
            {stack'[k].on : k \in 1 .. Len(stack')} \cup {Top.on}
    <3> DEFINE n == Len(stack)
    <3>1. /\ n \in Nat /\ n \in 1 .. n /\ Len(stack') = n - 1 /\ stack[n].on = Top.on
          /\ \A k \in 1 .. n - 1 : stack'[k] = stack[k]
      BY <1>8, <2>2 DEF SortEmits, Shrunk
    <3> HIDE DEF n
    <3>2. /\ \A k \in 1 .. n : k \in 1 .. n - 1 \/ k = n
          /\ \A k \in 1 .. n - 1 : k \in 1 .. n
      BY <3>1
    <3>3. \A k \in 1 .. n : stack[k].on \in {stack'[j].on : j \in 1 .. n - 1} \cup {Top.on}
      BY <3>1, <3>2
    <3>4. \A k \in 1 .. n - 1 : stack'[k].on \in {stack[j].on : j \in 1 .. n}
      BY <3>1, <3>2
    <3>5. Top.on \in {stack[j].on : j \in 1 .. n}
      BY <3>1
    <3> QED
      BY <3>1, <3>3, <3>4, <3>5 DEF n
  <2>6. pending = ToSet(order') \cup {stack'[k].on : k \in 1 .. Len(stack')}
    BY <1>1, <2>1, <2>4, <2>5
  <2> QED
    BY <1>1, <2>1, <2>4, <2>6 DEF Queues
<1>9. CASE SortDone
  BY <1>1, <1>9 DEF SortDone, Queues
<1>10. ASSUME NEW c \in Types, CallsMembers(c)
       PROVE  Queues'
  <2>1. /\ phase = "members" /\ phase' = "members" /\ order # <<>> /\ c = Head(order)
        /\ order' = Tail(order) /\ bodyWork' = Append(bodyWork, c)
        /\ UNCHANGED <<todo, collection, pending>>
    BY <1>10 DEF CallsMembers, NextMembers
  <2>2. IsInjective(order') /\ c \in ToSet(order)
    BY <1>1, <2>1, TailSet
  <2>3. c \notin ToSet(bodyWork)
    BY <2>1, <2>2 DEF Batches, Queued
  <2>4. IsInjective(bodyWork')
    BY <1>1, <2>1, <2>3, AppendedSet
  <2> QED
    BY <1>1, <2>1, <2>2, <2>4 DEF Queues
<1>11. ASSUME DeclaresMembers \/ (\E c \in Types : CallsNested(c)) \/ ReturnsMembers
       PROVE  Queues'
  <2>1. phase = "members" /\ UNCHANGED <<phase, todo, collection, pending, order, bodyWork>>
    BY <1>11 DEF DeclaresMembers, MembersDeclared, CallsNested, NestedMembers, ReturnsMembers,
                 MembersReturn, sorting
  <2> QED
    BY <1>1, <2>1 DEF Queues
<1>12. CASE MembersDone
  <2>1. /\ phase = "members" /\ order = <<>> /\ phase' \in {"order", "done"}
        /\ UNCHANGED <<todo, collection, pending, order, bodyWork>>
    BY <1>12 DEF MembersDone, sorting
  <2> QED
    BY <1>1, <2>1 DEF Queues
<1>13. CASE Finished
  BY <1>1, <1>13 DEF Finished, vars, source, sorting, Queues
<1> QED
  BY <1>2, <1>3, <1>4, <1>5, <1>6, <1>7, <1>8, <1>9, <1>10, <1>11, <1>12, <1>13, BatchSteps

LEMMA SortingStep ==
    ASSUME HeaderInv, Shape, Queues, Sorting, Next
    PROVE  Sorting'
<1> USE ListFacts
<1>1. SUFFICES ASSUME phase' = "sort" PROVE Sorting'
  BY DEF Sorting
<1>2. CASE phase # "sort"
  <2>1. HeadersDone
    BY <1>1, <1>2, BatchSteps
       DEF ReadingStep, NamesDone, PartialOrder, QueuesHeader, SortCalls, SortEmits, SortDone,
           CallsMembers, NextMembers, DeclaresMembers, MembersDeclared, CallsNested, NestedMembers,
           ReturnsMembers, MembersReturn, MembersDone, Finished, vars
  <2>2. Len(stack') = 0
    BY <2>1 DEF HeadersDone
  <2>3. 1 .. Len(stack') = {}
    BY <2>2
  <2> QED
    BY <2>3 DEF Sorting
<1>3. CASE phase = "sort"
  <2> DEFINE n == Len(stack)
             m == Len(stack')
  <2>1. /\ \A k \in 1 .. n : stack[k].on \notin ToSet(order)
        /\ \A j, k \in 1 .. n : j < k => /\ stack[j].on # stack[k].on
                                         /\ stack[k].on \in Above(stack[j].on)
        /\ pending = ToSet(order) \cup {stack[k].on : k \in 1 .. n}
        /\ n \in Nat
    BY <1>3 DEF Sorting, Queues
  <2>2. ASSUME NEW t \in Types, SortCalls(t)
        PROVE  Sorting'
    <3>1. /\ m = n + 1 /\ stack'[n + 1].on = t /\ \A k \in 1 .. n : stack'[k] = stack[k]
          /\ UNCHANGED <<prog, order>> /\ t \notin pending
      BY <2>2 DEF SortCalls, SortCall, Grown, Frame, FrameAt
    <3>2. \A k \in 1 .. n : t \in Above(stack[k].on)
      <4> SUFFICES ASSUME NEW k \in 1 .. n PROVE t \in Above(stack[k].on)
        OBVIOUS
      <4>1. stack # <<>> /\ Running("sort") /\ stack[k].op = "sort" /\ stack[k].on \in Types
        <5>1. n > 0 /\ n \in 1 .. n
          <6> HIDE DEF n
          <6> QED
            BY <2>1
        <5>2. stack # <<>> /\ stack[n].op = "sort" /\ stack[k].op = "sort"
          BY <1>3, <5>1 DEF Shape
        <5> QED
          BY <5>1, <5>2 DEF Running, Top, Last, Frames
      <4>2. Top = stack[n] /\ Top.on \in Types /\ n \in 1 .. n
        BY <4>1, OnStack
      <4>3. t \in Above(Top.on)
        BY <2>2, <4>1, <4>2 DEF SortCalls, HeaderInv, Hierarchy
      <4>4. k = n \/ k < n
        <5> HIDE DEF n
        <5> QED
          BY <2>1
      <4>5. k = n \/ stack[n].on \in Above(stack[k].on)
        BY <2>1, <4>2, <4>4
      <4>6. \A u \in Above(stack[k].on) : Above(u) \subseteq Above(stack[k].on)
        BY <4>1, ProgramFacts
      <4> QED
        BY <4>2, <4>3, <4>5, <4>6
    <3> HIDE DEF n, m
    <3>3. /\ \A k \in 1 .. m : k \in 1 .. n \/ k = n + 1
          /\ \A j, k \in 1 .. m : j < k => j \in 1 .. n
      BY <2>1, <3>1
    <3>4. \A k \in 1 .. n : stack[k].on # t
      BY <2>1, <3>1
    <3>5. \A s : Above(s)' = Above(s)
      BY <3>1 DEF Above
    <3>6. \A k \in 1 .. m : stack'[k].on \notin ToSet(order')
      BY <2>1, <3>1, <3>3
    <3>7. ASSUME NEW j \in 1 .. m, NEW k \in 1 .. m, j < k
          PROVE  stack'[j].on # stack'[k].on /\ stack'[k].on \in Above(stack'[j].on)
      BY <2>1, <3>1, <3>2, <3>3, <3>4, <3>7
    <3> QED
      BY <3>5, <3>6, <3>7 DEF Sorting, m
  <2>3. CASE SortEmits
    <3>1. /\ m = n - 1 /\ \A k \in 1 .. n - 1 : stack'[k] = stack[k]
          /\ order' = Append(order, Top.on) /\ prog' = prog /\ Running("sort")
      BY <2>3 DEF SortEmits, SortEmit, Shrunk
    <3>2. Top.on \in Types /\ Top = stack[n] /\ n \in 1 .. n
      BY <3>1, OnStack
    <3>3. ToSet(order') = ToSet(order) \cup {stack[n].on}
      BY <3>1, <3>2, AppendedSet
    <3> HIDE DEF n, m
    <3>4. \A k \in 1 .. m : k \in 1 .. n /\ k \in 1 .. n - 1 /\ k < n
      BY <2>1, <3>1
    <3>5. \A s : Above(s)' = Above(s)
      BY <3>1 DEF Above
    <3>6. \A k \in 1 .. m : stack'[k].on \notin ToSet(order')
      BY <2>1, <3>1, <3>2, <3>3, <3>4
    <3>7. \A j, k \in 1 .. m : j < k => stack'[j].on # stack'[k].on /\ stack'[k].on \in Above(stack'[j].on)
      BY <2>1, <3>1, <3>4
    <3> QED
      BY <3>5, <3>6, <3>7 DEF Sorting, m
  <2>4. CASE Finished
    BY <1>3, <2>4 DEF Finished, vars, sorting, Sorting, Above
  <2> QED
    BY <1>1, <1>3, <2>2, <2>3, <2>4, BatchSteps
       DEF ReadingStep, NamesDone, PartialOrder, QueuesHeader, HeadersDone, SortDone,
           CallsMembers, DeclaresMembers, CallsNested, ReturnsMembers, MembersDone
<1> QED
  BY <1>2, <1>3

\* When TopologicalSort puts a type on the list, its supertypes are there or have
\* been: none of them can still be waiting below it, but on a cycle.
LEMMA EmitsSorted ==
    ASSUME HeaderInv, Shape, Batches, Queues, Sorting, phase = "sort", Running("sort"),
           closure[Top.on] \cap collection \subseteq pending, ~ OnSourceCycle(Top.on),
           NEW s \in supers[Top.on]
    PROVE  Head(Path(s)) \in ToSet(bodyWork) \cup ToSet(order)
<1> USE ListFacts
<1> DEFINE n == Len(stack)
           h == Top.on
           p == Head(Path(s))
<1>1. h \in Types /\ Top = stack[n] /\ n \in 1 .. n /\ n \in Nat
  BY OnStack
<1>2. /\ s \in Types /\ ToSet(Path(s)) \subseteq closure[h] /\ closure[h] \subseteq Above(h)
      /\ File(s) \in loaded
  BY <1>1 DEF HeaderInv, TypeOK, Hierarchy
<1>3. /\ p \in ToSet(Path(s)) /\ p \in Types /\ TopLevel(p) /\ File(p) = File(s)
  BY <1>2, ProgramFacts
<1>4. p \in closure[h] /\ p \in Above(h)
  BY <1>2, <1>3
<1>5. Listed(p)
  <2>1. start = Len(tuple) /\ File(p) \in ToSet(tuple)
    BY <1>2, <1>3 DEF Queues, Batches
  <2> QED
    BY <2>1 DEF Listed
<1>6. p \in Queued \cup ToSet(bodyWork) /\ todo = {}
  BY <1>3, <1>5 DEF Batches, Queues
<1> HIDE DEF n, h, p
<1>7. CASE p \in ToSet(bodyWork) \cup ToSet(order)
  BY <1>7 DEF p
<1>8. CASE p \in collection /\ p \notin ToSet(order)
  <2>1. p \in pending
    BY <1>4, <1>8 DEF h
  <2>2. PICK k \in 1 .. n : p = stack[k].on
    BY <1>8, <2>1 DEF Queues, n
  <2>3. h \in Above(h)
    <3>1. CASE k = n
      BY <1>1, <1>4, <2>2, <3>1 DEF h
    <3>2. CASE k # n
      <4>1. k < n
        BY <1>1, <3>2
      <4>2. h \in Above(p)
        BY <1>1, <2>2, <4>1 DEF Sorting, h, n
      <4>3. Above(p) \subseteq Above(h)
        BY <1>1, <1>4, ProgramFacts DEF h
      <4> QED
        BY <4>2, <4>3
    <3> QED
      BY <3>1, <3>2
  <2> QED
    BY <2>3 DEF OnSourceCycle, h
<1> QED
  BY <1>6, <1>7, <1>8 DEF Queued

LEMMA SortedStep ==
    ASSUME HeaderInv, Shape, Batches, Queues, Sorting, Sorted, Headed, Next
    PROVE  Sorted'
<1> USE ListFacts
<1>1. \A k \in 1 .. Len(order) : order[k] \in Types /\ supers'[order[k]] = supers[order[k]]
  <2> SUFFICES ASSUME NEW k \in 1 .. Len(order)
               PROVE  order[k] \in Types /\ supers'[order[k]] = supers[order[k]]
    OBVIOUS
  <2>1. order[k] \in Types /\ order[k] \in header /\ ~ InProgress(order[k])
    BY DEF Headed
  <2> QED
    BY <2>1, SettledStep
<1>2. prog' = prog
  BY BatchSteps
     DEF ReadingStep, NamesDone, PartialOrder, QueuesHeader, HeadersDone, SortCalls, SortCall, SortEmits,
         SortEmit, SortDone, CallsMembers, NextMembers, DeclaresMembers, MembersDeclared, CallsNested,
         NestedMembers, ReturnsMembers, MembersReturn, MembersDone, Finished, vars
<1>3. \A t : Path(t)' = Path(t) /\ (OnSourceCycle(t)' <=> OnSourceCycle(t))
  BY <1>2 DEF Path, OnSourceCycle, Above
<1>4. \A k \in 1 .. Len(order) : ~ OnSourceCycle(order[k]) =>
          \A s \in supers[order[k]] :
              Head(Path(s)) \in ToSet(bodyWork) \cup {order[j] : j \in 1 .. k - 1}
  BY DEF Sorted
<1>5. ASSUME UNCHANGED <<order, bodyWork>>
      PROVE  Sorted'
  <2>1. ASSUME NEW k \in 1 .. Len(order'), ~ OnSourceCycle(order'[k]), NEW s \in supers'[order'[k]]
        PROVE  Head(Path(s)) \in ToSet(bodyWork') \cup {order'[j] : j \in 1 .. k - 1}
    <3>1. order' = order /\ bodyWork' = bodyWork
      BY <1>5
    <3>2. k \in 1 .. Len(order) /\ ~ OnSourceCycle(order[k]) /\ s \in supers[order[k]]
      BY <1>1, <2>1, <3>1
    <3>3. Head(Path(s)) \in ToSet(bodyWork) \cup {order[j] : j \in 1 .. k - 1}
      BY <1>4, <3>2
    <3> QED
      BY <3>1, <3>3
  <2> QED
    BY <1>3, <2>1 DEF Sorted
<1>6. CASE SortEmits
  <2> DEFINE n == Len(order)
             h == Top.on
  <2>1. /\ order' = Append(order, h) /\ bodyWork' = bodyWork /\ Running("sort") /\ phase = "sort"
        /\ closure[h] \cap collection \subseteq pending /\ supers' = supers
    BY <1>6 DEF SortEmits, SortEmit, marks
  <2>2. h \in Types /\ n \in Nat
    BY <2>1, OnStack
  <2>3. ~ OnSourceCycle(h) => \A s \in supers[h] : Head(Path(s)) \in ToSet(bodyWork) \cup ToSet(order)
    BY <2>1, EmitsSorted
  <2>4. /\ Len(order') = n + 1 /\ order'[n + 1] = h /\ \A k \in 1 .. n : order'[k] = order[k]
    BY <2>1, <2>2, AppendedSet
  <2>5. {order[k] : k \in 1 .. n} = ToSet(order)
    OBVIOUS
  <2> HIDE DEF n, h
  <2>6. /\ \A k \in 1 .. n + 1 : k \in 1 .. n \/ k = n + 1
        /\ \A k \in 1 .. n : \A j \in 1 .. k - 1 : j \in 1 .. n
        /\ (n + 1) - 1 = n
    BY <2>2
  <2>7. ASSUME NEW k \in 1 .. n
        PROVE  {order'[j] : j \in 1 .. k - 1} = {order[j] : j \in 1 .. k - 1}
    BY <2>4, <2>6
  <2>8. {order'[j] : j \in 1 .. n} = ToSet(order)
    BY <2>4, <2>5
  <2>9. ASSUME NEW k \in 1 .. n + 1, ~ OnSourceCycle(order'[k]), NEW s \in supers'[order'[k]]
        PROVE  Head(Path(s)) \in ToSet(bodyWork) \cup {order'[j] : j \in 1 .. k - 1}
    <3>1. CASE k \in 1 .. n
      BY <1>4, <2>1, <2>4, <2>7, <2>9, <3>1 DEF n
    <3>2. CASE k = n + 1
      <4>1. order'[k] = h /\ k - 1 = n
        BY <2>4, <2>6, <3>2
      <4> QED
        BY <2>1, <2>3, <2>8, <2>9, <4>1
    <3> QED
      BY <2>6, <3>1, <3>2
  <2> QED
    BY <1>3, <2>1, <2>4, <2>9 DEF Sorted
<1>7. ASSUME NEW c \in Types, CallsMembers(c)
      PROVE  Sorted'
  <2>1. /\ order # <<>> /\ order' = Tail(order) /\ c = Head(order) /\ bodyWork' = Append(bodyWork, c)
        /\ supers' = supers
    BY <1>7 DEF CallsMembers, NextMembers, marks
  <2> DEFINE m == Len(order')
  <2>2. /\ Len(order) = m + 1 /\ m \in Nat /\ order[1] = c
        /\ \A k \in 1 .. m : order'[k] = order[k + 1]
    <3>1. IsInjective(order)
      BY DEF Queues
    <3>2. /\ Head(order) = order[1] /\ Len(order') = Len(order) - 1 /\ Len(order) > 0
          /\ \A k \in 1 .. Len(order') : order'[k] = order[k + 1]
      BY <2>1, <3>1, TailSet
    <3> DEFINE n == Len(order)
    <3>3. n \in Nat
      OBVIOUS
    <3> HIDE DEF n
    <3>4. n = m + 1 /\ m \in Nat
      BY <3>2, <3>3 DEF n
    <3> QED
      BY <2>1, <3>2, <3>4 DEF n
  <2>3. ToSet(bodyWork') = ToSet(bodyWork) \cup {c}
    BY <2>1, AppendedSet
  <2> HIDE DEF m
  <2>4. ASSUME NEW k \in 1 .. m
        PROVE  /\ k + 1 \in 1 .. m + 1
               /\ \A i \in 1 .. (k + 1) - 1 : i = 1 \/ (i - 1 \in 1 .. k - 1 /\ i - 1 \in 1 .. m
                                                        /\ (i - 1) + 1 = i)
    BY <2>2
  <2>5. ASSUME NEW k \in 1 .. m
        PROVE  {order[j] : j \in 1 .. (k + 1) - 1} \subseteq {c} \cup {order'[j] : j \in 1 .. k - 1}
    <3> SUFFICES ASSUME NEW i \in 1 .. (k + 1) - 1
                 PROVE  order[i] \in {c} \cup {order'[j] : j \in 1 .. k - 1}
      OBVIOUS
    <3>1. CASE i = 1
      BY <2>2, <3>1
    <3>2. CASE i - 1 \in 1 .. k - 1 /\ i - 1 \in 1 .. m /\ (i - 1) + 1 = i
      <4>1. order'[i - 1] = order[(i - 1) + 1]
        BY <2>2, <3>2
      <4> QED
        BY <3>2, <4>1
    <3> QED
      BY <2>4, <3>1, <3>2
  <2>6. ASSUME NEW k \in 1 .. m, ~ OnSourceCycle(order'[k]), NEW s \in supers'[order'[k]]
        PROVE  Head(Path(s)) \in ToSet(bodyWork') \cup {order'[j] : j \in 1 .. k - 1}
    <3>1. k + 1 \in 1 .. Len(order) /\ order'[k] = order[k + 1]
      BY <2>2, <2>4
    <3>2. Head(Path(s)) \in ToSet(bodyWork) \cup {order[j] : j \in 1 .. (k + 1) - 1}
      BY <1>4, <2>1, <2>6, <3>1
    <3> QED
      BY <2>3, <2>5, <3>2
  <2> QED
    BY <1>3, <2>6 DEF Sorted, m
<1> QED
  BY <1>5, <1>6, <1>7, BatchSteps
     DEF ReadingStep, NamesDone, PartialOrder, QueuesHeader, HeadersDone, SortCalls, SortCall, SortDone,
         DeclaresMembers, MembersDeclared, CallsNested, NestedMembers, ReturnsMembers, MembersReturn,
         MembersDone, Finished, vars, sorting

\* A call of ProcessMembers stays for its type until it returns.
LEMMA MembersFrames ==
    ASSUME HeaderInv, Shape, Next, NEW k \in 1 .. Len(stack'), stack'[k].op = "members"
    PROVE  \/ k \in 1 .. Len(stack) /\ stack[k].op = "members" /\ stack'[k].on = stack[k].on
           \/ \E c \in Types : (CallsMembers(c) \/ CallsNested(c)) /\ stack'[k].on = c
<1> DEFINE n == Len(stack)
           m == Len(stack')
           Same == k \in 1 .. n /\ stack[k].op = "members" /\ stack'[k].on = stack[k].on
           New  == \E c \in Types : (CallsMembers(c) \/ CallsNested(c)) /\ stack'[k].on = c
<1>1. n \in Nat /\ m \in Nat
  <2>1. HeaderInv'
    BY HeaderStep
  <2>2. stack \in Seq(Frames) /\ stack' \in Seq(Frames)
    BY <2>1 DEF HeaderInv, TypeOK
  <2> QED
    BY <2>2
<1>2. k \in 1 .. m /\ stack'[k].op = "members"
  OBVIOUS
<1>3. ASSUME ReadingStep PROVE Same
  BY <1>2, <1>3 DEF ReadingStep, StackReads, SameMembers, Reading
<1>4. ASSUME NEW frame, Grown(frame) PROVE Same \/ (stack'[k] = frame /\ frame.op = "members")
  <2>1. /\ m = n + 1 /\ stack'[n + 1] = frame /\ \A j \in 1 .. n : stack'[j] = stack[j]
    BY <1>4 DEF Grown
  <2> HIDE DEF n, m
  <2>2. k \in 1 .. n \/ k = n + 1
    BY <1>1, <1>2, <2>1
  <2> QED
    BY <1>2, <2>1, <2>2
<1>5. ASSUME Shrunk PROVE Same
  <2>1. m = n - 1 /\ \A j \in 1 .. n - 1 : stack'[j] = stack[j]
    BY <1>5 DEF Shrunk
  <2> HIDE DEF n, m
  <2>2. k \in 1 .. n /\ k \in 1 .. n - 1
    BY <1>1, <1>2, <2>1
  <2> QED
    BY <1>2, <2>1, <2>2
<1>6. ASSUME UNCHANGED stack PROVE Same
  BY <1>2, <1>6
<1>7. ASSUME NEW t \in Types, QueuesHeader(t) PROVE Same
  BY <1>4, <1>6, <1>7 DEF QueuesHeader, Frame, FrameAt
<1>8. ASSUME NEW t \in Types, SortCalls(t) PROVE Same
  BY <1>4, <1>8 DEF SortCalls, Frame, FrameAt
<1>9. ASSUME NEW c \in Types, CallsMembers(c) \/ CallsNested(c) PROVE Same \/ New
  <2> DEFINE frame == Frame("members", c)
  <2>1. Grown(frame) /\ frame.on = c
    BY <1>9 DEF CallsMembers, CallsNested, Frame, FrameAt
  <2> HIDE DEF frame
  <2> QED
    BY <1>4, <1>9, <2>1
<1>10. ASSUME DeclaresMembers PROVE Same
  <2>1. /\ m = n /\ stack'[n] = FrameAt("members", Top.on, Top.i + 1, NoType)
        /\ \A j \in 1 .. n - 1 : stack'[j] = stack[j]
    BY <1>10 DEF DeclaresMembers, Replaced
  <2>2. Top = stack[n] /\ n \in 1 .. n /\ Top.op = "members"
    BY <1>10, OnStack DEF DeclaresMembers, MembersDeclared
  <2> HIDE DEF n, m
  <2>3. k = n \/ k \in 1 .. n - 1
    BY <1>1, <1>2, <2>1
  <2>4. k \in 1 .. n
    BY <1>2, <2>1
  <2> QED
    BY <1>2, <2>1, <2>2, <2>3, <2>4 DEF FrameAt
<1>11. ASSUME MembersDone \/ HeadersDone \/ PartialOrder \/ SortDone \/ NamesDone \/ Finished
       PROVE  Same
  BY <1>6, <1>11 DEF MembersDone, HeadersDone, PartialOrder, SortDone, NamesDone, Finished, vars
<1> HIDE DEF Same, New
<1>12. SortEmits \/ ReturnsMembers => Shrunk
  BY DEF SortEmits, ReturnsMembers
<1>13. Same \/ New
  BY <1>3, <1>5, <1>7, <1>8, <1>9, <1>10, <1>11, <1>12, BatchSteps
<1> QED
  BY <1>13 DEF Same, New

LEMMA HeadedStep ==
    ASSUME HeaderInv, Shape, Batches, Queues, Headed, Next
    PROVE  Headed'
<1> USE ListFacts
<1>1. \A t \in header : t \in header'
  <2>1. header \subseteq header'
    BY StepKinds DEF Quiet, Pushes, Loads, Pops, Steps, Kept, EntersType, HeaderUnusable,
       HeaderResolve, HeaderRecord, HeaderDone, marks, Enter
  <2> QED
    BY <2>1
<1> DEFINE Settled(t) == t \in header /\ ~ InProgress(t)
           After(t)   == /\ t \in header'
                         /\ \A k \in DOMAIN stack' : stack'[k].op = "header" => stack'[k].on # t
<1>2. \A t : Settled(t) => After(t)
  BY SettledStep DEF InProgress
<1>3. /\ collection \subseteq header
      /\ \A t \in ToSet(order) \cup ToSet(bodyWork) \cup declared : Settled(t)
      /\ \A k \in 1 .. Len(stack) : stack[k].op = "members" => Settled(stack[k].on)
  BY DEF Headed
<1> HIDE DEF Settled
<1>4. collection' \subseteq header'
  <2>1. ASSUME collection' \subseteq collection
        PROVE  collection' \subseteq header'
    BY <1>1, <1>3, <2>1
  <2>2. ASSUME NEW t \in Types, QueuesHeader(t)
        PROVE  collection' \subseteq header'
    BY <1>1, <1>3, <2>2 DEF QueuesHeader
  <2>3. (\E t \in Types : QueuesHeader(t)) \/ collection' \subseteq collection
    BY BatchSteps
       DEF ReadingStep, NamesDone, PartialOrder, HeadersDone, SortCalls, SortCall, SortEmits, SortEmit,
           SortDone, CallsMembers, NextMembers, DeclaresMembers, MembersDeclared, CallsNested,
           NestedMembers, ReturnsMembers, MembersReturn, MembersDone, Finished, vars, sorting
  <2> QED
    BY <2>1, <2>2, <2>3
<1>5. ASSUME NEW op \in {"sort", "members"}, Running(op), NEW t
      PROVE  ~ InProgress(t)
  BY <1>5, OnStack DEF InProgress
<1>6. \A t \in ToSet(order') \cup ToSet(bodyWork') \cup declared' : After(t)
  <2>1. ASSUME ToSet(order') \cup ToSet(bodyWork') \cup declared'
                   \subseteq ToSet(order) \cup ToSet(bodyWork) \cup declared
        PROVE  \A t \in ToSet(order') \cup ToSet(bodyWork') \cup declared' : After(t)
    BY <1>2, <1>3, <2>1
  <2>2. ASSUME NEW t \in header, ~ InProgress(t),
               ToSet(order') \cup ToSet(bodyWork') \cup declared'
                   \subseteq ToSet(order) \cup ToSet(bodyWork) \cup declared \cup {t}
        PROVE  \A u \in ToSet(order') \cup ToSet(bodyWork') \cup declared' : After(u)
    <3>1. Settled(t)
      BY <2>2 DEF Settled
    <3> HIDE DEF After
    <3> QED
      BY <1>2, <1>3, <2>2, <3>1
  <2>3. CASE SortEmits
    <3>1. /\ Running("sort") /\ order' = Append(order, Top.on) /\ UNCHANGED <<bodyWork, declared>>
          /\ Top.on \in collection /\ Top.on \in Types
      BY <2>3, OnStack DEF SortEmits, SortEmit, Queues
    <3>2. ToSet(order') = ToSet(order) \cup {Top.on}
      BY <3>1, AppendedSet
    <3>3. Top.on \in header /\ ~ InProgress(Top.on)
      BY <1>3, <1>5, <3>1
    <3> HIDE DEF After
    <3> QED
      BY <2>2, <3>1, <3>2, <3>3
  <2>4. ASSUME NEW c \in Types, CallsMembers(c)
        PROVE  \A t \in ToSet(order') \cup ToSet(bodyWork') \cup declared' : After(t)
    <3>1. /\ order # <<>> /\ c = Head(order) /\ order' = Tail(order) /\ bodyWork' = Append(bodyWork, c)
          /\ declared' = declared /\ IsInjective(order)
      BY <2>4 DEF CallsMembers, NextMembers, Queues
    <3>2. ToSet(order) = ToSet(order') \cup {c}
      BY <3>1, TailSet
    <3>3. ToSet(bodyWork') = ToSet(bodyWork) \cup {c}
      BY <3>1, AppendedSet
    <3> QED
      BY <2>1, <3>1, <3>2, <3>3
  <2>5. CASE DeclaresMembers
    <3>1. /\ Running("members") /\ declared' = declared \cup {Top.on} /\ UNCHANGED <<order, bodyWork>>
          /\ Top = stack[Len(stack)] /\ Len(stack) \in 1 .. Len(stack) /\ Top.op = "members"
      BY <2>5, OnStack DEF DeclaresMembers, MembersDeclared
    <3>2. Settled(Top.on)
      BY <1>3, <3>1
    <3> HIDE DEF After
    <3> QED
      BY <2>2, <3>1, <3>2 DEF Settled
  <2>6. CASE MembersDone \/ HeadersDone \/ PartialOrder \/ SortDone \/ NamesDone \/ Finished
    BY <2>1, <2>6 DEF MembersDone, HeadersDone, PartialOrder, SortDone, NamesDone, Finished,
                      vars, sorting
  <2> QED
    BY <2>1, <2>3, <2>4, <2>5, <2>6, BatchSteps
       DEF ReadingStep, QueuesHeader, SortCalls, SortCall, CallsNested, NestedMembers,
           ReturnsMembers, MembersReturn, sorting
<1>7. \A k \in 1 .. Len(stack') : stack'[k].op = "members" => After(stack'[k].on)
  <2> SUFFICES ASSUME NEW k \in 1 .. Len(stack'), stack'[k].op = "members"
               PROVE  After(stack'[k].on)
    OBVIOUS
  <2> HIDE DEF After
  <2>1. CASE k \in 1 .. Len(stack) /\ stack[k].op = "members" /\ stack'[k].on = stack[k].on
    BY <1>2, <1>3, <2>1
  <2>2. ASSUME NEW c \in Types, CallsMembers(c), stack'[k].on = c
        PROVE  After(stack'[k].on)
    <3>1. order # <<>> /\ c = Head(order) /\ IsInjective(order)
      BY <2>2 DEF CallsMembers, NextMembers, Queues
    <3>2. c \in ToSet(order)
      BY <3>1, TailSet
    <3> QED
      BY <1>2, <1>3, <2>2, <3>2
  <2>3. ASSUME NEW c \in Types, CallsNested(c), stack'[k].on = c
        PROVE  After(stack'[k].on)
    <3>1. Running("members") /\ c \in Nested(Top.on)
      BY <2>3 DEF CallsNested, NestedMembers
    <3>2. /\ Top.on \in header /\ \A j \in 1 .. Len(stack) : stack[j].op = "members"
      BY <1>3, <3>1, OnStack DEF Settled
    <3>3. c \in header
      BY <3>1, <3>2 DEF HeaderInv, NestedKnown
    <3>4. Settled(c)
      BY <1>5, <3>1, <3>3 DEF Settled
    <3> QED
      BY <1>2, <2>3, <3>4
  <2> QED
    BY <2>1, <2>2, <2>3, MembersFrames
<1> QED
  <2>1. (\A t \in ToSet(order) \cup ToSet(bodyWork) \cup declared : t \in header /\ ~ InProgress(t))'
    BY <1>6 DEF InProgress
  <2>2. (\A k \in 1 .. Len(stack) : stack[k].op = "members" =>
             stack[k].on \in header /\ ~ InProgress(stack[k].on))'
    BY <1>7 DEF InProgress
  <2> QED
    BY <1>4, <2>1, <2>2 DEF Headed

LEMMA MembersStep ==
    ASSUME HeaderInv, Shape, Batches, Queues, Members, Next
    PROVE  Members'
<1> USE ListFacts
<1> DEFINE n == Len(stack)
           m == Len(stack')
           On(t)   == \E k \in 1 .. n : stack[k].op = "members" /\ stack[k].on = t
           OnNow(t) == \E k \in 1 .. m : stack'[k].op = "members" /\ stack'[k].on = t
           L(t)    == Len(prog.member[t])
<1>1. n \in Nat /\ m \in Nat /\ \A k \in 1 .. n : stack[k].i \in Nat
  <2>1. HeaderInv'
    BY HeaderStep
  <2>2. stack' \in Seq(Frames)
    BY <2>1 DEF HeaderInv, TypeOK
  <2>3. \A k \in 1 .. n : stack[k] \in Frames
    OBVIOUS
  <2> QED
    BY <2>2, <2>3 DEF Frames
<1>2. /\ \A t \in ToSet(bodyWork) : t \in declared \/ On(t)
      /\ \A t \in declared : Nested(t) \subseteq declared \/ On(t)
      /\ \A t \in declared : TopLevel(t) => t \in ToSet(bodyWork)
      /\ \A k \in 1 .. n : stack[k].op = "members" =>
            /\ stack[k].on \in declared <=> stack[k].i > L(stack[k].on) + 1
            /\ \A j \in 1 .. k - 1 : stack[j].on \in declared /\ stack[j].on # stack[k].on
            /\ TopLevel(stack[k].on) => stack[k].on \in ToSet(bodyWork)
  BY DEF Members
<1>3. \A k \in 1 .. n : stack[k].op = "members" => L(stack[k].on) \in Nat
  <2> SUFFICES ASSUME NEW k \in 1 .. n, stack[k].op = "members"
               PROVE  L(stack[k].on) \in Nat
    OBVIOUS
  <2>1. stack[k].on \in Types
    BY DEF Frames
  <2> QED
    BY <2>1, ProgramFacts
<1> HIDE DEF n, m, L
<1>4. ASSUME prog' = prog,
             \A t \in ToSet(bodyWork') : t \in declared' \/ OnNow(t),
             \A t \in declared' : Nested(t) \subseteq declared' \/ OnNow(t),
             \A t \in declared' : TopLevel(t) => t \in ToSet(bodyWork'),
             \A k \in 1 .. m : stack'[k].op = "members" =>
                 /\ stack'[k].on \in declared' <=> stack'[k].i > L(stack'[k].on) + 1
                 /\ \A j \in 1 .. k - 1 : stack'[j].on \in declared' /\ stack'[j].on # stack'[k].on
                 /\ TopLevel(stack'[k].on) => stack'[k].on \in ToSet(bodyWork')
      PROVE  Members'
  BY <1>4 DEF Members, m, L, Nested, TopLevel
<1>5. ASSUME UNCHANGED <<prog, declared, bodyWork>>,
             \A k \in 1 .. n : stack[k].op = "members" => k \in 1 .. m /\ SameMembers(k),
             \A k \in 1 .. m : stack'[k].op = "members" => k \in 1 .. n /\ SameMembers(k)
      PROVE  Members'
  <2>1. \A t : On(t) => OnNow(t)
    BY <1>5 DEF SameMembers
  <2>2. ASSUME NEW k \in 1 .. m, stack'[k].op = "members"
        PROVE  /\ stack'[k].on \in declared <=> stack'[k].i > L(stack'[k].on) + 1
               /\ \A j \in 1 .. k - 1 : stack'[j].on \in declared /\ stack'[j].on # stack'[k].on
               /\ TopLevel(stack'[k].on) => stack'[k].on \in ToSet(bodyWork)
    <3>1. k \in 1 .. n /\ SameMembers(k) /\ stack[k].op = "members" /\ stack'[k].on = stack[k].on
      BY <1>5, <2>2 DEF SameMembers
    <3>2. stack'[k].i > L(stack[k].on) + 1 <=> stack[k].i > L(stack[k].on) + 1
      <4>1. stack[k].i \in Nat /\ L(stack[k].on) \in Nat
        BY <1>1, <1>3, <3>1
      <4>2. \/ stack'[k].i = stack[k].i
            \/ stack[k].i <= L(stack[k].on) /\ stack'[k].i = stack[k].i + 1
        BY <3>1 DEF SameMembers, L
      <4> QED
        BY <4>1, <4>2
    <3>3. ASSUME NEW j \in 1 .. k - 1
          PROVE  stack'[j].on = stack[j].on
      <4>1. j \in 1 .. n
        BY <1>1, <3>1
      <4>2. stack[j].op = "members"
        <5>1. \A i \in 1 .. k - 1 : stack[i].op = "members"
          BY <3>1 DEF Shape, n
        <5> QED
          BY <5>1
      <4> QED
        BY <1>5, <4>1, <4>2 DEF SameMembers
    <3> QED
      BY <1>2, <3>1, <3>2, <3>3
  <2> QED
    BY <1>2, <1>4, <1>5, <2>1, <2>2
<1>6. CASE ReadingStep
  <2>1. /\ \A k \in 1 .. n : stack[k].op = "members" => k \in 1 .. m /\ SameMembers(k)
        /\ \A k \in 1 .. m : stack'[k].op = "members" => k \in 1 .. n /\ SameMembers(k)
    BY <1>6 DEF ReadingStep, StackReads, Reading, n, m
  <2> QED
    BY <1>5, <1>6, <2>1 DEF ReadingStep, sorting
<1>7. ASSUME UNCHANGED <<prog, declared, bodyWork>>,
             stack' = stack
      PROVE  Members'
  <2>1. m = n /\ \A k \in 1 .. n : stack[k].op = "members" => SameMembers(k)
    BY <1>7 DEF n, m, SameMembers
  <2>2. \A k \in 1 .. m : stack'[k].op = "members" => k \in 1 .. n /\ SameMembers(k)
    BY <1>7, <2>1
  <2> QED
    BY <1>5, <1>7, <2>1, <2>2
<1>8. ASSUME UNCHANGED <<prog, declared, bodyWork>>, phase \in {"headers", "sort"},
             \/ Shrunk
             \/ \E t \in Types, op \in {"header", "sort"} : Grown(Frame(op, t))
      PROVE  Members'
  <2>1. \A k \in 1 .. n : stack[k].op # "members"
    BY <1>8 DEF Shape, Reading, n
  <2>2. CASE Shrunk
    <3>1. m = n - 1 /\ \A k \in 1 .. n - 1 : stack'[k] = stack[k]
      BY <2>2 DEF Shrunk, n, m
    <3>2. \A k \in 1 .. m : k \in 1 .. n /\ k \in 1 .. n - 1
      BY <1>1, <3>1
    <3> QED
      BY <1>5, <1>8, <2>1, <3>1, <3>2
  <2>3. ASSUME NEW t \in Types, NEW op \in {"header", "sort"}, Grown(Frame(op, t))
        PROVE  Members'
    <3>1. /\ m = n + 1 /\ stack'[n + 1].op # "members"
          /\ \A k \in 1 .. n : stack'[k] = stack[k]
      BY <2>3 DEF Grown, n, m, Frame, FrameAt
    <3>2. \A k \in 1 .. m : k \in 1 .. n \/ k = n + 1
      BY <1>1, <3>1
    <3> QED
      BY <1>5, <1>8, <2>1, <3>1, <3>2
  <2> QED
    BY <1>8, <2>2, <2>3
<1>9. ASSUME NEW c \in Types, CallsMembers(c)
      PROVE  Members'
  <2>1. /\ stack = <<>> /\ order # <<>> /\ c = Head(order) /\ bodyWork' = Append(bodyWork, c)
        /\ UNCHANGED <<prog, declared>> /\ Grown(Frame("members", c)) /\ phase = "members"
        /\ IsInjective(order)
    BY <1>9 DEF CallsMembers, NextMembers, Queues
  <2>2. n = 0 /\ m = 1 /\ stack'[1].op = "members" /\ stack'[1].on = c /\ stack'[1].i = 1
    <3>1. n = 0
      BY <2>1 DEF n
    <3>2. m = n + 1 /\ stack'[n + 1] = Frame("members", c)
      BY <2>1 DEF Grown, n, m
    <3> QED
      BY <3>1, <3>2 DEF Frame, FrameAt
  <2>3. ToSet(bodyWork') = ToSet(bodyWork) \cup {c}
    BY <2>1, AppendedSet
  <2>4. c \notin declared
    <3>1. c \in ToSet(order)
      BY <2>1, TailSet
    <3>2. TopLevel(c) /\ c \notin ToSet(bodyWork)
      BY <2>1, <3>1 DEF Batches, Queued
    <3> QED
      BY <1>2, <3>2
  <2>5. L(c) \in Nat
    BY ProgramFacts DEF L
  <2>6. \A k \in 1 .. m : k = 1
    BY <2>2
  <2>7. 1 \in 1 .. m /\ (1 .. 1 - 1) = {} /\ 1 .. n = {}
    BY <2>2
  <2>8. \A t : ~ On(t)
    BY <2>7
  <2>9. OnNow(c)
    BY <2>2, <2>7
  <2>10. ~ (1 > L(c) + 1)
    BY <2>5
  <2>11. \A k \in 1 .. m : stack'[k].op = "members" =>
             /\ stack'[k].on \in declared <=> stack'[k].i > L(stack'[k].on) + 1
             /\ \A j \in 1 .. k - 1 : stack'[j].on \in declared /\ stack'[j].on # stack'[k].on
             /\ TopLevel(stack'[k].on) => stack'[k].on \in ToSet(bodyWork')
    BY <2>2, <2>3, <2>4, <2>6, <2>7, <2>10
  <2> HIDE DEF On, OnNow
  <2>12. \A t \in ToSet(bodyWork') : t \in declared \/ OnNow(t)
    BY <1>2, <2>3, <2>8, <2>9
  <2>13. \A t \in declared : Nested(t) \subseteq declared /\ (TopLevel(t) => t \in ToSet(bodyWork'))
    BY <1>2, <2>3, <2>8
  <2> QED
    BY <1>4, <2>1, <2>11, <2>12, <2>13 DEF OnNow
<1>10. CASE DeclaresMembers
  <2> DEFINE h == Top.on
  <2>1. /\ Running("members") /\ Top.i = L(h) + 1 /\ declared' = declared \cup {h}
        /\ UNCHANGED <<prog, bodyWork>>
        /\ Replaced(FrameAt("members", h, Top.i + 1, NoType))
    BY <1>10 DEF DeclaresMembers, MembersDeclared, L
  <2>2. /\ Top = stack[n] /\ n \in 1 .. n /\ Top.op = "members" /\ Top.i \in Nat /\ h \in Types
        /\ \A k \in 1 .. n : stack[k].op = "members"
    BY <2>1, OnStack DEF n
  <2> HIDE DEF h
  <2>3. /\ m = n /\ stack'[n].op = "members" /\ stack'[n].on = h /\ stack'[n].i = Top.i + 1
        /\ \A k \in 1 .. n - 1 : stack'[k] = stack[k]
    BY <2>1 DEF Replaced, n, m, FrameAt
  <2>4. \A k \in 1 .. n : k = n \/ (k \in 1 .. n - 1 /\ \A j \in 1 .. k - 1 : j \in 1 .. n - 1)
    BY <1>1
  <2>5. \A k \in 1 .. n : stack'[k].op = "members" /\ stack'[k].on = stack[k].on
    BY <2>2, <2>3, <2>4 DEF h
  <2>6. stack[n].on = h /\ \A j \in 1 .. n - 1 : stack[j].on \in declared /\ stack[j].on # h
    BY <1>2, <2>2 DEF h
  <2>7. \A t : On(t) <=> OnNow(t)
    BY <2>2, <2>3, <2>5
  <2>8. OnNow(h)
    BY <2>2, <2>3
  <2>9. L(h) \in Nat
    BY <2>2, ProgramFacts DEF L
  <2>10. stack'[n].i > L(h) + 1
    BY <2>1, <2>2, <2>3, <2>9
  <2> HIDE DEF On, OnNow
  <2>11. ASSUME NEW k \in 1 .. m
         PROVE  /\ stack'[k].on \in declared' <=> stack'[k].i > L(stack'[k].on) + 1
                /\ \A j \in 1 .. k - 1 : stack'[j].on \in declared' /\ stack'[j].on # stack'[k].on
                /\ TopLevel(stack'[k].on) => stack'[k].on \in ToSet(bodyWork')
    <3>1. CASE k = n
      BY <1>2, <2>1, <2>2, <2>3, <2>6, <2>10, <3>1
    <3>2. CASE k # n
      <4>1. /\ k \in 1 .. n - 1 /\ stack'[k] = stack[k] /\ stack[k].op = "members"
            /\ stack[k].on # h /\ \A j \in 1 .. k - 1 : stack'[j] = stack[j]
        BY <2>2, <2>3, <2>4, <2>6, <3>2
      <4>2. k \in 1 .. n
        BY <2>3
      <4> QED
        BY <1>2, <2>1, <4>1, <4>2
    <3> QED
      BY <3>1, <3>2
  <2>12. h \in ToSet(bodyWork) \/ ~ TopLevel(h)
    BY <1>2, <2>2, <2>6
  <2>13. /\ \A t \in ToSet(bodyWork') : t \in declared' \/ OnNow(t)
         /\ \A t \in declared' : Nested(t) \subseteq declared' \/ OnNow(t)
         /\ \A t \in declared' : TopLevel(t) => t \in ToSet(bodyWork')
    BY <1>2, <2>1, <2>7, <2>8, <2>12
  <2> QED
    BY <1>4, <2>1, <2>11, <2>13 DEF OnNow
<1>11. ASSUME NEW c \in Types, CallsNested(c)
       PROVE  Members'
  <2> DEFINE h == Top.on
  <2>1. /\ Running("members") /\ Top.i > L(h) + 1 /\ c \in Nested(h) \ declared
        /\ UNCHANGED <<prog, declared, bodyWork>> /\ Grown(Frame("members", c))
    BY <1>11 DEF CallsNested, NestedMembers, L, sorting
  <2>2. /\ Top = stack[n] /\ n \in 1 .. n /\ h \in Types
        /\ \A k \in 1 .. n : stack[k].op = "members"
    BY <2>1, OnStack DEF n
  <2> HIDE DEF h
  <2>3. /\ m = n + 1 /\ stack'[n + 1].op = "members" /\ stack'[n + 1].on = c /\ stack'[n + 1].i = 1
        /\ \A k \in 1 .. n : stack'[k] = stack[k]
    BY <2>1 DEF Grown, n, m, Frame, FrameAt
  <2>4. /\ \A k \in 1 .. m : k \in 1 .. n \/ (k = n + 1 /\ k - 1 = n)
        /\ \A k \in 1 .. n : k \in 1 .. m /\ \A j \in 1 .. k - 1 : j \in 1 .. n
        /\ \A k \in 1 .. n : k = n \/ k \in 1 .. n - 1
    <3>1. m = n + 1
      BY <2>3
    <3>2. \A k \in 1 .. m : k \in 1 .. n \/ (k = n + 1 /\ k - 1 = n)
      BY <1>1, <3>1
    <3>3. \A k \in 1 .. n : k \in 1 .. m /\ (k = n \/ k \in 1 .. n - 1)
      BY <1>1, <3>1
    <3>4. \A k \in 1 .. n : \A j \in 1 .. k - 1 : j \in 1 .. n
      BY <1>1
    <3> QED
      BY <3>2, <3>3, <3>4
  <2>5. \A k \in 1 .. n : stack[k].on \in declared
    BY <1>2, <2>1, <2>2, <2>4 DEF h
  <2>6. L(c) \in Nat /\ ~ TopLevel(c)
    <3>1. prog.outer[c] = h
      BY <2>1 DEF Nested
    <3>2. prog.outer[c] # NoType
      BY <2>2, <3>1, NoTypeAssumption
    <3>3. prog.member[c] \in Seq(Types)
      BY ProgramFacts
    <3> QED
      BY <3>2, <3>3 DEF L, TopLevel
  <2>7. ~ (1 > L(c) + 1)
    BY <2>6
  <2>8. \A t : On(t) => OnNow(t)
    BY <2>3, <2>4
  <2>9. ASSUME NEW k \in 1 .. m, stack'[k].op = "members"
        PROVE  /\ stack'[k].on \in declared <=> stack'[k].i > L(stack'[k].on) + 1
               /\ \A j \in 1 .. k - 1 : stack'[j].on \in declared /\ stack'[j].on # stack'[k].on
               /\ TopLevel(stack'[k].on) => stack'[k].on \in ToSet(bodyWork)
    <3>1. CASE k \in 1 .. n
      BY <1>2, <2>2, <2>3, <2>4, <3>1
    <3>2. CASE k = n + 1 /\ k - 1 = n
      BY <2>1, <2>3, <2>5, <2>6, <2>7, <3>2
    <3> QED
      BY <2>4, <3>1, <3>2
  <2> HIDE DEF On, OnNow
  <2>10. /\ \A t \in ToSet(bodyWork) : t \in declared \/ OnNow(t)
         /\ \A t \in declared : Nested(t) \subseteq declared \/ OnNow(t)
    BY <1>2, <2>8
  <2> QED
    BY <1>2, <1>4, <2>1, <2>9, <2>10 DEF OnNow
<1>12. CASE ReturnsMembers
  <2> DEFINE h == Top.on
  <2>1. /\ Running("members") /\ Top.i > L(h) + 1 /\ Nested(h) \subseteq declared
        /\ UNCHANGED <<prog, declared, bodyWork>> /\ Shrunk
    BY <1>12 DEF ReturnsMembers, MembersReturn, L, sorting
  <2>2. /\ Top = stack[n] /\ n \in 1 .. n /\ h \in Types
        /\ \A k \in 1 .. n : stack[k].op = "members"
    BY <2>1, OnStack DEF n
  <2>3. h \in declared
    BY <1>2, <2>1, <2>2
  <2> HIDE DEF h
  <2>4. m = n - 1 /\ \A k \in 1 .. n - 1 : stack'[k] = stack[k]
    BY <2>1 DEF Shrunk, n, m
  <2>5. /\ \A k \in 1 .. m : k \in 1 .. n /\ k \in 1 .. n - 1 /\ \A j \in 1 .. k - 1 : j \in 1 .. n - 1
        /\ \A k \in 1 .. n : k = n \/ k \in 1 .. m
    BY <1>1, <2>4
  <2>6. \A t : On(t) => OnNow(t) \/ t = h
    BY <2>2, <2>4, <2>5 DEF h
  <2>7. \A k \in 1 .. m : stack'[k].op = "members" =>
            /\ stack'[k].on \in declared <=> stack'[k].i > L(stack'[k].on) + 1
            /\ \A j \in 1 .. k - 1 : stack'[j].on \in declared /\ stack'[j].on # stack'[k].on
            /\ TopLevel(stack'[k].on) => stack'[k].on \in ToSet(bodyWork)
    BY <1>2, <2>4, <2>5
  <2> HIDE DEF On, OnNow
  <2>8. /\ \A t \in ToSet(bodyWork) : t \in declared \/ OnNow(t)
        /\ \A t \in declared : Nested(t) \subseteq declared \/ OnNow(t)
    BY <1>2, <2>1, <2>3, <2>6
  <2> QED
    BY <1>2, <1>4, <2>1, <2>7, <2>8 DEF OnNow
<1>13. ASSUME NEW t \in Types, QueuesHeader(t)
       PROVE  Members'
  BY <1>7, <1>8, <1>13 DEF QueuesHeader
<1>14. ASSUME NEW t \in Types, SortCalls(t)
       PROVE  Members'
  BY <1>8, <1>14 DEF SortCalls, SortCall
<1>15. CASE SortEmits
  BY <1>8, <1>15 DEF SortEmits, SortEmit
<1>16. CASE MembersDone \/ HeadersDone \/ PartialOrder \/ SortDone \/ NamesDone \/ Finished
  BY <1>7, <1>16 DEF MembersDone, HeadersDone, PartialOrder, SortDone, NamesDone, Finished, vars, sorting
<1> QED
  BY <1>6, <1>9, <1>10, <1>11, <1>12, <1>13, <1>14, <1>15, <1>16, BatchSteps

LEMMA MembersAfterSupersStep ==
    ASSUME HeaderInv, Shape, Queues, Sorted, Headed, Members, MembersAfterSupers, Next
    PROVE  MembersAfterSupers'
<1> USE ListFacts
<1>1. prog' = prog /\ declared \subseteq declared'
  BY BatchSteps
     DEF ReadingStep, NamesDone, PartialOrder, QueuesHeader, HeadersDone, SortCalls, SortCall, SortEmits,
         SortEmit, SortDone, CallsMembers, NextMembers, DeclaresMembers, MembersDeclared, CallsNested,
         NestedMembers, ReturnsMembers, MembersReturn, MembersDone, Finished, vars, sorting
<1>2. \A t : /\ Path(t)' = Path(t) /\ (TopLevel(t)' <=> TopLevel(t))
             /\ (OnSourceCycle(t)' <=> OnSourceCycle(t))
  BY <1>1 DEF Path, TopLevel, OnSourceCycle, Above
<1>3. ASSUME NEW k \in 1 .. Len(stack'), stack'[k].op = "members", TopLevel(stack'[k].on),
             ~ OnSourceCycle(stack'[k].on), NEW s \in supers'[stack'[k].on]
      PROVE  Head(Path(s)) \in declared'
  <2>1. CASE k \in 1 .. Len(stack) /\ stack[k].op = "members" /\ stack'[k].on = stack[k].on
    <3>1. stack[k].on \in header /\ ~ InProgress(stack[k].on)
      BY <2>1 DEF Headed
    <3>2. supers'[stack[k].on] = supers[stack[k].on]
      BY <3>1, SettledStep
    <3> QED
      BY <1>1, <1>3, <2>1, <3>2 DEF MembersAfterSupers
  <2>2. ASSUME NEW c \in Types, CallsMembers(c), stack'[k].on = c
        PROVE  Head(Path(s)) \in declared'
    <3>1. /\ order # <<>> /\ c = Head(order) /\ IsInjective(order) /\ stack = <<>>
          /\ supers' = supers
      BY <2>2 DEF CallsMembers, NextMembers, Queues, marks
    <3>2. c = order[1] /\ Len(order) > 0
      BY <3>1, TailSet
    <3>3. 1 \in 1 .. Len(order) /\ {order[j] : j \in 1 .. 1 - 1} = {}
      <4> DEFINE n == Len(order)
      <4>1. n \in Nat /\ n > 0
        BY <3>2
      <4> HIDE DEF n
      <4>2. 1 \in 1 .. n /\ 1 .. 1 - 1 = {}
        BY <4>1
      <4> QED
        BY <4>2 DEF n
    <3>4. Head(Path(s)) \in ToSet(bodyWork)
      BY <1>3, <2>2, <3>1, <3>2, <3>3 DEF Sorted
    <3>5. 1 .. Len(stack) = {}
      <4>1. Len(stack) = 0
        BY <3>1
      <4> QED
        BY <4>1
    <3> QED
      BY <1>1, <3>4, <3>5 DEF Members
  <2>3. ASSUME NEW c \in Types, CallsNested(c), stack'[k].on = c
        PROVE  FALSE
    <3>1. Running("members") /\ prog.outer[c] = Top.on
      BY <2>3 DEF CallsNested, NestedMembers, Nested
    <3>2. Top.on \in Types
      BY <3>1, OnStack
    <3> QED
      BY <1>3, <2>3, <3>1, <3>2, NoTypeAssumption DEF TopLevel
  <2> QED
    BY <1>3, <2>1, <2>2, <2>3, MembersFrames
<1>4. DOMAIN stack' = 1 .. Len(stack')
  <2>1. HeaderInv'
    BY HeaderStep
  <2>2. stack' \in Seq(Frames)
    BY <2>1 DEF HeaderInv, TypeOK
  <2> QED
    BY <2>2
<1> QED
  BY <1>2, <1>3, <1>4 DEF MembersAfterSupers

\* Nothing is left when ProcessMembers finds no new file: a type of a file that
\* was read is declared if it is a top-level type, and if its enclosing type is.
LEMMA NothingLeft ==
    ASSUME HeaderInv, Batches, Queues, Members, phase = "members", stack = <<>>, order = <<>>,
           ~ (start < Len(tuple)), NEW t \in Types, File(t) \in loaded
    PROVE  t \in declared /\ (TopLevel(t) => t \in ToSet(bodyWork))
<1> USE ListFacts
<1> DEFINE S == {u \in Types : File(u) \in loaded => u \in declared}
<1>1. 1 .. Len(stack) = {} /\ ToSet(order) = {}
  <2>1. Len(stack) = 0 /\ Len(order) = 0
    OBVIOUS
  <2>2. 1 .. Len(stack) = {} /\ 1 .. Len(order) = {}
    BY <2>1
  <2> QED
    BY <2>2
<1>2. todo = {} /\ collection = {} /\ Queued = {}
  BY <1>1 DEF Queues, Queued
<1>3. start = Len(tuple)
  <2> DEFINE n == Len(tuple)
  <2>1. n \in Nat /\ start <= n /\ ~ (start < n)
    BY DEF Batches
  <2> HIDE DEF n
  <2>2. start = n
    BY <2>1
  <2> QED
    BY <2>2 DEF n
<1>4. ASSUME NEW u \in Types, TopLevel(u), File(u) \in loaded
      PROVE  u \in ToSet(bodyWork)
  <2>1. File(u) \in ToSet(tuple)
    BY <1>4 DEF Batches
  <2>2. Listed(u)
    BY <1>3, <2>1 DEF Listed
  <2> QED
    BY <1>2, <1>4, <2>2 DEF Batches
<1>5. \A u \in ToSet(bodyWork) : u \in declared
  BY <1>1 DEF Members
<1>6. \A u \in declared : Nested(u) \subseteq declared
  BY <1>1 DEF Members
<1>7. ASSUME NEW u \in Types, prog.outer[u] \in S \cup {NoType}
      PROVE  u \in S
  <2>1. CASE prog.outer[u] = NoType
    BY <1>4, <1>5, <2>1 DEF TopLevel
  <2>2. CASE prog.outer[u] \in S
    <3>1. u \in Nested(prog.outer[u]) /\ prog.outer[u] \in Types
      BY <2>2 DEF Nested
    <3>2. File(u) = File(prog.outer[u])
      BY <3>1, ProgramFacts
    <3> QED
      BY <1>6, <2>2, <3>1, <3>2
  <2> QED
    BY <1>7, <2>1, <2>2
<1>8. WellFormed(prog)
  BY ProgramsAssumption
<1>9. S = Types
  <2>1. S \in SUBSET Types
    OBVIOUS
  <2> HIDE DEF S
  <2> QED
    BY <1>7, <1>8, <2>1 DEF WellFormed
<1> QED
  BY <1>4, <1>9

LEMMA AllDoneStep ==
    ASSUME HeaderInv, Shape, Batches, Queues, Members, AllDone, Next
    PROVE  AllDone'
<1> SUFFICES ASSUME phase' = "done" PROVE AllDone'
  BY DEF AllDone
<1>1. CASE phase = "done"
  <2>1. UNCHANGED <<prog, loaded, declared, bodyWork>>
    <3>1. stack = <<>>
      BY <1>1 DEF Shape
    <3> QED
      BY <1>1, <3>1, BatchSteps
         DEF ReadingStep, NamesDone, PartialOrder, QueuesHeader, HeadersDone, SortCalls, SortEmits,
             SortDone, CallsMembers, DeclaresMembers, CallsNested, ReturnsMembers, MembersDone,
             Finished, vars, source, sorting
  <2> QED
    BY <1>1, <2>1 DEF AllDone, File, TopLevel
<1>2. CASE phase # "done"
  <2>1. MembersDone
    BY <1>2, BatchSteps
       DEF ReadingStep, NamesDone, PartialOrder, QueuesHeader, HeadersDone, SortCalls, SortCall, SortEmits,
           SortEmit, SortDone, CallsMembers, NextMembers, DeclaresMembers, MembersDeclared, CallsNested,
           NestedMembers, ReturnsMembers, MembersReturn, Finished, vars
  <2>2. /\ phase = "members" /\ stack = <<>> /\ order = <<>> /\ ~ (start < Len(tuple))
        /\ UNCHANGED <<prog, loaded, declared, bodyWork>>
    BY <2>1 DEF MembersDone, sorting
  <2>3. \A t \in Types : File(t) \in loaded =>
            t \in declared /\ (TopLevel(t) => t \in ToSet(bodyWork))
    BY <2>2, NothingLeft
  <2> QED
    BY <2>2, <2>3 DEF AllDone, File, TopLevel
<1> QED
  BY <1>1, <1>2

-----------------------------------------------------------------------------
(***************************************************************************)
(* The theorems.                                                           *)
(***************************************************************************)

\* Nothing is queued, and only the names of the root file are being read.
LEMMA InitBatch ==
    ASSUME Init
    PROVE  BatchInv
<1>1. /\ HeaderInv
  BY InitHeader
<1> USE ListFacts
<1>2. /\ tuple = <<prog.root>> /\ loaded = {prog.root} /\ start = 0 /\ phase = "names"
      /\ todo = {} /\ collection = {} /\ pending = {} /\ declared = {}
      /\ order = <<>> /\ bodyWork = <<>> /\ supers = [t \in Types |-> {}]
      /\ stack = <<Frame("names", prog.root)>>
  BY DEF Init
<1>3. /\ Len(stack) = 1 /\ stack[1].op = "names" /\ 1 .. Len(stack) = {1}
      /\ Len(tuple) = 1 /\ tuple[1] = prog.root /\ DOMAIN tuple = {1}
      /\ 1 .. Len(order) = {} /\ DOMAIN stack = {1} /\ 1 .. start = {}
      /\ ToSet(order) = {} /\ ToSet(bodyWork) = {}
  BY <1>2 DEF Frame, FrameAt, ToSet
<1>4. Shape
  BY <1>2, <1>3 DEF Shape, Reading
<1>5. Batches
  BY <1>1, <1>2, <1>3 DEF Batches, Queued, Listed, IsInjective, ToSet
<1>6. Queues
  BY <1>2, <1>3 DEF Queues, IsInjective
<1>7. Sorting /\ Sorted /\ AllDone
  BY <1>2, <1>3 DEF Sorting, Sorted, AllDone
<1>8. Headed /\ Members
  BY <1>2, <1>3 DEF Headed, Members
<1>9. MembersAfterSupers
  BY <1>3 DEF MembersAfterSupers
<1> QED
  BY <1>4, <1>5, <1>6, <1>7, <1>8, <1>9 DEF BatchInv

\* The two parts of the invariant are inductive together.
LEMMA BatchStep ==
    ASSUME HeaderInv, BatchInv, [Next]_vars
    PROVE  BatchInv'
<1>1. CASE Next
  BY <1>1, ShapeStep, BatchesStep, QueuesStep, SortingStep, SortedStep, HeadedStep, MembersStep,
     MembersAfterSupersStep, AllDoneStep
     DEF BatchInv
<1>2. CASE UNCHANGED vars
  <2>1. UNCHANGED <<prog, loaded, tuple, header, supers, stack, phase, start, todo, collection,
                    pending, order, declared, bodyWork>>
    BY <1>2 DEF vars, source, marks, sorting
  <2>2. Shape' /\ Batches' /\ Queues'
    BY <2>1 DEF BatchInv, Shape, Batches, Queued, Listed, TopLevel, File, Queues
  <2>3. Sorting' /\ Sorted' /\ Headed'
    BY <2>1 DEF BatchInv, Sorting, Sorted, Headed, InProgress, Above, OnSourceCycle, Path
  <2>4. Members' /\ MembersAfterSupers' /\ AllDone'
    BY <2>1 DEF BatchInv, Members, MembersAfterSupers, AllDone, Nested, TopLevel, File,
                Above, OnSourceCycle, Path
  <2> QED
    BY <2>2, <2>3, <2>4 DEF BatchInv
<1> QED
  BY <1>1, <1>2

\* What the queues, the sorted list and the calls of ProcessMembers hold.
THEOREM BatchesInvariant == Spec => [](HeaderInv /\ BatchInv)
<1>1. Init => HeaderInv /\ BatchInv
  BY InitHeader, InitBatch
<1>2. HeaderInv /\ BatchInv /\ [Next]_vars => HeaderInv' /\ BatchInv'
  BY HeaderStep, BatchStep
<1> QED
  BY <1>1, <1>2, PTL DEF Spec

\* The members of a type are processed after those of its supertypes.
THEOREM SupersComeFirst == Spec => []MembersAfterSupers
<1>1. BatchInv => MembersAfterSupers
  BY DEF BatchInv
<1> QED
  BY <1>1, BatchesInvariant, PTL

\* No type is processed twice or left out, whenever its file was read.
THEOREM NoTypeTwiceOrLeftOut == Spec => []EveryTypeOnce
<1>1. HeaderInv /\ BatchInv => EveryTypeOnce
  <2> SUFFICES ASSUME HeaderInv, BatchInv
               PROVE  EveryTypeOnce
    OBVIOUS
  <2>1. Shape /\ Queues /\ Headed /\ Members /\ AllDone
    BY DEF BatchInv
  <2>2. /\ stack \in Seq(Frames) /\ DOMAIN stack = 1 .. Len(stack) /\ Len(stack) \in Nat
    BY DEF HeaderInv, TypeOK
  <2>3. ASSUME NEW k \in DOMAIN stack, stack[k].op = "members",
               NEW j \in DOMAIN stack, stack[j].op = "members", stack[j].on = stack[k].on
        PROVE  j = k
    <3>1. \A a, b \in 1 .. Len(stack) : a \in 1 .. b - 1 \/ b \in 1 .. a - 1 \/ a = b
      BY <2>2
    <3>2. j \notin 1 .. k - 1 /\ k \notin 1 .. j - 1
      BY <2>1, <2>2, <2>3 DEF Members
    <3> QED
      BY <2>2, <3>1, <3>2
  <2>4. ASSUME Running("members"), Top.i <= Len(prog.member[Top.on])
        PROVE  Top.on \notin declared
    <3> DEFINE n == Len(stack)
               l == Len(prog.member[Top.on])
    <3>1. /\ n \in 1 .. n /\ Top = stack[n] /\ Top.op = "members" /\ Top.on \in Types
          /\ Top.i \in Nat
      BY <2>1, <2>4, OnStack
    <3>2. l \in Nat
      BY <3>1, ListFacts, ProgramFacts
    <3>3. ~ (Top.i > l + 1)
      <4> HIDE DEF l
      <4> QED
        BY <2>4, <3>1, <3>2 DEF l
    <3>4. Top.on \in declared <=> Top.i > l + 1
      BY <2>1, <3>1 DEF Members
    <3> QED
      BY <3>3, <3>4
  <2>5. ASSUME phase = "done", NEW t \in Types, File(t) \in loaded
        PROVE  t \in header \cap declared /\ (TopLevel(t) => t \in ToSet(bodyWork))
    BY <2>1, <2>5 DEF AllDone, Headed
  <2>6. IsInjective(bodyWork)
    BY <2>1 DEF Queues
  <2> QED
    BY <2>3, <2>4, <2>5, <2>6 DEF EveryTypeOnce
<1> QED
  BY <1>1, BatchesInvariant, PTL

\* What was declared from a type's supertypes stays right.
THEOREM DeclaredStaysFrozen == Spec => HierarchyFrozen
<1>1. HeaderInv /\ BatchInv /\ [Next]_vars =>
          [\A t \in declared : supers'[t] = supers[t] /\ (t \in circular' => t \in circular)]_vars
  <2> SUFFICES ASSUME HeaderInv, BatchInv, [Next]_vars, NEW t \in declared
               PROVE  supers'[t] = supers[t] /\ (t \in circular' => t \in circular)
    OBVIOUS
  <2>1. t \in header /\ ~ InProgress(t)
    BY DEF BatchInv, Headed
  <2> QED
    BY <2>1, SettledStep
<1> QED
  BY <1>1, BatchesInvariant, PTL DEF Spec, HierarchyFrozen
=============================================================================
