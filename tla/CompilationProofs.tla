------------------------- MODULE CompilationProofs -------------------------
(***************************************************************************)
(* Proofs about the module Compilation, for every set of files and types,  *)
(* every command line and both values of nocleanup.                        *)
(***************************************************************************)
EXTENDS Compilation, TLAPS, FiniteSetTheorems, SequenceTheorems

\* The elements of a sequence from position a on, and that they are distinct.
From(seq, a)       == {seq[k] : k \in a .. Len(seq)}
DistinctAt(seq, a) == \A j, k \in a .. Len(seq) : seq[j] = seq[k] => j = k

(***************************************************************************)
(* The inductive invariant.                                                *)
(***************************************************************************)

\* The type in ProcessBodies is the one needs_body_work[next] names.
Position ==
    /\ stage = "idle" <=> current = NoType
    /\ stage # "idle" => /\ phase = "compile"
                         /\ next <= Len(bodyWork)
                         /\ current = bodyWork[next]

\* No type waits twice.
Distinct == DistinctAt(bodyWork, next)

\* The types that wait are those the Semantics wait for, and are intact.
Live ==
    phase = "compile" =>
        /\ Waiting = toProcess
        /\ Waiting \subseteq env \cap linked
        /\ Waiting \subseteq TypesOf(semantic)

\* What is not cleaned up yet belongs to a Semantic the final loop will find.
Cleaned ==
    /\ toProcess \subseteq TypesOf(semantic)
    /\ ~ nocleanup => env \cap linked \subseteq TypesOf(semantic)
    /\ Inputs \ inputs \subseteq inputSet
    /\ phase = "done" => semantic = {} /\ inputs = {}

\* A type without a class file is still to come, or its file's fault is on
\* record, in the Semantic or in the exit code.
Accounted ==
    \A t \in declared :
        \/ t \in toProcess \cup emitted
        \/ returnCode = 1
        \/ File[t] \in semantic \cap (bad \cup tokens \cup errors)

Inv == TypeOK /\ Position /\ Distinct /\ Live /\ Cleaned /\ (phase # "crashed" => Accounted)

-----------------------------------------------------------------------------
LEMMA OrderingIsSeq ==
    ASSUME NEW S \in SUBSET Types, NEW o \in Orderings(S)
    PROVE  /\ o \in Seq(S)
           /\ o \in Seq(Types)
           /\ DOMAIN o = 1 .. Len(o)
           /\ Len(o) \in Nat
           /\ \A j, k \in 1 .. Len(o) : o[j] = o[k] => j = k
           /\ \A t \in S : \E k \in 1 .. Len(o) : o[k] = t
           /\ \A k \in 1 .. Len(o) : o[k] \in S
<1>1. IsFiniteSet(S)
  BY CompilationAssumption, FS_Subset
<1>2. Cardinality(S) \in Nat
  BY <1>1, FS_CardinalityType
<1>3. o \in Seq(S)
  BY <1>2, SeqDef DEF Orderings
<1>4. DOMAIN o = 1 .. Len(o) /\ Len(o) \in Nat
  BY <1>3, LenProperties
<1>5. o \in Seq(Types)
  BY <1>3, SeqMonotonic
<1>6. \A k \in 1 .. Len(o) : o[k] \in S
  BY <1>3, ElementOfSeq
<1> QED
  BY <1>3, <1>4, <1>5, <1>6 DEF Orderings

\* all is work followed by each element of S once.
Appended(work, S, all) ==
    /\ all \in Seq(Types)
    /\ Len(work) \in Nat /\ Len(all) \in Nat /\ Len(work) <= Len(all)
    /\ \A k \in 1 .. Len(work) : all[k] = work[k]
    /\ \A k \in Len(work) + 1 .. Len(all) : all[k] \in S
    /\ \A t \in S : \E k \in Len(work) + 1 .. Len(all) : all[k] = t
    /\ \A j, k \in Len(work) + 1 .. Len(all) : all[j] = all[k] => j = k

LEMMA AppendOrdering ==
    ASSUME NEW S \in SUBSET Types, NEW o \in Orderings(S), NEW work \in Seq(Types)
    PROVE  Appended(work, S, work \o o)
<1> DEFINE all == work \o o
<1>1. /\ o \in Seq(Types)
      /\ Len(o) \in Nat
      /\ \A j, k \in 1 .. Len(o) : o[j] = o[k] => j = k
      /\ \A t \in S : \E k \in 1 .. Len(o) : o[k] = t
      /\ \A k \in 1 .. Len(o) : o[k] \in S
  BY OrderingIsSeq
<1>2. /\ all \in Seq(Types)
      /\ Len(all) = Len(work) + Len(o)
      /\ \A k \in 1 .. Len(work) + Len(o) :
            all[k] = IF k <= Len(work) THEN work[k] ELSE o[k - Len(work)]
  BY <1>1, ConcatProperties
<1>3. Len(work) \in Nat
  BY LenProperties
<1>4. \A k \in 1 .. Len(work) : all[k] = work[k]
  BY <1>1, <1>2, <1>3
<1>5. \A k \in Len(work) + 1 .. Len(all) :
         all[k] = o[k - Len(work)] /\ k - Len(work) \in 1 .. Len(o)
  BY <1>1, <1>2, <1>3
<1>6. \A t \in S : \E k \in Len(work) + 1 .. Len(all) : all[k] = t
  <2> SUFFICES ASSUME NEW t \in S
               PROVE  \E k \in Len(work) + 1 .. Len(all) : all[k] = t
    OBVIOUS
  <2>1. PICK j \in 1 .. Len(o) : o[j] = t
    BY <1>1
  <2>2. j + Len(work) \in Len(work) + 1 .. Len(all) /\ (j + Len(work)) - Len(work) = j
    BY <1>1, <1>2, <1>3
  <2> QED
    BY <2>1, <2>2, <1>5
<1>7. \A j, k \in Len(work) + 1 .. Len(all) : all[j] = all[k] => j = k
  <2> SUFFICES ASSUME NEW j \in Len(work) + 1 .. Len(all),
                      NEW k \in Len(work) + 1 .. Len(all), all[j] = all[k]
               PROVE  j = k
    OBVIOUS
  <2> DEFINE a == j - Len(work)
             b == k - Len(work)
  <2>1. a \in 1 .. Len(o) /\ b \in 1 .. Len(o) /\ o[a] = o[b]
    BY <1>5
  <2>2. \A x, y \in 1 .. Len(o) : o[x] = o[y] => x = y
    BY <1>1
  <2>3. a = b
    <3> HIDE DEF a, b
    <3> QED  BY <2>1, <2>2
  <2> QED
    BY <2>3, <1>2, <1>3, <1>1
<1> QED
  BY <1>1, <1>2, <1>3, <1>4, <1>5, <1>6, <1>7 DEF Appended

-----------------------------------------------------------------------------
(***************************************************************************)
(* What one reading of files does, seen from outside: new are the types    *)
(* that get work.                                                          *)
(***************************************************************************)
Effect(S, work, unparsed, new) ==
    /\ S \subseteq Files \ semantic /\ unparsed \subseteq S
    /\ new = TypesOf(S \ unparsed) \ declared
    /\ named' \subseteq Nameless
    /\ inputSet' = inputSet \cup S
    /\ semantic' = semantic \cup S
    /\ bad' = bad \cup unparsed
    /\ tokens \subseteq tokens' /\ tokens' \subseteq Files
    /\ errors \subseteq errors' /\ errors' \subseteq semantic'
    /\ declared' = declared \cup TypesOf(S)
    /\ env' = env \cup (TypesOf(S) \ declared)
    /\ linked' = linked \cup new
    /\ toProcess' = toProcess \cup new
    /\ Appended(work, new, bodyWork')

LEMMA BatchEffect ==
    ASSUME TypeOK,
           NEW S \in SUBSET Files, NEW asking \in SUBSET semantic,
           NEW misnamed \in SUBSET Nameless, NEW work \in Seq(Types),
           Batch(S, asking, misnamed, work)
    PROVE  \E unparsed, new : Effect(S, work, unparsed, new)
<1>1. PICK unparsed \in SUBSET (S \ inputSet), lexical \in SUBSET (S \ inputSet),
           faulty \in SUBSET (S \cup asking) :
              \E order \in Orderings(TypesOf(S \ unparsed) \ declared) :
                 ProcessHeaders(S, unparsed, lexical, faulty, work, order)
  BY DEF Batch
<1> DEFINE new == TypesOf(S \ unparsed) \ declared
<1>0. PICK order \in Orderings(new) :
         ProcessHeaders(S, unparsed, lexical, faulty, work, order)
  BY <1>1
<1>2. new \in SUBSET Types
  BY DEF TypesOf
<1>3. bodyWork' = work \o order
  BY <1>0 DEF ProcessHeaders
<1>4. Appended(work, new, bodyWork')
  BY <1>2, <1>3, AppendOrdering
<1>5. S \subseteq Files \ semantic
  BY DEF Batch, Readable
<1>6. /\ tokens \subseteq tokens' /\ tokens' \subseteq Files
      /\ errors \subseteq errors' /\ errors' \subseteq semantic'
  BY <1>0 DEF ProcessHeaders, TypeOK
<1>7. named' \subseteq Nameless
  BY DEF Batch, TypeOK
<1>8. Effect(S, work, unparsed, new)
  BY <1>0, <1>4, <1>5, <1>6, <1>7 DEF ProcessHeaders, Effect
<1> QED
  BY <1>8

LEMMA AppendedElements ==
    ASSUME NEW work, NEW S, NEW all, Appended(work, S, all),
           NEW a \in 1 .. Len(work) + 1
    PROVE  /\ From(all, a) = From(work, a) \cup S
           /\ DistinctAt(work, a) /\ From(work, a) \cap S = {} => DistinctAt(all, a)
           /\ a \in 1 .. Len(all) + 1
           /\ all \in Seq(Types)
<1>1. /\ Len(work) \in Nat /\ Len(all) \in Nat /\ Len(work) <= Len(all)
      /\ a \in Nat /\ 1 <= a /\ a <= Len(work) + 1
      /\ \A k \in 1 .. Len(work) : all[k] = work[k]
      /\ \A k \in Len(work) + 1 .. Len(all) : all[k] \in S
      /\ \A t \in S : \E k \in Len(work) + 1 .. Len(all) : all[k] = t
      /\ \A j, k \in Len(work) + 1 .. Len(all) : all[j] = all[k] => j = k
  BY DEF Appended
<1>2. From(all, a) \subseteq From(work, a) \cup S
  <2> SUFFICES ASSUME NEW k \in a .. Len(all)
               PROVE  all[k] \in From(work, a) \cup S
    BY DEF From
  <2>1. CASE k <= Len(work)
    BY <2>1, <1>1 DEF From
  <2>2. CASE ~ k <= Len(work)
    BY <2>2, <1>1
  <2> QED
    BY <2>1, <2>2
<1>3. From(work, a) \subseteq From(all, a)
  <2> SUFFICES ASSUME NEW k \in a .. Len(work)
               PROVE  work[k] \in From(all, a)
    BY DEF From
  <2>1. k \in 1 .. Len(work) /\ k \in a .. Len(all)
    BY <1>1
  <2> QED
    BY <2>1, <1>1 DEF From
<1>4. S \subseteq From(all, a)
  <2> SUFFICES ASSUME NEW t \in S
               PROVE  t \in From(all, a)
    OBVIOUS
  <2>1. PICK k \in Len(work) + 1 .. Len(all) : all[k] = t
    BY <1>1
  <2>2. k \in a .. Len(all)
    BY <1>1
  <2> QED
    BY <2>1, <2>2 DEF From
<1>5. ASSUME DistinctAt(work, a), From(work, a) \cap S = {}
      PROVE  DistinctAt(all, a)
  <2> SUFFICES ASSUME NEW j \in a .. Len(all), NEW k \in a .. Len(all), all[j] = all[k]
               PROVE  j = k
    BY DEF DistinctAt
  <2>1. CASE j <= Len(work) /\ k <= Len(work)
    <3>1. j \in 1 .. Len(work) /\ k \in 1 .. Len(work)
          /\ j \in a .. Len(work) /\ k \in a .. Len(work)
      BY <2>1, <1>1
    <3>2. work[j] = work[k]
      BY <3>1, <1>1
    <3> QED
      BY <3>1, <3>2, <1>5 DEF DistinctAt
  <2>2. CASE j <= Len(work) /\ ~ k <= Len(work)
    <3>1. j \in 1 .. Len(work) /\ j \in a .. Len(work) /\ k \in Len(work) + 1 .. Len(all)
      BY <2>2, <1>1
    <3> QED
      BY <3>1, <1>1, <1>5 DEF From
  <2>3. CASE ~ j <= Len(work) /\ k <= Len(work)
    <3>1. k \in 1 .. Len(work) /\ k \in a .. Len(work) /\ j \in Len(work) + 1 .. Len(all)
      BY <2>3, <1>1
    <3> QED
      BY <3>1, <1>1, <1>5 DEF From
  <2>4. CASE ~ j <= Len(work) /\ ~ k <= Len(work)
    BY <2>4, <1>1
  <2> QED
    BY <2>1, <2>2, <2>3, <2>4
<1> QED
  BY <1>1, <1>2, <1>3, <1>4, <1>5 DEF Appended

-----------------------------------------------------------------------------
LEMMA WaitingFrom == Waiting = From(bodyWork, next)
BY DEF Waiting, From

LEMMA InitInv == Init => Inv
<1> SUFFICES ASSUME Init PROVE Inv
  OBVIOUS
<1> USE DEF Init
<1>1. bodyWork \in Seq(Types) /\ Len(bodyWork) = 0
  BY EmptySeq
<1>2. TypeOK
  BY <1>1 DEF TypeOK
<1>3. Waiting = {}
  BY <1>1 DEF Waiting
<1>4. Position /\ Distinct /\ Live /\ Cleaned /\ Accounted
  BY <1>1, <1>3, CompilationAssumption
     DEF Position, Distinct, DistinctAt, Live, Cleaned, Accounted, TypesOf
<1> QED
  BY <1>2, <1>4 DEF Inv

(***************************************************************************)
(* One reading of files preserves the invariant, whether it starts         *)
(* needs_body_work anew (at = 1, work = <<>>) or appends to it.            *)
(***************************************************************************)
LEMMA EffectInv ==
    ASSUME Inv, phase = "compile",
           NEW S, NEW work \in Seq(Types), NEW unparsed, NEW new,
           Effect(S, work, unparsed, new),
           NEW at \in 1 .. Len(work) + 1,
           From(work, at) = Waiting, DistinctAt(work, at),
           next' = at, inputs' \subseteq inputs, inputs \ inputs' \subseteq S,
           \/ stage = "idle"
           \/ work = bodyWork /\ at = next,
           constants' = constants,
           UNCHANGED <<nocleanup, current, stage, freed, result, phase>>
    PROVE  Inv'
<1> USE DEF Inv
<1>1. /\ From(bodyWork', at) = Waiting \cup new
      /\ From(work, at) \cap new = {} => DistinctAt(bodyWork', at)
      /\ at \in 1 .. Len(bodyWork') + 1
      /\ bodyWork' \in Seq(Types)
  BY AppendedElements DEF Effect
<1>2. new \subseteq Types \ declared /\ new \subseteq TypesOf(S) /\ TypesOf(S) \subseteq Types
  BY DEF Effect, TypesOf
<1>3. Waiting = toProcess /\ toProcess \subseteq declared
  BY DEF Live, TypeOK
<1>4. Waiting' = Waiting \cup new
  BY <1>1 DEF Waiting, From
<1>5. TypeOK'
  BY <1>1, <1>2 DEF TypeOK, Effect, result
<1>6. Position'
  <2>1. CASE stage = "idle"
    BY <2>1 DEF Position, result
  <2>2. CASE work = bodyWork /\ at = next /\ stage # "idle"
    <3>1. /\ next \in 1 .. Len(bodyWork) /\ current = bodyWork[next]
          /\ Len(bodyWork) \in Nat /\ current # NoType
      BY <2>2, LenProperties DEF Position, TypeOK
    <3>2. bodyWork'[next] = bodyWork[next] /\ next \in 1 .. Len(bodyWork')
      BY <2>2, <3>1 DEF Effect, Appended
    <3> QED
      BY <2>2, <3>1, <3>2 DEF result, Position
  <2> QED
    BY <2>1, <2>2
<1>7. Distinct'
  BY <1>1, <1>2, <1>3 DEF Distinct, DistinctAt
<1>8. Live'
  BY <1>2, <1>3, <1>4 DEF Live, Effect, TypesOf
<1>9. Cleaned'
  BY <1>2 DEF Cleaned, Effect, TypesOf, result, TypeOK
<1>10. Accounted'
  <2> SUFFICES ASSUME NEW t \in declared'
               PROVE  \/ t \in toProcess' \cup emitted'
                      \/ returnCode' = 1
                      \/ File[t] \in semantic' \cap (bad' \cup tokens' \cup errors')
    BY DEF Accounted
  <2>1. CASE t \in declared
    BY <2>1 DEF Accounted, Effect, result
  <2>2. CASE t \in new
    BY <2>2 DEF Effect
  <2>3. CASE t \in TypesOf(unparsed)
    BY <2>3 DEF Effect, TypesOf
  <2> QED
    BY <2>1, <2>2, <2>3 DEF Effect, TypesOf
<1> QED
  BY <1>5, <1>6, <1>7, <1>8, <1>9, <1>10

LEMMA CurrentWaits ==
    ASSUME Inv, stage # "idle"
    PROVE  /\ phase = "compile" /\ current = bodyWork[next]
           /\ next \in 1 .. Len(bodyWork) /\ Len(bodyWork) \in Nat
           /\ current \in Waiting /\ current \in toProcess
           /\ current \in Types /\ current \in declared
           /\ File[current] \in semantic
<1>1. phase = "compile" /\ current = bodyWork[next] /\ next <= Len(bodyWork)
  BY DEF Inv, Position
<1>2. next \in 1 .. Len(bodyWork) + 1 /\ Len(bodyWork) \in Nat
  BY LenProperties DEF Inv, TypeOK
<1>3. next \in 1 .. Len(bodyWork) /\ next \in next .. Len(bodyWork)
  BY <1>1, <1>2
<1>4. current \in Waiting
  BY <1>1, <1>3 DEF Waiting
<1> QED
  BY <1>1, <1>2, <1>3, <1>4 DEF Inv, Live, TypeOK, TypesOf

LEMMA NextInputInv == Inv /\ NextInput => Inv'
<1> SUFFICES ASSUME Inv, NextInput PROVE Inv'
  OBVIOUS
<1>1. PICK f \in inputs :
         /\ inputs' = inputs \ {f}
         /\ \/ /\ f \in inputSet
               /\ UNCHANGED <<inputSet, semantic, content, named, symbols, bodyWork, next>>
            \/ \E S \in SUBSET Files, misnamed \in SUBSET (Nameless \ {f}) :
                  /\ f \in S /\ Batch(S, {}, misnamed, <<>>)
                  /\ next' = 1 /\ UNCHANGED constants
  BY DEF NextInput
<1>2. /\ phase = "compile" /\ stage = "idle" /\ Waiting = {}
      /\ UNCHANGED <<nocleanup, current, stage, freed, result, phase>>
  BY DEF NextInput
<1>3. CASE /\ f \in inputSet
           /\ UNCHANGED <<inputSet, semantic, content, named, symbols, bodyWork, next>>
  BY <1>1, <1>2, <1>3
     DEF Inv, TypeOK, Position, Distinct, DistinctAt, Live, Cleaned, Accounted, Waiting,
         content, symbols, result
<1>4. ASSUME NEW S \in SUBSET Files, NEW misnamed \in SUBSET (Nameless \ {f}),
             f \in S, Batch(S, {}, misnamed, <<>>), next' = 1, UNCHANGED constants
      PROVE  Inv'
  <2> DEFINE work == <<>>
  <2>1. /\ work \in Seq(Types) /\ Len(work) = 0 /\ 1 \in 1 .. Len(work) + 1
        /\ From(work, 1) = Waiting /\ DistinctAt(work, 1)
    BY <1>2, EmptySeq DEF From, DistinctAt
  <2>2. PICK unparsed, new : Effect(S, work, unparsed, new)
    BY <1>4, <2>1, BatchEffect DEF Inv
  <2>3. inputs' \subseteq inputs /\ inputs \ inputs' \subseteq S
    BY <1>1, <1>4
  <2> HIDE DEF work
  <2> QED
    BY <1>2, <1>4, <2>1, <2>2, <2>3, EffectInv
<1> QED
  BY <1>1, <1>3, <1>4

LEMMA ReadTypeInv == Inv /\ ReadType => Inv'
<1> SUFFICES ASSUME Inv, ReadType PROVE Inv'
  OBVIOUS
<1> USE DEF Inv
<1>1. PICK S \in SUBSET Files, misnamed \in SUBSET Nameless :
         Batch(S, {File[current]}, misnamed, bodyWork)
  BY DEF ReadType
<1>2. /\ stage # "idle"
      /\ UNCHANGED <<nocleanup, inputs, constants, next, current, stage, freed, result, phase>>
  BY DEF ReadType, InBody
<1>3. {File[current]} \in SUBSET semantic /\ phase = "compile"
  BY <1>2, CurrentWaits
<1>4. bodyWork \in Seq(Types) /\ next \in 1 .. Len(bodyWork) + 1
  BY DEF TypeOK
<1>5. PICK unparsed, new : Effect(S, bodyWork, unparsed, new)
  BY <1>1, <1>3, <1>4, BatchEffect
<1> QED
  BY <1>2, <1>3, <1>4, <1>5, EffectInv, WaitingFrom DEF Distinct

LEMMA StartBodyInv == Inv /\ StartBody => Inv'
<1> SUFFICES ASSUME Inv, StartBody PROVE Inv'
  OBVIOUS
<1> USE DEF Inv
<1>1. bodyWork[next] \in Waiting /\ bodyWork[next] \in Types /\ Len(bodyWork) \in Nat
  BY LenProperties, ElementOfSeq DEF StartBody, Waiting, TypeOK
<1>2. File[bodyWork[next]] \in semantic /\ bodyWork[next] # NoType
  BY <1>1, CompilationAssumption DEF StartBody, Live, TypesOf
<1>3. Waiting' = Waiting
  BY DEF StartBody, Waiting
<1> QED
  BY <1>1, <1>2, <1>3
     DEF StartBody, TypeOK, Position, Distinct, DistinctAt, Live, Cleaned, Accounted,
         symbols, result

LEMMA InBodyInv ==
    /\ Inv /\ CompleteSymbolTable => Inv'
    /\ Inv /\ ProcessExecutableBodies => Inv'
    /\ Inv /\ ReportSemError => Inv'
    /\ Inv /\ NameMissing => Inv'
    /\ Inv /\ ComputeFinalValue => Inv'
    /\ Inv /\ Crash => Inv'
<1> USE DEF Inv
<1>1. ASSUME Inv, stage # "idle"
      PROVE  /\ current \in Waiting /\ current \in Types /\ current \in declared
             /\ File[current] \in semantic /\ phase = "compile"
  BY <1>1, CurrentWaits
<1>2. ASSUME Inv, CompleteSymbolTable PROVE Inv'
  BY <1>1, <1>2
     DEF CompleteSymbolTable, Waiting, TypeOK, Position, Distinct, DistinctAt, Live,
         Cleaned, Accounted, result
<1>3. ASSUME Inv, ProcessExecutableBodies PROVE Inv'
  BY <1>1, <1>3
     DEF ProcessExecutableBodies, Waiting, TypeOK, Position, Distinct, DistinctAt, Live,
         Cleaned, Accounted, content, symbols, result
<1>4. ASSUME Inv, ReportSemError PROVE Inv'
  BY <1>1, <1>4
     DEF ReportSemError, InBody, Waiting, TypeOK, Position, Distinct, DistinctAt, Live,
         Cleaned, Accounted, symbols, working, result
<1>5. ASSUME Inv, NameMissing PROVE Inv'
  BY <1>1, <1>5
     DEF NameMissing, InBody, Waiting, TypeOK, Position, Distinct, DistinctAt, Live,
         Cleaned, Accounted, symbols, working, result
<1>6. ASSUME Inv, ComputeFinalValue PROVE Inv'
  BY <1>1, <1>6
     DEF ComputeFinalValue, InBody, Waiting, TypeOK, Position, Distinct, DistinctAt, Live,
         Cleaned, Accounted, content, working, result
<1>7. ASSUME Inv, Crash PROVE Inv'
  BY <1>1, <1>7
     DEF Crash, InBody, Waiting, TypeOK, Position, Distinct, DistinctAt, Live,
         Cleaned, Accounted, content, symbols, result
<1> QED
  BY <1>2, <1>3, <1>4, <1>5, <1>6, <1>7

-----------------------------------------------------------------------------
(***************************************************************************)
(* A clean-up of S, which no type of left waits for, keeps what left needs *)
(* and records the fault of every file it forgets.                         *)
(***************************************************************************)
LEMMA CleanUpEffect ==
    ASSUME TypeOK, NEW S \in SUBSET semantic, NEW live \in SUBSET env, NEW errs \in SUBSET semantic,
           errors \subseteq errs, CleanUp(S, live, errs), tokens' = tokens, nocleanup' = nocleanup,
           NEW left \in SUBSET Types, left \cap TypesOf(S) = {}
    PROVE  /\ errors' \subseteq semantic' /\ bad' \subseteq semantic'
           /\ semantic' \subseteq semantic /\ freed' \subseteq Files
           /\ env' \subseteq live /\ returnCode' \in {0, 1}
           /\ left \cap live \subseteq env'
           /\ left \cap TypesOf(semantic) \subseteq TypesOf(semantic')
           /\ ~ nocleanup => (env' \cap linked) \cap TypesOf(semantic) \subseteq TypesOf(semantic')
           /\ returnCode = 1 => returnCode' = 1
           /\ \A f \in semantic \cap (bad \cup tokens \cup errs) :
                 \/ returnCode' = 1
                 \/ f \in semantic' \cap (bad' \cup tokens' \cup errors')
BY DEF CleanUp, TypesOf, TypeOK

LEMMA FinishBodyInv == Inv /\ FinishBody => Inv'
<1> SUFFICES ASSUME Inv, FinishBody PROVE Inv'
  OBVIOUS
<1> DEFINE f     == File[current]
           clean == f \notin bad \cup tokens \cup errors
           left  == toProcess \ {current}
           S     == IF nocleanup \/ left \cap TypesOf({f}) # {} THEN {} ELSE {f}
<1>1. /\ phase = "compile" /\ current = bodyWork[next]
      /\ next \in 1 .. Len(bodyWork) /\ Len(bodyWork) \in Nat
      /\ current \in Waiting /\ current \in toProcess /\ current \in declared
      /\ f \in semantic
  BY CurrentWaits DEF FinishBody
<1>2. /\ next' = next + 1 /\ current' = NoType /\ stage' = "idle"
      /\ toProcess' = left
      /\ UNCHANGED <<nocleanup, inputs, inputSet, tokens, named, declared, constants, bodyWork, phase>>
  BY DEF FinishBody
<1>3. PICK codeErrors \in SUBSET {f} :
         /\ emitted' = IF clean THEN emitted \cup {current} ELSE emitted
         /\ LET done == clean /\ codeErrors = {} /\ ~ nocleanup
            IN  /\ linked' = IF done THEN linked \ {current} ELSE linked
                /\ CleanUp(S, IF done THEN env \ {current} ELSE env, errors \cup codeErrors)
  BY DEF FinishBody
<1> DEFINE done == clean /\ codeErrors = {} /\ ~ nocleanup
           live == IF done THEN env \ {current} ELSE env
           errs == errors \cup codeErrors
<1>4. /\ S \in SUBSET semantic /\ live \in SUBSET env /\ errs \in SUBSET semantic
      /\ errors \subseteq errs /\ CleanUp(S, live, errs) /\ left \in SUBSET Types
      /\ left \cap TypesOf(S) = {}
      /\ linked' \subseteq linked /\ left \cap linked \subseteq linked'
      /\ left \cap env \subseteq live
  BY <1>1, <1>3 DEF Inv, TypeOK, TypesOf
<1>5. emitted' \subseteq declared /\ emitted \subseteq emitted'
      /\ (clean => current \in emitted') /\ (~ clean => f \in bad \cup tokens \cup errs)
  BY <1>1, <1>3 DEF Inv, TypeOK
<1> HIDE DEF f, clean, left, S, done, live, errs
<1>6. TypeOK
  BY DEF Inv
<1>7. /\ errors' \subseteq semantic' /\ bad' \subseteq semantic'
      /\ semantic' \subseteq semantic /\ freed' \subseteq Files
      /\ env' \subseteq live /\ returnCode' \in {0, 1}
      /\ left \cap live \subseteq env'
      /\ left \cap TypesOf(semantic) \subseteq TypesOf(semantic')
      /\ ~ nocleanup => (env' \cap linked) \cap TypesOf(semantic) \subseteq TypesOf(semantic')
      /\ returnCode = 1 => returnCode' = 1
      /\ \A g \in semantic \cap (bad \cup tokens \cup errs) :
            \/ returnCode' = 1
            \/ g \in semantic' \cap (bad' \cup tokens' \cup errors')
  BY <1>2, <1>4, <1>6, CleanUpEffect
<1>8. Waiting' = left
  <2> DEFINE rest == {bodyWork[k] : k \in next + 1 .. Len(bodyWork)}
  <2>1. Waiting' = rest
    BY <1>2 DEF Waiting
  <2>2. \A k \in next .. Len(bodyWork) : k = next \/ k \in next + 1 .. Len(bodyWork)
    BY <1>1
  <2>3. \A k \in next + 1 .. Len(bodyWork) : k \in next .. Len(bodyWork) /\ k # next
    BY <1>1
  <2>4. next \in next .. Len(bodyWork)
    BY <1>1
  <2>5. rest \subseteq Waiting
    BY <2>3 DEF Waiting
  <2>6. Waiting \subseteq rest \cup {current}
    BY <2>2, <1>1 DEF Waiting
  <2>7. current \notin rest
    BY <2>3, <2>4, <1>1 DEF Inv, Distinct, DistinctAt
  <2>8. Waiting = toProcess
    BY <1>1 DEF Inv, Live
  <2> QED
    BY <2>1, <2>5, <2>6, <2>7, <2>8 DEF left
<1>9. TypeOK'
  BY <1>1, <1>2, <1>4, <1>5, <1>6, <1>7 DEF TypeOK, left
<1>10. Position' /\ Distinct'
  BY <1>1, <1>2 DEF Inv, Position, Distinct, DistinctAt
<1>11. Live' /\ left \subseteq TypesOf(semantic')
  <2>1. left \subseteq env \cap linked /\ left \subseteq TypesOf(semantic)
    BY <1>1 DEF Inv, Live, left
  <2> QED
    BY <2>1, <1>1, <1>2, <1>4, <1>7, <1>8 DEF Live
<1>12. Cleaned'
  BY <1>1, <1>2, <1>4, <1>7, <1>11 DEF Inv, Cleaned
<1>13. Accounted'
  <2> SUFFICES ASSUME NEW t \in declared
               PROVE  \/ t \in left \cup emitted'
                      \/ returnCode' = 1
                      \/ File[t] \in semantic' \cap (bad' \cup tokens' \cup errors')
    BY <1>2 DEF Accounted
  <2>1. CASE t = current
    BY <2>1, <1>1, <1>5, <1>7 DEF f
  <2>2. CASE t # current
    BY <2>2, <1>1, <1>4, <1>5, <1>7 DEF Inv, Accounted, left
  <2> QED
    BY <2>1, <2>2
<1> QED
  BY <1>9, <1>10, <1>11, <1>12, <1>13 DEF Inv

LEMMA FinalCleanUpInv == Inv /\ FinalCleanUp => Inv'
<1> SUFFICES ASSUME Inv, FinalCleanUp PROVE Inv'
  OBVIOUS
<1>1. /\ phase = "compile" /\ stage = "idle" /\ Waiting = {} /\ inputs = {}
      /\ CleanUp(inputSet \cap semantic, env, errors)
      /\ bodyWork' = <<>> /\ next' = 1 /\ phase' = "done"
      /\ UNCHANGED <<nocleanup, inputs, inputSet, tokens, named, declared, linked, constants,
                     toProcess, current, stage, emitted>>
  BY DEF FinalCleanUp
<1>2. bodyWork' \in Seq(Types) /\ Len(bodyWork') = 0
  BY <1>1, EmptySeq
<1>3. toProcess = {} /\ semantic \subseteq inputSet
  BY <1>1 DEF Inv, Live, TypeOK
<1> DEFINE S == inputSet \cap semantic
<1>4. /\ TypeOK /\ S \in SUBSET semantic /\ env \in SUBSET env /\ errors \in SUBSET semantic
      /\ errors \subseteq errors /\ CleanUp(S, env, errors)
      /\ tokens' = tokens /\ nocleanup' = nocleanup /\ {} \in SUBSET Types /\ {} \cap TypesOf(S) = {}
  BY <1>1 DEF Inv, TypeOK
<1> HIDE DEF S
<1>5. /\ errors' \subseteq semantic' /\ bad' \subseteq semantic'
      /\ semantic' \subseteq semantic /\ freed' \subseteq Files
      /\ env' \subseteq env /\ returnCode' \in {0, 1}
      /\ ~ nocleanup => (env' \cap linked) \cap TypesOf(semantic) \subseteq TypesOf(semantic')
      /\ returnCode = 1 => returnCode' = 1
      /\ \A g \in semantic \cap (bad \cup tokens \cup errors) :
            \/ returnCode' = 1
            \/ g \in semantic' \cap (bad' \cup tokens' \cup errors')
  BY <1>4, CleanUpEffect, ZenonT(40)
<1>6. semantic' = {}
  BY <1>1, <1>3 DEF CleanUp
<1>7. TypeOK'
  BY <1>1, <1>2, <1>4, <1>5 DEF TypeOK
<1>8. Position' /\ Distinct' /\ Live'
  BY <1>1, <1>2 DEF Inv, Position, Distinct, DistinctAt, Live
<1>9. Cleaned'
  BY <1>1, <1>3, <1>5, <1>6 DEF Inv, Cleaned
<1>10. Accounted'
  BY <1>1, <1>5 DEF Inv, Accounted
<1> QED
  BY <1>7, <1>8, <1>9, <1>10 DEF Inv

LEMMA StepInv == Inv /\ [Next]_vars => Inv'
<1> SUFFICES ASSUME Inv, [Next]_vars PROVE Inv'
  OBVIOUS
<1>1. CASE UNCHANGED vars
  BY <1>1
     DEF Inv, TypeOK, Position, Distinct, DistinctAt, Live, Cleaned, Accounted, Waiting,
         vars, content, symbols, working, result
<1>2. CASE Finished
  BY <1>1, <1>2 DEF Finished
<1> QED
  BY <1>1, <1>2, NextInputInv, ReadTypeInv, StartBodyInv, InBodyInv, FinishBodyInv,
     FinalCleanUpInv DEF Next

\* The strengthened invariant holds of every run of the driver.
THEOREM Inductive == Spec => []Inv
BY InitInv, StepInv, PTL DEF Spec

-----------------------------------------------------------------------------
\* Every variable keeps its type: in particular the queue of bodies holds
\* types only and ProcessFile's index never leaves it by more than one.
THEOREM TypeCorrect == Spec => []TypeOK
<1>1. Inv => TypeOK
  BY DEF Inv
<1> QED
  BY <1>1, Inductive, PTL

\* Control::ProcessBodies and Semantic::ReadType: however reading, cleaning up
\* and finishing bodies interleave over the files, a type whose body waits has
\* its environment, its declaration and its file's Semantic.
THEOREM BodiesStayLive == Spec => []BodiesAreLive
<1>1. Inv => BodiesAreLive
  <2> SUFFICES ASSUME Inv, phase = "compile"
               PROVE  /\ Busy \subseteq env \cap linked
                      /\ \A t \in Busy : File[t] \in semantic
                      /\ Busy = toProcess
    BY DEF BodiesAreLive
  <2>1. Busy = Waiting
    BY CurrentWaits DEF Busy, Inv, Position
  <2> QED
    BY <2>1 DEF Inv, Live, TypesOf
<1> QED
  BY <1>1, Inductive, PTL

\* Semantic::CleanUp and the loop at the end of Control::Control: no file is
\* forgotten, none is cleaned up while a body of it waits, and no environment
\* of a parsed file is left.
THEOREM NothingLeftBehind == Spec => []AllCleanedUp
<1>1. Inv => AllCleanedUp
  <2> SUFFICES ASSUME Inv
               PROVE  AllCleanedUp
    OBVIOUS
  <2> QED
    BY DEF Inv, AllCleanedUp, Cleaned, TypeOK, TypesOf
<1> QED
  BY <1>1, Inductive, PTL

\* Control::return_code: a compilation that ends with 0 has written a class
\* file for every type of every file it read.
THEOREM ZeroMeansCompiled == Spec => []SuccessMeansClassFiles
<1>1. Inv => SuccessMeansClassFiles
  <2> SUFFICES ASSUME Inv, phase = "done", returnCode = 0, NEW t \in declared
               PROVE  t \in emitted
    BY DEF SuccessMeansClassFiles
  <2>1. semantic = {} /\ toProcess = {}
    BY DEF Inv, Cleaned, TypesOf
  <2> QED
    BY <2>1 DEF Inv, Accounted
<1> QED
  BY <1>1, Inductive, PTL

\* With -nocleanup ComputeFinalValue never meets a type without environment.
THEOREM NocleanupIsSafe == Spec => []NeverCrashes
<1> DEFINE Kept == nocleanup => linked \subseteq env /\ phase # "crashed"
<1>1. Init => Kept
  BY DEF Init
<1>2. Inv /\ Kept /\ [Next]_vars => Kept'
  <2> SUFFICES ASSUME Inv, Kept, [Next]_vars, nocleanup'
               PROVE  linked' \subseteq env' /\ phase' # "crashed"
    OBVIOUS
  <2>0. nocleanup' = nocleanup
    BY DEF Next, NextInput, StartBody, CompleteSymbolTable, ProcessExecutableBodies,
           ReportSemError, ReadType, NameMissing, ComputeFinalValue, Crash, FinishBody,
           FinalCleanUp, Finished, vars
  <2> nocleanup /\ linked \subseteq env /\ phase # "crashed"
    BY <2>0
  <2>1. ASSUME NEW S \in SUBSET Files, NEW asking \in SUBSET semantic,
               NEW misnamed \in SUBSET Nameless, NEW work \in Seq(Types),
               Batch(S, asking, misnamed, work)
        PROVE  linked' \subseteq env'
    <3>1. PICK unparsed, new : Effect(S, work, unparsed, new)
      BY <2>1, BatchEffect DEF Inv
    <3> QED
      BY <3>1 DEF Effect, TypesOf
  <2>2. CASE NextInput
    <3>1. {} \in SUBSET semantic /\ <<>> \in Seq(Types) /\ phase' = phase
      BY <2>2, EmptySeq DEF NextInput
    <3> QED
      BY <2>1, <2>2, <3>1 DEF NextInput, symbols
  <2>3. CASE ReadType
    <3>1. {File[current]} \in SUBSET semantic /\ bodyWork \in Seq(Types) /\ phase' = phase
      BY <2>3, CurrentWaits DEF ReadType, InBody, Inv, TypeOK
    <3> QED
      BY <2>1, <2>3, <3>1 DEF ReadType
  <2>4. CASE FinishBody
    BY <2>4 DEF FinishBody, CleanUp
  <2>5. CASE FinalCleanUp
    BY <2>5 DEF FinalCleanUp, CleanUp
  <2>6. CASE Crash
    BY <2>6 DEF Crash
  <2>7. CASE \/ StartBody \/ CompleteSymbolTable \/ ProcessExecutableBodies
             \/ ReportSemError \/ NameMissing \/ ComputeFinalValue
             \/ Finished \/ UNCHANGED vars
    BY <2>7
       DEF StartBody, CompleteSymbolTable, ProcessExecutableBodies, ReportSemError,
           NameMissing, ComputeFinalValue, Finished, vars, symbols
  <2> QED
    BY <2>2, <2>3, <2>4, <2>5, <2>6, <2>7 DEF Next
<1>3. Kept => NeverCrashes
  BY DEF NeverCrashes
<1> QED
  BY <1>1, <1>2, <1>3, Inductive, PTL DEF Spec

-----------------------------------------------------------------------------
(***************************************************************************)
(* The driver implements the safety part of TypeLife.                      *)
(***************************************************************************)

\* Reading the types of S, those in new with work.
LEMMA EffectLife ==
    ASSUME Inv, phase = "compile",
           NEW S, NEW work \in Seq(Types), NEW unparsed, NEW new,
           Effect(S, work, unparsed, new),
           NEW at \in 1 .. Len(work) + 1,
           From(work, at) = Waiting,
           next' = at, UNCHANGED <<current, phase>>
    PROVE  \E R, W \in SUBSET Types : Life!Read(R, W)
<1> DEFINE R == TypesOf(S) \ declared
<1>1. From(bodyWork', at) = Waiting \cup new
  BY AppendedElements DEF Effect
<1>2. Waiting' = Waiting \cup new
  BY <1>1 DEF Waiting, From
<1>3. /\ new \subseteq R /\ R \subseteq Types /\ R \cap declared = {}
      /\ declared' = declared \cup R
  BY DEF Effect, TypesOf
<1>4. /\ Waiting \subseteq declared
      /\ current \in declared \cup {NoType}
      /\ NoType \notin Types
  BY CurrentWaits, CompilationAssumption DEF Inv, Live, TypeOK, Position
<1> HIDE DEF R
<1>5. R \subseteq Life!Unread
  BY <1>3, <1>4 DEF Life!Unread, lives, LifeOf
<1>6. lives' = [t \in Types |-> IF t \in new THEN "waiting"
                                ELSE IF t \in R THEN "over" ELSE lives[t]]
  BY <1>2, <1>3, <1>4 DEF lives, LifeOf
<1> QED
  BY <1>3, <1>5, <1>6 DEF Life!Read

LEMMA StepLife == Inv /\ Inv' /\ [Next]_vars => [Life!Next]_lives
<1> SUFFICES ASSUME Inv, Inv', [Next]_vars
             PROVE  Life!Next \/ lives' = lives
  OBVIOUS
<1>1. CASE NextInput
  <2>1. /\ phase = "compile" /\ Waiting = {} /\ UNCHANGED <<current, phase>>
    BY <1>1 DEF NextInput
  <2>2. CASE UNCHANGED <<symbols, bodyWork, next>>
    BY <2>1, <2>2 DEF lives, LifeOf, Waiting, symbols
  <2>3. ASSUME NEW S \in SUBSET Files, NEW misnamed \in SUBSET Nameless,
               Batch(S, {}, misnamed, <<>>), next' = 1
        PROVE  Life!Next
    <3> DEFINE work == <<>>
    <3>1. /\ work \in Seq(Types) /\ Len(work) = 0 /\ 1 \in 1 .. Len(work) + 1
          /\ From(work, 1) = Waiting
      BY <2>1, EmptySeq DEF From
    <3>2. PICK unparsed, new : Effect(S, work, unparsed, new)
      BY <2>3, <3>1, BatchEffect DEF Inv
    <3> HIDE DEF work
    <3> QED
      BY <2>1, <2>3, <3>1, <3>2, EffectLife DEF Life!Next
  <2> QED
    BY <1>1, <2>2, <2>3 DEF NextInput
<1>2. CASE ReadType
  <2>1. PICK S \in SUBSET Files, misnamed \in SUBSET Nameless :
           Batch(S, {File[current]}, misnamed, bodyWork)
    BY <1>2 DEF ReadType
  <2>2. stage # "idle" /\ UNCHANGED <<current, next, phase>>
    BY <1>2 DEF ReadType, InBody
  <2>3. {File[current]} \in SUBSET semantic /\ phase = "compile"
    BY <2>2, CurrentWaits
  <2>4. bodyWork \in Seq(Types) /\ next \in 1 .. Len(bodyWork) + 1
    BY DEF Inv, TypeOK
  <2>5. PICK unparsed, new : Effect(S, bodyWork, unparsed, new)
    BY <2>1, <2>3, <2>4, BatchEffect DEF Inv
  <2> QED
    BY <2>2, <2>3, <2>4, <2>5, WaitingFrom, EffectLife DEF Life!Next
<1>3. CASE StartBody
  <2>1. /\ current = NoType /\ current' = bodyWork[next]
        /\ UNCHANGED <<bodyWork, next, declared, phase>>
        /\ phase = "compile" /\ stage' # "idle"
    BY <1>3 DEF StartBody, symbols, Inv, Position
  <2>2. current' \in Waiting' /\ current' \in Types
    BY <2>1, CurrentWaits DEF Inv, Position, Waiting, TypeOK
  <2>3. Waiting' = Waiting
    BY <2>1 DEF Waiting
  <2>4. Life!Active = {}
    BY <2>1, CompilationAssumption DEF Life!Active, lives, LifeOf
  <2>5. lives[current'] = "waiting"
    BY <2>1, <2>2, <2>3, CompilationAssumption DEF lives, LifeOf
  <2>6. lives' = [lives EXCEPT ![current'] = "active"]
    BY <2>1, <2>2, <2>3, CompilationAssumption DEF lives, LifeOf
  <2> QED
    BY <2>2, <2>4, <2>5, <2>6 DEF Life!Next, Life!Progress, Life!Start
<1>4. CASE FinishBody
  <2>1. /\ stage # "idle" /\ current' = NoType
        /\ UNCHANGED <<declared, phase, bodyWork>>
        /\ toProcess' = toProcess \ {current}
    BY <1>4 DEF FinishBody
  <2>2. phase = "compile" /\ current \in Types /\ current \in declared
    BY <2>1, CurrentWaits
  <2>3. Waiting = toProcess /\ Waiting' = toProcess'
    BY <2>1, <2>2 DEF Inv, Live
  <2>4. lives[current] = "active"
    BY <2>2 DEF lives, LifeOf
  <2>5. lives' = [lives EXCEPT ![current] = "over"]
    BY <2>1, <2>2, <2>3, CompilationAssumption DEF lives, LifeOf
  <2> QED
    BY <2>2, <2>4, <2>5 DEF Life!Next, Life!Progress, Life!Finish
<1>5. CASE Crash
  BY <1>5 DEF Crash, Life!Next, Life!Abort, lives, LifeOf
<1>6. CASE FinalCleanUp
  <2>1. phase = "compile" /\ phase' = "done" /\ Waiting = {} /\ UNCHANGED <<current, declared>>
    BY <1>6 DEF FinalCleanUp
  <2>2. Waiting' = {}
    BY <1>6, EmptySeq DEF FinalCleanUp, Waiting
  <2> QED
    BY <2>1, <2>2 DEF lives, LifeOf
<1>7. CASE \/ CompleteSymbolTable \/ ProcessExecutableBodies \/ ReportSemError
           \/ NameMissing \/ ComputeFinalValue \/ Finished \/ UNCHANGED vars
  BY <1>7
     DEF CompleteSymbolTable, ProcessExecutableBodies, ReportSemError, NameMissing,
         ComputeFinalValue, Finished, vars, symbols, working, lives, LifeOf, Waiting
<1> QED
  BY <1>1, <1>2, <1>3, <1>4, <1>5, <1>6, <1>7 DEF Next

\* Seen through the lives of its types, every run of the driver is one of the
\* specification TypeLife: one body at a time, no type twice.
THEOREM DriverImplementsTypeLife == Spec => Life!Safety
<1>1. Init => Life!Init
  <2> SUFFICES ASSUME Init PROVE lives = [t \in Types |-> "unread"]
    BY DEF Life!Init
  <2>1. Waiting = {}
    BY EmptySeq DEF Init, Waiting
  <2> QED
    BY <2>1, CompilationAssumption DEF Init, lives, LifeOf
<1> QED
  BY <1>1, StepLife, Inductive, PTL DEF Spec, Life!Safety
=============================================================================
