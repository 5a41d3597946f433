-------------------------- MODULE IncrementalProofs -------------------------
(***************************************************************************)
(* Proofs about the module Incremental: whatever is written, deleted and   *)
(* created between the passes and during them, the dependences that are    *)
(* recorded are those of types that exist, and every type is found by the  *)
(* next Enter.                                                             *)
(***************************************************************************)
EXTENDS Incremental, TLAPS

-----------------------------------------------------------------------------
(***************************************************************************)
(* The inductive invariant: files, types and dependences.                  *)
(***************************************************************************)

Candidates == javaSet \cup classSet
Choosing   == phase \in {"rounds", "trash"}

\* Outside a pass nothing waits to be read, and no type for its source.
Idle ==
    /\ phase = "prompt" \/ Choosing =>
          lookups = {} /\ toRead = {} /\ read = {} /\ errors = {} /\ pending = {}
    /\ phase \in {"prompt", "compile"} => trash = {}

\* A type that was declared in advance is in a file that will be read, in the
\* version that was scanned.
Waiting ==
    phase = "compile" =>
        \A t \in pending : fileOf[t] \in toRead \ javaSet /\ t \in Declared(lex[fileOf[t]])

\* What is looked up is asked by a type of a file that was read.
LookupsKnown == \A asked \in lookups : asked.type \in types /\ asked.file \in read \cup classSet

\* A file lists types that exist, unless it is known to list a deleted one.
TypesListed ==
    /\ \A f \in Names \ dangling : fileTypes[f] \subseteq types
    /\ phase = "rounds" => fresh \cap dangling = {}

\* What depends on a type that goes goes too, and so do all the types of a file
\* that was looked at.
TrashClosed ==
    Choosing => /\ \A p \in trash : dependents[p] \subseteq trash
                /\ recompilation \cup expired \subseteq seen
                /\ \A f \in seen \ fresh : fileTypes[f] \subseteq trash
                /\ Candidates # {} => trashBin \subseteq trash
                /\ phase = "trash" => /\ fresh = {}
                                      /\ \A t \in trash : fileOf[t] \in seen \cup {NoName}

\* Every type is found again.
InReach ==
    /\ types \subseteq pending \cup trash \cup trashBin \cup UNION {fileTypes[f] : f \in Candidates}
    /\ trashBin # {} => Candidates # {}
    /\ read \subseteq javaSet

TypesInv == TypeOK /\ EdgesAreLive /\ Idle /\ Waiting /\ LookupsKnown /\ TypesListed
                /\ TrashClosed /\ InReach

-----------------------------------------------------------------------------
(* Closures.                                                                *)

\* What is reached is in the sets that are closed, and is one of them.
LEMMA ReachedFacts ==
    ASSUME NEW succ \in [Names -> SUBSET Names], NEW S \in SUBSET Names
    PROVE  /\ S \subseteq Reached(succ, S) /\ Reached(succ, S) \subseteq Names
           /\ \A n \in Reached(succ, S) : succ[n] \subseteq Reached(succ, S)
           /\ \A T \in SUBSET Names :
                 S \subseteq T /\ (\A n \in T : succ[n] \subseteq T) => Reached(succ, S) \subseteq T
<1>1. S \subseteq Reached(succ, S) /\ Reached(succ, S) \subseteq Names
  BY DEF Reached, Closed
<1>2. ASSUME NEW n \in Reached(succ, S), NEW m \in succ[n]
      PROVE  m \in Reached(succ, S)
  <2>1. n \in Names /\ m \in Names
    BY <1>1
  <2>2. \A T \in Closed(succ, S) : m \in T
    BY DEF Reached, Closed
  <2> QED
    BY <2>1, <2>2 DEF Reached
<1>3. \A T \in SUBSET Names :
          S \subseteq T /\ (\A n \in T : succ[n] \subseteq T) => Reached(succ, S) \subseteq T
  BY DEF Reached, Closed
<1> QED
  BY <1>1, <1>2, <1>3

\* Types that depend on types exist.
LEMMA ClosureFacts ==
    ASSUME TypeOK, EdgesAreLive, NEW S \in SUBSET types
    PROVE  /\ S \subseteq Closure(S) /\ Closure(S) \subseteq types
           /\ \A p \in Closure(S) : dependents[p] \subseteq Closure(S)
<1>1. dependents \in [Names -> SUBSET Names] /\ types \subseteq Names
  BY DEF TypeOK
<1>2. \A p \in types : dependents[p] \subseteq types
  BY <1>1 DEF EdgesAreLive
<1> QED
  BY <1>1, <1>2, ReachedFacts DEF Closure

\* What the texts of a file declare and use.
LEMMA TextFacts ==
    ASSUME NEW n \in Names, NEW text \in Texts[n]
    PROVE  /\ text # NoText /\ Declared(text) = DOMAIN text.uses
           /\ n \in Declared(text) /\ Declared(text) \subseteq Names
           /\ \A t \in Declared(text) : text.uses[t] \subseteq Names /\ (t = n \/ Texts[t] = {})
BY IncrementalAssumption DEF Declared

LEMMA SourceFacts ==
    ASSUME TypeOK
    PROVE  \A n \in Names : Declared(source[n]) \subseteq Names /\ Declared(lex[n]) \subseteq Names
<1> SUFFICES ASSUME NEW n \in Names
             PROVE  Declared(source[n]) \subseteq Names /\ Declared(lex[n]) \subseteq Names
  OBVIOUS
<1>1. {source[n], lex[n]} \subseteq Texts[n] \cup {NoText}
  BY DEF TypeOK
<1> QED
  BY <1>1, TextFacts DEF Declared

-----------------------------------------------------------------------------
(* The effect of ProcessHeaders on a file.                                  *)

\* It is not there, or a type it declares cannot be found: an error.
Rejected(f) ==
    /\ UNCHANGED <<packaged, types, fileOf, bad, pending, fileTypes, lookups>>
    /\ errors' = errors \cup {f}
    /\ \/ phase' = phase /\ lex[f] = NoText /\ source[f] = NoText
       \/ phase' = "asserted"

\* The types in new are inserted, those in mine become types of the file.
Accepted(f, new, mine) ==
    /\ new \cap types = {} /\ new \subseteq mine /\ mine \subseteq types \cup new
    /\ Declared(lex[f]) \cap pending \subseteq mine
    /\ \E text \in Texts[f] : mine \subseteq Declared(text)
    /\ types' = types \cup new
    /\ fileOf' = [t \in Names |-> IF t \in new THEN f ELSE fileOf[t]]
    /\ pending' = pending \ mine
    /\ fileTypes' = [fileTypes EXCEPT ![f] = @ \cup mine]
    /\ bad \subseteq bad' /\ bad' \subseteq bad \cup types \cup new
    /\ packaged' = packaged \cup {f}
    /\ lookups \subseteq lookups'
    /\ \A asked \in lookups' \ lookups :
          /\ asked \in [file : {f}, type : mine \cap (pending \cup new), name : Names]
    /\ errors \subseteq errors' /\ errors' \subseteq errors \cup {f}
    /\ phase' = phase

LEMMA ReadEffect ==
    ASSUME TypeOK, NEW f \in Names, Read(f)
    PROVE  /\ read' = read \cup {f} /\ javaSet' = javaSet \cup {f} /\ owed' = owed \ {f}
           /\ edited' \subseteq edited
           /\ f \in edited' => lex[f] # NoText \/ source[f] = NoText
           /\ firm' = [firm EXCEPT ![f] = {}] /\ lex' = [lex EXCEPT ![f] = NoText]
           /\ Rejected(f) \/ \E new, mine \in SUBSET Names : Accepted(f, new, mine)
<1> DEFINE text   == IF lex[f] = NoText THEN source[f] ELSE lex[f]
           names  == Declared(text)
           new    == IF f \in packaged THEN {} ELSE names \ types
           wait   == pending \cup new
           mine   == IF text.good THEN names \cap wait ELSE names
           failed == text = NoText
           lost   == ~ (names \subseteq types \cup new)
           asking == UNION {Lookups(f, t, text.uses[t]) : t \in mine}
<1>1. /\ read' = read \cup {f} /\ javaSet' = javaSet \cup {f} /\ owed' = owed \ {f}
      /\ firm' = [firm EXCEPT ![f] = {}] /\ lex' = [lex EXCEPT ![f] = NoText]
      /\ edited' = IF failed \/ lex[f] # NoText THEN edited ELSE edited \ {f}
      /\ IF failed \/ lost
         THEN /\ phase' = IF lost THEN "asserted" ELSE phase
              /\ errors' = errors \cup {f}
              /\ UNCHANGED <<packaged, symbols, fileTypes, lookups>>
         ELSE /\ packaged' = packaged \cup {f}
              /\ types' = types \cup new
              /\ fileOf' = [t \in Names |-> IF t \in new THEN f ELSE fileOf[t]]
              /\ pending' = wait \ mine
              /\ fileTypes' = [fileTypes EXCEPT ![f] = @ \cup mine]
              /\ bad' = IF text.good THEN bad ELSE bad \cup names
              /\ lookups' = IF text.good THEN lookups \cup asking ELSE lookups
              /\ errors' = IF text.good /\ mine = names THEN errors ELSE errors \cup {f}
              /\ UNCHANGED phase
  BY DEF Read
<1>2. {source[f], lex[f]} \subseteq Texts[f] \cup {NoText} /\ pending \subseteq types
  BY DEF TypeOK
<1>3. text \in Texts[f] \/ failed
  BY <1>2
<1>4. failed => lex[f] = NoText /\ source[f] = NoText
  OBVIOUS
<1>5. names \subseteq Names /\ (~ failed => \A t \in names : text.uses[t] \subseteq Names)
  BY <1>3, TextFacts DEF Declared
<1>6. new \subseteq names /\ mine \subseteq names
  OBVIOUS
<1>7. new \cap types = {} /\ new \subseteq mine
  OBVIOUS
<1>8. lex[f] # NoText => text = lex[f]
  OBVIOUS
<1>9. Declared(lex[f]) \cap pending \subseteq mine
  BY <1>8 DEF Declared
<1>10. pending \cap new = {} /\ wait \ mine = pending \ mine
  BY <1>2, <1>7
<1>11. text.good => mine \subseteq pending \cup new
  OBVIOUS
<1> HIDE DEF text, names, new, wait, mine, failed, lost
<1>12. CASE failed \/ lost
  BY <1>1, <1>4, <1>12 DEF Rejected, symbols
<1>13. CASE ~ (failed \/ lost)
  <2>1. mine \subseteq types \cup new /\ new \subseteq Names /\ mine \subseteq Names
    BY <1>5, <1>6, <1>13 DEF lost
  <2>2. ASSUME NEW asked \in lookups' \ lookups
        PROVE  asked \in [file : {f}, type : mine \cap (pending \cup new), name : Names]
    <3>1. text.good /\ asked \in asking
      BY <1>1, <1>13, <2>2
    <3>2. PICK t \in mine : asked \in Lookups(f, t, text.uses[t])
      BY <3>1
    <3>3. t \in pending \cup new /\ text.uses[t] \subseteq Names
      BY <1>5, <1>6, <1>11, <1>13, <3>1, <3>2
    <3> QED
      BY <3>2, <3>3 DEF Lookups
  <2>3. \E s \in Texts[f] : mine \subseteq Declared(s)
    BY <1>3, <1>6, <1>13 DEF names
  <2>4. bad \subseteq bad' /\ bad' \subseteq bad \cup types \cup new
    BY <1>1, <1>13 DEF lost
  <2>5. lookups \subseteq lookups' /\ errors \subseteq errors' /\ errors' \subseteq errors \cup {f}
    BY <1>1, <1>13
  <2>6. Accepted(f, new, mine)
    BY <1>1, <1>7, <1>9, <1>10, <1>13, <2>1, <2>2, <2>3, <2>4, <2>5 DEF Accepted
  <2> QED
    BY <1>1, <1>13, <2>1, <2>6
<1> QED
  BY <1>1, <1>4, <1>12, <1>13

-----------------------------------------------------------------------------
(* The first pass, and what the user does.                                  *)

LEMMA InitTypes == Init => TypesInv
<1> SUFFICES ASSUME Init PROVE TypesInv
  OBVIOUS
<1> USE DEF Init
<1>1. PICK d \in Disks : source = d.source /\
             classTime = [n \in Names |-> IF n \in DOMAIN d.class THEN 1 ELSE 0] /\
             classUses = [n \in Names |-> IF n \in DOMAIN d.class THEN d.class[n] ELSE {}]
  OBVIOUS
<1>2. /\ d.source \in [Names -> (UNION {Texts[n] : n \in Names}) \cup {NoText}]
      /\ \A n \in Names : d.source[n] \in Texts[n] \cup {NoText}
      /\ \A n \in DOMAIN d.class : d.class[n] \subseteq Names
      /\ MaxWrites \in Nat /\ Inputs \subseteq Names
  BY IncrementalAssumption
<1>3. classUses \in [Names -> SUBSET Names]
  <2>1. \A n \in Names : (IF n \in DOMAIN d.class THEN d.class[n] ELSE {}) \in SUBSET Names
    BY <1>2
  <2> QED
    BY <1>1, <2>1
<1>4. classTime \in [Names -> 0 .. clock] /\ mtime \in [Names -> 0 .. clock]
  BY <1>1
<1>5. entry \in [Names -> 0 .. clock] /\ classEntry \in [Names -> 0 .. clock]
  BY <1>4
<1>6. stamp \in [Names -> 0 .. clock]
  BY <1>4
<1>7. /\ {source, lex} \subseteq [Names -> (UNION {Texts[n] : n \in Names}) \cup {NoText}]
      /\ \A n \in Names : {source[n], lex[n]} \subseteq Texts[n] \cup {NoText}
  BY <1>1, <1>2
<1>8. TypeOK
  BY <1>2, <1>3, <1>4, <1>5, <1>6, <1>7 DEF TypeOK, None
<1>9. EdgesAreLive
  BY DEF EdgesAreLive, None
<1>10. Idle /\ Waiting /\ LookupsKnown /\ TypesListed /\ TrashClosed /\ InReach
  BY DEF Idle, Waiting, LookupsKnown, TypesListed, TrashClosed, InReach, Choosing, Candidates, None
<1> QED
  BY <1>8, <1>9, <1>10 DEF TypesInv

\* Nothing but the directory is touched by the user.
LEMMA UserTypes ==
    ASSUME TypesInv, Save \/ Create \/ Delete
    PROVE  TypesInv'
<1>1. PICK n \in Names : \E text \in Texts[n] \cup {NoText} : Write(n, text)
  BY DEF Save, Create, Delete
<1> PICK text \in Texts[n] \cup {NoText} : Write(n, text)
  BY <1>1
<1> USE DEF Write
<1>2. MaxWrites \in Nat
  BY IncrementalAssumption
<1>3. TypeOK
  BY DEF TypesInv
<1>4. clock' \in 1 .. MaxWrites + 1 /\ clock \in Nat /\ clock' = clock + 1
  BY <1>2, <1>3 DEF TypeOK
<1>5. 0 .. clock \subseteq 0 .. clock'
  BY <1>4
<1>6. mtime' \in [Names -> 0 .. clock']
  BY <1>3, <1>4, <1>5 DEF TypeOK
<1>7. /\ source' \in [Names -> (UNION {Texts[m] : m \in Names}) \cup {NoText}]
      /\ \A m \in Names : source'[m] \in Texts[m] \cup {NoText}
  BY <1>3 DEF TypeOK
<1>8. UNCHANGED <<listing, files, symbols, edges, control, rounds, phase, pass, classTime,
                  classUses, firm, owed>>
  OBVIOUS
<1>9. /\ classTime' \in [Names -> 0 .. clock'] /\ entry' \in [Names -> 0 .. clock']
      /\ classEntry' \in [Names -> 0 .. clock'] /\ stamp' \in [Names -> 0 .. clock']
  BY <1>3, <1>5, <1>8 DEF TypeOK, listing, files
<1>10. edited' \subseteq Names
  BY <1>3 DEF TypeOK
<1>11. TypeOK'
  BY <1>3, <1>4, <1>6, <1>7, <1>8, <1>9, <1>10
     DEF TypeOK, listing, files, symbols, edges, control, rounds, pass
<1>12. UNCHANGED <<types, edges, dangling, pending, fileOf, fileTypes, lex, control, rounds,
                   phase, pass>>
  BY DEF files, symbols
<1> QED
  BY <1>11, <1>12 DEF TypesInv, EdgesAreLive, Idle, Waiting, LookupsKnown, TypesListed, TrashClosed,
                      InReach, Choosing, Candidates, edges, control, rounds, pass

-----------------------------------------------------------------------------
(* Reading a file.                                                          *)

\* What stays the same whenever a file is read.
SameBeside == UNCHANGED <<disk, listing, edges, classSet, recompilation, expired, trashBin,
                          rounds, dangling>>

LEMMA ReadTypes ==
    ASSUME TypesInv, phase = "compile", NEW f \in Names, Read(f), SameBeside,
           toRead' \in {toRead, toRead \ {f}},
           kind' \in [Names -> {"none", "java", "class"}], stamp' \in [Names -> 0 .. clock]
    PROVE  TypesInv'
<1>1. TypeOK /\ EdgesAreLive /\ Idle /\ Waiting /\ LookupsKnown /\ TypesListed /\ InReach
  BY DEF TypesInv
<1>2. /\ read' = read \cup {f} /\ javaSet' = javaSet \cup {f} /\ owed' = owed \ {f}
      /\ edited' \subseteq edited
      /\ firm' = [firm EXCEPT ![f] = {}] /\ lex' = [lex EXCEPT ![f] = NoText]
      /\ Rejected(f) \/ \E new, mine \in SUBSET Names : Accepted(f, new, mine)
  BY <1>1, ReadEffect
<1>3. UNCHANGED <<source, mtime, classTime, classUses, clock, entry, classEntry, dependents, parents,
                  classSet, recompilation, expired, trashBin, fresh, seen, trash, dangling>>
  BY DEF SameBeside, disk, listing, edges, rounds
<1>4. /\ {source', lex'} \subseteq [Names -> (UNION {Texts[n] : n \in Names}) \cup {NoText}]
      /\ \A n \in Names : {source'[n], lex'[n]} \subseteq Texts[n] \cup {NoText}
      /\ firm' \in [Names -> SUBSET Names]
  BY <1>1, <1>2, <1>3 DEF TypeOK
<1>5. /\ javaSet' \cup classSet' \cup recompilation' \cup expired' \cup toRead' \cup read' \subseteq Names
      /\ edited' \cup owed' \cup dangling' \subseteq Names
  BY <1>1, <1>2, <1>3 DEF TypeOK
<1>6. trash' = {}
  BY <1>1, <1>3 DEF Idle
<1>7. CASE Rejected(f)
  <2>1. /\ UNCHANGED <<packaged, types, fileOf, bad, pending, fileTypes, lookups>>
        /\ errors' = errors \cup {f} /\ phase' \in {"compile", "asserted"}
        /\ phase' = "compile" => lex[f] = NoText
    BY <1>7 DEF Rejected
  <2>2. TypeOK'
    BY <1>1, <1>2, <1>3, <1>4, <1>5, <2>1 DEF TypeOK
  <2>3. EdgesAreLive' /\ Idle' /\ TrashClosed'
    BY <1>1, <1>3, <1>6, <2>1 DEF EdgesAreLive, Idle, TrashClosed, Choosing
  <2>4. Waiting'
    <3> SUFFICES ASSUME phase' = "compile", NEW t \in pending
                 PROVE  fileOf[t] \in toRead' \ javaSet' /\ t \in Declared(lex'[fileOf[t]])
      BY <2>1 DEF Waiting
    <3>1. fileOf[t] \in toRead \ javaSet /\ t \in Declared(lex[fileOf[t]])
      BY <1>1 DEF Waiting
    <3>2. fileOf[t] # f
      BY <2>1, <3>1 DEF Declared
    <3>3. fileOf[t] \in Names /\ lex'[fileOf[t]] = lex[fileOf[t]]
      BY <1>1, <1>2, <3>1, <3>2 DEF TypeOK
    <3> QED
      BY <1>2, <3>1, <3>2, <3>3
  <2>5. LookupsKnown' /\ TypesListed' /\ InReach'
    BY <1>1, <1>2, <1>3, <2>1 DEF LookupsKnown, TypesListed, InReach, Candidates
  <2> QED
    BY <2>2, <2>3, <2>4, <2>5 DEF TypesInv
<1>8. ASSUME NEW new \in SUBSET Names, NEW mine \in SUBSET Names, Accepted(f, new, mine)
      PROVE  TypesInv'
  <2>1. /\ new \cap types = {} /\ new \subseteq mine /\ mine \subseteq types \cup new
        /\ types' = types \cup new /\ pending' = pending \ mine
        /\ fileOf' = [t \in Names |-> IF t \in new THEN f ELSE fileOf[t]]
        /\ fileTypes' = [fileTypes EXCEPT ![f] = @ \cup mine]
        /\ phase' = phase
    BY <1>8 DEF Accepted
  <2>2. /\ bad \subseteq bad' /\ bad' \subseteq types'
        /\ packaged' = packaged \cup {f}
        /\ errors' \subseteq errors \cup {f}
    BY <1>1, <1>8 DEF Accepted, TypeOK
  <2>3. \A asked \in lookups' : asked \in lookups \/
            (asked \in [file : {f}, type : Names, name : Names] /\ asked.type \in types')
    BY <1>1, <1>8 DEF Accepted, TypeOK
  <2>4. types \subseteq Names /\ pending \subseteq types /\ fileTypes \in [Names -> SUBSET Names]
        /\ fileOf \in [Names -> Names \cup {NoName}]
    BY <1>1 DEF TypeOK
  <2>5. /\ fileOf' \in [Names -> Names \cup {NoName}] /\ fileTypes' \in [Names -> SUBSET Names]
        /\ types' \subseteq Names /\ pending' \subseteq types' /\ packaged' \subseteq Names
    BY <1>1, <2>1, <2>2, <2>4 DEF TypeOK
  <2>6. \A n \in types' : fileOf'[n] = NoName => n \in bad'
    BY <1>1, <2>1, <2>2, <2>4, IncrementalAssumption DEF TypeOK
  <2>7. lookups' \subseteq [file : Names, type : Names, name : Names]
    BY <1>1, <2>3 DEF TypeOK
  <2>8. errors' \subseteq read' \cup classSet'
    BY <1>1, <1>2, <1>3, <2>2 DEF TypeOK
  <2>9. TypeOK'
    BY <1>1, <1>3, <1>4, <1>5, <2>1, <2>2, <2>5, <2>6, <2>7, <2>8 DEF TypeOK
  <2>10. EdgesAreLive' /\ Idle' /\ TrashClosed'
    BY <1>1, <1>3, <1>6, <2>1 DEF EdgesAreLive, Idle, TrashClosed, Choosing
  <2>11. Waiting'
    <3> SUFFICES ASSUME NEW t \in pending \ mine
                 PROVE  fileOf'[t] \in toRead' \ javaSet' /\ t \in Declared(lex'[fileOf'[t]])
      BY <2>1 DEF Waiting
    <3>1. fileOf[t] \in toRead \ javaSet /\ t \in Declared(lex[fileOf[t]])
      BY <1>1 DEF Waiting
    <3>2. fileOf[t] # f
      BY <1>8, <3>1 DEF Accepted
    <3>3. fileOf[t] \in Names /\ lex'[fileOf[t]] = lex[fileOf[t]] /\ fileOf'[t] = fileOf[t]
      BY <1>1, <1>2, <2>1, <2>4, <3>1, <3>2 DEF TypeOK
    <3> QED
      BY <1>2, <3>1, <3>2, <3>3
  <2>12. LookupsKnown'
    BY <1>1, <1>2, <1>3, <2>1, <2>3 DEF LookupsKnown
  <2>13. TypesListed'
    BY <1>1, <1>3, <2>1, <2>4 DEF TypesListed
  <2>14. InReach'
    <3>1. \A g \in Candidates : g \in Candidates' /\ (g \in Names => fileTypes[g] \subseteq fileTypes'[g])
      BY <1>2, <1>3, <2>1, <2>4 DEF Candidates
    <3>2. mine \subseteq fileTypes'[f] /\ f \in Candidates'
      BY <1>2, <2>1, <2>4 DEF Candidates
    <3>3. Candidates \subseteq Names
      BY <1>1 DEF Candidates, TypeOK
    <3>4. types' \subseteq pending' \cup trashBin \cup UNION {fileTypes'[g] : g \in Candidates'}
      BY <1>1, <1>3, <1>6, <2>1, <3>1, <3>2, <3>3 DEF InReach
    <3>5. read' \subseteq javaSet' /\ (trashBin # {} => Candidates' # {})
      BY <1>1, <1>2, <3>2 DEF InReach
    <3> QED
      BY <1>3, <3>4, <3>5 DEF InReach
  <2> QED
    BY <2>9, <2>10, <2>11, <2>12, <2>13, <2>14 DEF TypesInv
<1> QED
  BY <1>2, <1>7, <1>8

\* A class file is read, or a name that no file declares becomes a bad type.
LEMMA FileKindFacts ==
    ASSUME TypeOK, NEW n \in Names, InsertFileSymbol(n)
    PROVE  /\ kind' \in [Names -> {"none", "java", "class"}] /\ stamp' \in [Names -> 0 .. clock]
           /\ kind' = [kind EXCEPT ![n] = FileKind(n)] /\ \A m \in Names \ {n} : stamp'[m] = stamp[m]
           /\ FileKind(n) \in {"none", "java", "class"}
           /\ stamp'[n] = IF kind[n] # "none" THEN stamp[n]
                          ELSE IF FileKind(n) = "java" THEN mtime[n] ELSE classTime[n]
<1>1. FileKind(n) \in {"none", "java", "class"}
  BY DEF FileKind, TypeOK
<1>2. /\ kind \in [Names -> {"none", "java", "class"}] /\ stamp \in [Names -> 0 .. clock]
      /\ mtime \in [Names -> 0 .. clock] /\ classTime \in [Names -> 0 .. clock]
  BY DEF TypeOK
<1> QED
  BY <1>1, <1>2 DEF InsertFileSymbol

LEMMA MissingTypes ==
    ASSUME TypesInv, phase = "compile", NEW asked \in lookups, NEW n \in Names,
           n \notin types, Missing(n), UNCHANGED <<disk, listing, edges, recompilation, expired,
                                                   rounds, toRead>>
    PROVE  TypesInv'
<1>1. TypeOK /\ EdgesAreLive /\ Idle /\ Waiting /\ LookupsKnown /\ TypesListed /\ InReach
  BY DEF TypesInv
<1> DEFINE file == IF FileKind(n) = "none" THEN NoName ELSE n
<1>2. /\ types' = types \cup {n} /\ fileOf' = [fileOf EXCEPT ![n] = file] /\ pending' = pending
      /\ fileTypes' = [g \in Names |-> IF g = file THEN fileTypes[g] \cup {n} ELSE fileTypes[g]]
      /\ trashBin' = IF file = NoName THEN trashBin \cup {n} ELSE trashBin
      /\ bad' = bad \cup {n} /\ (file = NoName \/ (file = n /\ n \in read))
  BY IncrementalAssumption DEF Missing, InsertType, ProcessBadType
<1>3. UNCHANGED <<source, mtime, classTime, classUses, clock, entry, classEntry, dependents, parents,
                  recompilation, expired, fresh, seen, trash, toRead, kind, stamp, packaged, lex,
                  dangling, javaSet, classSet, read, lookups, errors, phase, edited, firm, owed>>
  BY DEF Missing, disk, listing, edges, rounds, history
<1> HIDE DEF file
<1>4. /\ types \subseteq Names /\ pending \subseteq types /\ fileTypes \in [Names -> SUBSET Names]
      /\ fileOf \in [Names -> Names \cup {NoName}] /\ trashBin \cup trash \subseteq types
  BY <1>1 DEF TypeOK
<1>5. /\ types' \subseteq Names /\ fileTypes' \in [Names -> SUBSET Names]
      /\ fileOf' \in [Names -> Names \cup {NoName}] /\ trashBin' \cup trash' \subseteq types'
      /\ bad' \cup pending' \subseteq types'
  BY <1>1, <1>2, <1>3, <1>4 DEF TypeOK
<1>6. \A m \in types' : fileOf'[m] = NoName => m \in bad'
  BY <1>1, <1>2, <1>4 DEF TypeOK
<1>7. TypeOK'
  BY <1>1, <1>3, <1>5, <1>6 DEF TypeOK
<1>8. EdgesAreLive' /\ Idle' /\ LookupsKnown' /\ TrashClosed'
  BY <1>1, <1>2, <1>3 DEF EdgesAreLive, Idle, LookupsKnown, TrashClosed, Choosing
<1>9. Waiting'
  BY <1>1, <1>2, <1>3, <1>4 DEF Waiting
<1>10. TypesListed'
  BY <1>1, <1>2, <1>3, <1>4 DEF TypesListed
<1>11. InReach'
  <2>1. asked.file \in Candidates /\ Candidates' = Candidates
    BY <1>1, <1>3 DEF LookupsKnown, InReach, Candidates
  <2>2. Candidates \subseteq Names /\ (file = n => n \in Candidates)
    BY <1>1, <1>2, <1>4, IncrementalAssumption DEF Candidates, TypeOK, InReach
  <2>3. \A g \in Candidates : fileTypes[g] \subseteq fileTypes'[g]
    BY <1>2, <2>2
  <2>4. n \in trashBin' \cup UNION {fileTypes'[g] : g \in Candidates}
    BY <1>2, <1>4, <2>2
  <2>5. types' \subseteq pending' \cup trash' \cup trashBin' \cup UNION {fileTypes'[g] : g \in Candidates'}
    <3>1. pending' = pending /\ trash' = trash /\ trashBin \subseteq trashBin' /\ types' = types \cup {n}
      BY <1>2, <1>3
    <3>2. types \subseteq pending \cup trash \cup trashBin \cup UNION {fileTypes[g] : g \in Candidates}
      BY <1>1 DEF InReach
    <3>3. UNION {fileTypes[g] : g \in Candidates} \subseteq UNION {fileTypes'[g] : g \in Candidates'}
      BY <2>1, <2>3
    <3> QED
      BY <2>1, <2>4, <3>1, <3>2, <3>3
  <2> QED
    BY <1>1, <1>3, <2>1, <2>5 DEF InReach
<1> QED
  BY <1>7, <1>8, <1>9, <1>10, <1>11 DEF TypesInv

LEMMA ReadClassTypes ==
    ASSUME TypesInv, phase = "compile", NEW n \in Names, n \notin types, ReadClassFile(n),
           UNCHANGED <<disk, listing, edges, recompilation, expired, rounds, toRead>>
    PROVE  TypesInv'
<1>1. TypeOK /\ EdgesAreLive /\ Idle /\ Waiting /\ LookupsKnown /\ TypesListed /\ InReach
  BY DEF TypesInv
<1>2. /\ types' = types \cup {n} /\ fileOf' = [fileOf EXCEPT ![n] = n] /\ pending' = pending
      /\ fileTypes' = [fileTypes EXCEPT ![n] = @ \cup {n}] /\ packaged' = packaged \cup {n}
      /\ classSet' = classSet \cup {n} /\ lookups' = lookups \cup Lookups(n, n, classUses[n])
      /\ firm' = [firm EXCEPT ![n] = {}] /\ InsertFileSymbol(n)
  BY DEF ReadClassFile, InsertType
<1>3. UNCHANGED <<source, mtime, classTime, classUses, clock, entry, classEntry, dependents, parents,
                  recompilation, expired, fresh, seen, trash, toRead, lex, bad, trashBin,
                  dangling, javaSet, read, errors, phase, edited, owed>>
  BY DEF ReadClassFile, disk, listing, edges, rounds
<1>4. kind' \in [Names -> {"none", "java", "class"}] /\ stamp' \in [Names -> 0 .. clock]
  BY <1>1, <1>2, FileKindFacts
<1>5. /\ types \subseteq Names /\ pending \subseteq types /\ fileTypes \in [Names -> SUBSET Names]
      /\ fileOf \in [Names -> Names \cup {NoName}] /\ trashBin \cup trash \subseteq types
      /\ classUses \in [Names -> SUBSET Names] /\ firm \in [Names -> SUBSET Names]
  BY <1>1 DEF TypeOK
<1>6. /\ types' \subseteq Names /\ fileTypes' \in [Names -> SUBSET Names]
      /\ fileOf' \in [Names -> Names \cup {NoName}] /\ trashBin' \cup trash' \subseteq types'
      /\ bad' \cup pending' \subseteq types' /\ packaged' \subseteq Names
      /\ firm' \in [Names -> SUBSET Names] /\ classSet' \subseteq Names
  BY <1>1, <1>2, <1>3, <1>5 DEF TypeOK
<1>7. \A m \in types' : fileOf'[m] = NoName => m \in bad'
  BY <1>1, <1>2, <1>3, <1>5, IncrementalAssumption DEF TypeOK
<1>8. \A asked \in lookups' : asked \in lookups \/ asked \in [file : {n}, type : {n}, name : Names]
  BY <1>2, <1>5 DEF Lookups
<1>9. lookups' \subseteq [file : Names, type : Names, name : Names]
  BY <1>1, <1>8 DEF TypeOK
<1>10. /\ errors' \subseteq read' \cup classSet'
       /\ javaSet' \cup classSet' \cup recompilation' \cup expired' \cup toRead' \cup read' \subseteq Names
  BY <1>1, <1>2, <1>3 DEF TypeOK
<1>11. TypeOK'
  BY <1>1, <1>3, <1>4, <1>6, <1>7, <1>9, <1>10 DEF TypeOK
<1>12. EdgesAreLive' /\ Idle' /\ TrashClosed'
  BY <1>1, <1>2, <1>3 DEF EdgesAreLive, Idle, TrashClosed, Choosing
<1>13. Waiting'
  BY <1>1, <1>2, <1>3, <1>5 DEF Waiting
<1>14. LookupsKnown'
  BY <1>1, <1>2, <1>3, <1>8 DEF LookupsKnown
<1>15. TypesListed'
  BY <1>1, <1>2, <1>3, <1>5 DEF TypesListed
<1>16. InReach'
  <2>1. Candidates' = Candidates \cup {n} /\ Candidates \subseteq Names
    BY <1>1, <1>2, <1>3 DEF Candidates, TypeOK
  <2>2. n \in fileTypes'[n] /\ \A g \in Candidates : fileTypes[g] \subseteq fileTypes'[g]
    BY <1>2, <1>5, <2>1
  <2>3. types' \subseteq pending' \cup trash' \cup trashBin' \cup UNION {fileTypes'[g] : g \in Candidates'}
    BY <1>1, <1>2, <1>3, <2>1, <2>2 DEF InReach
  <2> QED
    BY <1>1, <1>3, <2>1, <2>3 DEF InReach
<1> QED
  BY <1>11, <1>12, <1>13, <1>14, <1>15, <1>16 DEF TypesInv

-----------------------------------------------------------------------------
(* Dependences, and the end of the pass.                                    *)

LEMMA DependenceTypes ==
    ASSUME TypesInv, AddDependence
    PROVE  TypesInv'
<1>1. TypeOK /\ EdgesAreLive /\ Idle /\ Waiting /\ LookupsKnown /\ TypesListed /\ InReach
  BY DEF TypesInv
<1>2. PICK asked \in lookups :
        LET f    == asked.file
            t    == asked.type
            n    == asked.name
            good == t \notin bad /\ n \notin bad
        IN  /\ n \in types
            /\ n \notin pending \/ fileOf[n] \in read
            /\ dependents' = IF good THEN [dependents EXCEPT ![n] = @ \cup {t}] ELSE dependents
            /\ parents' = IF good THEN [parents EXCEPT ![t] = @ \cup {n}] ELSE parents
            /\ firm' = IF good THEN [firm EXCEPT ![f] = @ \cup {fileOf[n]}] ELSE firm
            /\ errors' = IF n \in bad THEN errors \cup {f} ELSE errors
            /\ lookups' = lookups \ {asked}
  BY DEF AddDependence
<1> DEFINE f == asked.file
           t == asked.type
           n == asked.name
<1>3. phase = "compile" /\ f \in Names /\ t \in types /\ n \in types /\ f \in read \cup classSet
  BY <1>1, <1>2 DEF AddDependence, LookupsKnown, TypeOK
<1>4. UNCHANGED <<disk, listing, files, symbols, control, rounds, phase, toRead, read, edited, owed>>
  BY DEF AddDependence
<1>5. /\ dependents \in [Names -> SUBSET Names] /\ parents \in [Names -> SUBSET Names]
      /\ firm \in [Names -> SUBSET Names] /\ types \subseteq Names
      /\ (n \notin bad => fileOf[n] \in Names)
  BY <1>1, <1>3 DEF TypeOK
<1> HIDE DEF f, t, n
<1>6. /\ dependents' \in [Names -> SUBSET Names] /\ parents' \in [Names -> SUBSET Names]
      /\ firm' \in [Names -> SUBSET Names] /\ errors' \subseteq errors \cup {f}
      /\ lookups' \subseteq lookups
  BY <1>2, <1>3, <1>5 DEF f, t, n
<1>7. TypeOK'
  BY <1>1, <1>3, <1>4, <1>6 DEF TypeOK, disk, listing, files, symbols, control, rounds
<1>8. EdgesAreLive'
  <2>1. UNCHANGED types
    BY <1>4 DEF symbols
  <2>2. CASE UNCHANGED <<dependents, parents>>
    BY <1>1, <2>1, <2>2 DEF EdgesAreLive
  <2>3. CASE /\ dependents' = [dependents EXCEPT ![n] = @ \cup {t}]
             /\ parents' = [parents EXCEPT ![t] = @ \cup {n}]
    BY <1>1, <1>3, <1>5, <2>1, <2>3 DEF EdgesAreLive
  <2> QED
    BY <1>2, <2>2, <2>3 DEF n, t
<1>9. UNCHANGED <<types, fileOf, pending, fileTypes, dangling, lex, javaSet, classSet, trash, trashBin,
                  phase, toRead, read, fresh>>
  BY <1>4 DEF symbols, files, control, rounds
<1> QED
  BY <1>1, <1>3, <1>6, <1>7, <1>8, <1>9
     DEF TypesInv, Idle, Waiting, LookupsKnown, TypesListed, TrashClosed, InReach, Choosing, Candidates

LEMMA FinishTypes ==
    ASSUME TypesInv, FinishPass
    PROVE  TypesInv'
<1>1. TypeOK /\ EdgesAreLive /\ Idle /\ Waiting /\ LookupsKnown /\ TypesListed /\ InReach
  BY DEF TypesInv
<1>2. /\ phase = "compile" /\ lookups = {} /\ toRead = {} /\ read' = {} /\ errors' = {}
      /\ phase' = "prompt"
      /\ \E S \in SUBSET Names :
            /\ classTime' = [n \in Names |-> IF n \in S THEN clock ELSE classTime[n]]
            /\ classUses' = [n \in Names |-> IF n \in S THEN parents[n] ELSE classUses[n]]
  <2>1. (types \ bad) \cap UNION {fileTypes[f] : f \in read \ errors} \in SUBSET Names
    BY <1>1 DEF TypeOK
  <2> QED
    BY <2>1 DEF FinishPass
<1>3. UNCHANGED <<source, mtime, clock, entry, classEntry, kind, stamp, packaged, lex, fileTypes,
                  dangling, types, fileOf, bad, pending, dependents, parents, javaSet, classSet,
                  recompilation, expired, trashBin, fresh, seen, trash, toRead, lookups, edited,
                  firm, owed>>
  BY DEF FinishPass, listing, files, symbols, edges, control, rounds, history
<1>4. clock \in 0 .. clock
  BY <1>1, IncrementalAssumption DEF TypeOK
<1>5. classTime' \in [Names -> 0 .. clock] /\ classUses' \in [Names -> SUBSET Names]
  BY <1>1, <1>2, <1>4 DEF TypeOK
<1>6. TypeOK'
  BY <1>1, <1>2, <1>3, <1>5 DEF TypeOK
<1>7. pending = {} /\ trash = {}
  BY <1>1, <1>2 DEF Waiting, Idle
<1> QED
  BY <1>1, <1>2, <1>3, <1>6, <1>7
     DEF TypesInv, EdgesAreLive, Idle, Waiting, LookupsKnown, TypesListed, TrashClosed, InReach,
         Choosing, Candidates

-----------------------------------------------------------------------------
(* What is to be compiled again.                                            *)

LEMMA EnterTypes ==
    ASSUME TypesInv, Enter
    PROVE  TypesInv'
<1>1. TypeOK /\ EdgesAreLive /\ Idle /\ Waiting /\ LookupsKnown /\ TypesListed /\ InReach
  BY DEF TypesInv
<1>2. /\ phase = "prompt" /\ phase' = IF Candidates \cap dangling = {} THEN "rounds" ELSE "freed"
      /\ IF Candidates = {} THEN UNCHANGED listing ELSE entry' = mtime /\ classEntry' = classTime
      /\ recompilation' = Newer(Candidates, mtime, stamp) /\ expired' = Vanished(Candidates, mtime)
      /\ fresh' = recompilation' \cup expired' /\ seen' = fresh'
      /\ stamp' = [n \in Names |-> IF n \in recompilation' THEN mtime[n] ELSE stamp[n]]
      /\ trash' = IF Candidates = {} THEN {} ELSE Closure(trashBin)
      /\ edited' = {} /\ owed' = OutOfDate(firm, Modified \cup Removed, mtime)
  BY DEF Enter, Candidates
<1>3. UNCHANGED <<source, mtime, classTime, classUses, clock, kind, packaged, lex, fileTypes,
                  dangling, types, fileOf, bad, pending, dependents, parents, javaSet, classSet,
                  trashBin, toRead, read, lookups, errors, firm>>
  BY DEF Enter, disk, symbols, edges, pass
<1>4. Candidates \subseteq Names /\ trashBin \subseteq types
  BY <1>1 DEF Candidates, TypeOK
<1>5. recompilation' \subseteq Candidates /\ expired' \subseteq Candidates /\ owed' \subseteq javaSet
  BY <1>2 DEF Newer, Vanished, OutOfDate
<1>6. /\ trash' \subseteq types /\ \A p \in trash' : dependents[p] \subseteq trash'
      /\ Candidates # {} => trashBin \subseteq trash'
  <2>1. CASE Candidates = {}
    BY <1>2, <2>1
  <2>2. CASE Candidates # {}
    BY <1>1, <1>2, <1>4, <2>2, ClosureFacts
  <2> QED
    BY <2>1, <2>2
<1>7. /\ entry' \in [Names -> 0 .. clock] /\ classEntry' \in [Names -> 0 .. clock]
      /\ stamp' \in [Names -> 0 .. clock]
  BY <1>1, <1>2 DEF TypeOK, listing
<1>8. fresh' = seen' /\ seen' \subseteq Names /\ owed' \subseteq Names
  BY <1>1, <1>2, <1>4, <1>5 DEF TypeOK
<1>9. TypeOK'
  BY <1>1, <1>2, <1>3, <1>4, <1>5, <1>6, <1>7, <1>8 DEF TypeOK
<1>10. EdgesAreLive' /\ Idle' /\ Waiting' /\ LookupsKnown'
  BY <1>1, <1>2, <1>3 DEF EdgesAreLive, Idle, Waiting, LookupsKnown, Choosing
<1>11. TypesListed'
  BY <1>1, <1>2, <1>3, <1>5 DEF TypesListed
<1>12. TrashClosed'
  BY <1>2, <1>3, <1>6 DEF TrashClosed, Candidates
<1>13. InReach'
  BY <1>1, <1>2, <1>3 DEF InReach, Idle, Candidates
<1> QED
  BY <1>9, <1>10, <1>11, <1>12, <1>13 DEF TypesInv

\* One turn of the loop, with the sets it computes named.
Turn(scanned, closure, next) ==
    /\ scanned = fresh \ expired
    /\ closure = trash \cup Closure(UNION {fileTypes[f] : f \in fresh})
                       \cup Closure(types \cap UNION {Declared(source[f]) : f \in scanned})
    /\ next = NewFiles(closure)
    /\ fileTypes' = [n \in Names |-> IF n \in scanned THEN {} ELSE fileTypes[n]]
    /\ kind' = [n \in Names |-> IF n \in scanned THEN "java" ELSE kind[n]]
    /\ lex' = [n \in Names |-> IF n \in scanned THEN source[n] ELSE lex[n]]
    /\ dangling' = dangling \ scanned
    /\ edited' = edited \ scanned
    /\ trash' = closure
    /\ fresh' = next /\ seen' = seen \cup next
    /\ recompilation' = recompilation \cup Forced(next)
    /\ expired' = expired \cup {f \in next : entry[f] = 0 /\ kind[f] = "java"}
    /\ stamp' = [n \in Names |-> IF n \in next THEN entry[n] ELSE stamp[n]]
    /\ phase' = IF next \cap dangling # {} THEN "freed"
                ELSE IF next = {} THEN "trash" ELSE "rounds"

LEMMA RoundTurns ==
    ASSUME TypeOK, EdgesAreLive, TypesListed, TrashClosed, Round
    PROVE  \E scanned \in SUBSET Names, closure \in SUBSET types, next \in SUBSET Names :
              /\ Turn(scanned, closure, next) /\ next \cap (seen \cup {NoName}) = {}
              /\ scanned \subseteq fresh
              /\ \A t \in closure : fileOf[t] \in seen \cup next \cup {NoName}
              /\ \A p \in closure : dependents[p] \subseteq closure
              /\ \A f \in fresh : fileTypes[f] \subseteq closure
              /\ \A f \in scanned : types \cap Declared(source[f]) \subseteq closure
              /\ trash \subseteq closure
<1> DEFINE scanned == fresh \ expired
           listed  == UNION {fileTypes[f] : f \in fresh}
           named   == types \cap UNION {Declared(source[f]) : f \in scanned}
           closure == trash \cup Closure(listed) \cup Closure(named)
           next    == NewFiles(closure)
<1>1. phase = "rounds"
  BY DEF Round
<1>2. fresh \subseteq Names /\ trash \subseteq types /\ types \subseteq Names
      /\ fileOf \in [Names -> Names \cup {NoName}]
  BY DEF TypeOK
<1>3. listed \subseteq types
  BY <1>1, <1>2 DEF TypesListed
<1>4. named \subseteq types
  OBVIOUS
<1>5. Turn(scanned, closure, next)
  BY DEF Round, Turn
<1>6. \A f \in fresh : fileTypes[f] \subseteq listed
  OBVIOUS
<1>7. \A f \in scanned : types \cap Declared(source[f]) \subseteq named
  OBVIOUS
<1> HIDE DEF listed, named
<1>8. /\ listed \subseteq Closure(listed) /\ Closure(listed) \subseteq types
      /\ \A p \in Closure(listed) : dependents[p] \subseteq Closure(listed)
  BY <1>3, ClosureFacts
<1>9. /\ named \subseteq Closure(named) /\ Closure(named) \subseteq types
      /\ \A p \in Closure(named) : dependents[p] \subseteq Closure(named)
  BY <1>4, ClosureFacts
<1>10. /\ closure \subseteq types /\ trash \subseteq closure
       /\ \A p \in closure : dependents[p] \subseteq closure
       /\ listed \subseteq closure /\ named \subseteq closure
  BY <1>1, <1>2, <1>8, <1>9 DEF TrashClosed, Choosing
<1> HIDE DEF closure
<1>11. /\ next \subseteq Names /\ next \cap (seen \cup {NoName}) = {}
       /\ \A t \in closure : fileOf[t] \in seen \cup next \cup {NoName}
  BY <1>2, <1>10 DEF NewFiles
<1> QED
  BY <1>2, <1>5, <1>6, <1>7, <1>10, <1>11

LEMMA RoundTypes ==
    ASSUME TypesInv, Round
    PROVE  TypesInv'
<1>1. TypeOK /\ EdgesAreLive /\ Idle /\ Waiting /\ LookupsKnown /\ TypesListed /\ TrashClosed /\ InReach
  BY DEF TypesInv
<1>2. phase = "rounds"
      /\ UNCHANGED <<source, mtime, classTime, classUses, clock, entry, classEntry, packaged,
                     types, fileOf, bad, pending, dependents, parents, javaSet, classSet, trashBin,
                     toRead, read, lookups, errors, firm, owed>>
  BY DEF Round, disk, listing, symbols, edges, pass
<1>3. PICK scanned \in SUBSET Names, closure \in SUBSET types, next \in SUBSET Names :
              /\ Turn(scanned, closure, next) /\ next \cap (seen \cup {NoName}) = {}
              /\ scanned \subseteq fresh
              /\ \A t \in closure : fileOf[t] \in seen \cup next \cup {NoName}
              /\ \A p \in closure : dependents[p] \subseteq closure
              /\ \A f \in fresh : fileTypes[f] \subseteq closure
              /\ trash \subseteq closure
  BY <1>1, RoundTurns
<1>4. /\ fileTypes' = [n \in Names |-> IF n \in scanned THEN {} ELSE fileTypes[n]]
      /\ kind' = [n \in Names |-> IF n \in scanned THEN "java" ELSE kind[n]]
      /\ lex' = [n \in Names |-> IF n \in scanned THEN source[n] ELSE lex[n]]
      /\ dangling' = dangling \ scanned /\ edited' \subseteq edited
      /\ trash' = closure /\ fresh' = next /\ seen' = seen \cup next
      /\ recompilation \subseteq recompilation' /\ recompilation' \subseteq recompilation \cup next
      /\ expired' \subseteq expired \cup next
      /\ stamp' = [n \in Names |-> IF n \in next THEN entry[n] ELSE stamp[n]]
      /\ phase' = IF next \cap dangling # {} THEN "freed"
                  ELSE IF next = {} THEN "trash" ELSE "rounds"
  BY <1>3 DEF Turn, Forced
<1>5. /\ fileTypes \in [Names -> SUBSET Names] /\ fresh \subseteq seen /\ seen \subseteq Names
      /\ types \subseteq Names /\ Candidates \subseteq Names
  BY <1>1 DEF TypeOK, Candidates
<1>6. /\ {source', lex'} \subseteq [Names -> (UNION {Texts[n] : n \in Names}) \cup {NoText}]
      /\ \A n \in Names : {source'[n], lex'[n]} \subseteq Texts[n] \cup {NoText}
  <2>1. \A n \in Names : {source[n], lex[n]} \subseteq Texts[n] \cup {NoText}
    BY <1>1 DEF TypeOK
  <2>2. \A n \in Names : lex'[n] \in Texts[n] \cup {NoText}
    BY <1>4, <2>1
  <2>3. lex' \in [Names -> (UNION {Texts[n] : n \in Names}) \cup {NoText}]
    BY <1>4, <2>2
  <2> QED
    BY <1>1, <1>2, <2>1, <2>2, <2>3 DEF TypeOK
<1>7. /\ kind' \in [Names -> {"none", "java", "class"}] /\ stamp' \in [Names -> 0 .. clock]
      /\ fileTypes' \in [Names -> SUBSET Names]
  BY <1>1, <1>4, <1>5 DEF TypeOK
<1>8. /\ trashBin' \cup trash' \subseteq types' /\ fresh' \subseteq seen' /\ seen' \subseteq Names
      /\ edited' \cup owed' \cup dangling' \subseteq Names
      /\ javaSet' \cup classSet' \cup recompilation' \cup expired' \cup toRead' \cup read' \subseteq Names
      /\ phase' \in {"freed", "trash", "rounds"}
  BY <1>1, <1>2, <1>3, <1>4, <1>5 DEF TypeOK
<1>9. TypeOK'
  BY <1>1, <1>2, <1>6, <1>7, <1>8 DEF TypeOK
<1>10. EdgesAreLive' /\ Idle' /\ Waiting' /\ LookupsKnown'
  BY <1>1, <1>2, <1>8 DEF EdgesAreLive, Idle, Waiting, LookupsKnown, Choosing
<1>11. TypesListed'
  BY <1>1, <1>2, <1>4, <1>5 DEF TypesListed
<1>12. TrashClosed'
  <2> SUFFICES ASSUME Choosing' PROVE TrashClosed'
    BY DEF TrashClosed
  <2>1. /\ \A p \in trash : dependents[p] \subseteq trash
        /\ recompilation \cup expired \subseteq seen
        /\ \A f \in seen \ fresh : fileTypes[f] \subseteq trash
        /\ Candidates # {} => trashBin \subseteq trash
    BY <1>1, <1>2 DEF TrashClosed, Choosing
  <2>2. Candidates' = Candidates
    BY <1>2 DEF Candidates
  <2>3. recompilation' \cup expired' \subseteq seen'
    BY <1>4, <2>1
  <2>4. \A f \in seen' \ fresh' : fileTypes'[f] \subseteq trash'
    <3> SUFFICES ASSUME NEW f \in seen PROVE fileTypes'[f] \subseteq trash'
      BY <1>4
    <3>1. fileTypes[f] \subseteq closure
      BY <1>3, <2>1
    <3> QED
      BY <1>4, <1>5, <3>1
  <2>5. phase' = "trash" => fresh' = {} /\ \A t \in trash' : fileOf'[t] \in seen' \cup {NoName}
    BY <1>2, <1>3, <1>4
  <2> QED
    BY <1>2, <1>3, <1>4, <2>1, <2>2, <2>3, <2>4, <2>5 DEF TrashClosed
<1>13. InReach'
  <2>1. types \subseteq pending \cup trash \cup trashBin \cup UNION {fileTypes[f] : f \in Candidates}
    BY <1>1 DEF InReach
  <2>2. \A f \in Candidates : fileTypes[f] \subseteq fileTypes'[f] \cup trash'
    BY <1>3, <1>4, <1>5
  <2>3. Candidates' = Candidates
    BY <1>2 DEF Candidates
  <2>4. types' \subseteq pending' \cup trash' \cup trashBin' \cup UNION {fileTypes'[f] : f \in Candidates'}
    <3> SUFFICES ASSUME NEW t \in types, t \notin pending \cup trash' \cup trashBin
                 PROVE  \E f \in Candidates : t \in fileTypes'[f]
      BY <1>2, <2>3
    <3>1. t \notin trash
      BY <1>3, <1>4
    <3>2. PICK f \in Candidates : t \in fileTypes[f]
      BY <2>1, <3>1
    <3> QED
      BY <2>2, <3>2
  <2> QED
    BY <1>1, <1>2, <2>3, <2>4 DEF InReach
<1> QED
  BY <1>9, <1>10, <1>11, <1>12, <1>13 DEF TypesInv

\* RemoveTrashedTypes, with what is left and what the scanned files declare anew.
Removal(left, scanned, new) ==
    /\ left = types \ trash /\ scanned = {f \in recompilation : lex[f] # NoText}
    /\ new = (UNION {Declared(lex[f]) : f \in scanned}) \ left
    /\ dependents' = [p \in Names |-> IF p \in left THEN WithoutTrash(p) ELSE {}]
    /\ parents' = [t \in Names |-> IF t \in left THEN parents[t] ELSE {}]
    /\ \E owner \in [new -> scanned] :
          /\ \A t \in new : t \in Declared(lex[owner[t]])
          /\ fileOf' = [t \in Names |-> IF t \in new THEN owner[t]
                                        ELSE IF t \in left THEN fileOf[t] ELSE NoName]
    /\ types' = left \cup new /\ pending' = (pending \cap left) \cup new
    /\ bad' = bad \cap left
    /\ packaged' = packaged \cup scanned
    /\ dangling' = dangling \cup {f \in Names : fileTypes[f] \cap trash # {}}
    /\ classSet' = classSet \ {t \in trash : fileOf[t] = t}
    /\ javaSet' = javaSet \ (recompilation \cup expired)
    /\ toRead' = recompilation
    /\ recompilation' = {} /\ expired' = {} /\ trashBin' = {}
    /\ fresh' = {} /\ seen' = {} /\ trash' = {}
    /\ phase' = "compile"

LEMMA RemovalTaken ==
    ASSUME TypeOK, RemoveTrashedTypes
    PROVE  /\ \E left \in SUBSET types, scanned \in SUBSET recompilation, new \in SUBSET Names :
                 Removal(left, scanned, new)
           /\ phase = "trash"
           /\ UNCHANGED <<source, mtime, classTime, classUses, clock, entry, classEntry, kind, stamp,
                          lex, fileTypes, read, lookups, errors, edited, firm, owed>>
<1> DEFINE left    == types \ trash
           scanned == {f \in recompilation : lex[f] # NoText}
           new     == (UNION {Declared(lex[f]) : f \in scanned}) \ left
<1>1. scanned \subseteq Names
  BY DEF TypeOK
<1>2. new \subseteq Names
  BY <1>1, SourceFacts
<1>3. Removal(left, scanned, new)
  BY DEF RemoveTrashedTypes, Removal, DeclareTypes
<1> QED
  BY <1>2, <1>3 DEF RemoveTrashedTypes, disk, listing, history

LEMMA RemoveTypes ==
    ASSUME TypesInv, RemoveTrashedTypes
    PROVE  TypesInv'
<1>1. TypeOK /\ EdgesAreLive /\ Idle /\ LookupsKnown /\ TypesListed /\ TrashClosed /\ InReach
  BY DEF TypesInv
<1>2. phase = "trash"
      /\ UNCHANGED <<source, mtime, classTime, classUses, clock, entry, classEntry, kind, stamp,
                     lex, fileTypes, read, lookups, errors, edited, firm, owed>>
  BY <1>1, RemovalTaken
<1>3. PICK left \in SUBSET types, scanned \in SUBSET recompilation, new \in SUBSET Names :
              Removal(left, scanned, new)
  BY <1>1, RemovalTaken
<1>4. /\ left = types \ trash /\ scanned = {f \in recompilation : lex[f] # NoText}
      /\ dependents' = [p \in Names |-> IF p \in left THEN WithoutTrash(p) ELSE {}]
      /\ parents' = [t \in Names |-> IF t \in left THEN parents[t] ELSE {}]
      /\ types' = left \cup new /\ pending' = (pending \cap left) \cup new
      /\ bad' = bad \cap left /\ packaged' = packaged \cup scanned
      /\ dangling' = dangling \cup {f \in Names : fileTypes[f] \cap trash # {}}
      /\ classSet' = classSet \ {t \in trash : fileOf[t] = t}
      /\ javaSet' = javaSet \ (recompilation \cup expired)
      /\ toRead' = recompilation
      /\ recompilation' = {} /\ expired' = {} /\ trashBin' = {}
      /\ fresh' = {} /\ seen' = {} /\ trash' = {} /\ phase' = "compile"
  BY <1>3 DEF Removal
<1>5. PICK owner \in [new -> scanned] :
          /\ \A t \in new : t \in Declared(lex[owner[t]])
          /\ fileOf' = [t \in Names |-> IF t \in new THEN owner[t]
                                        ELSE IF t \in left THEN fileOf[t] ELSE NoName]
  BY <1>3 DEF Removal
<1>6. /\ lookups = {} /\ read = {} /\ errors = {} /\ pending = {}
      /\ \A p \in trash : dependents[p] \subseteq trash
      /\ recompilation \cup expired \subseteq seen
      /\ \A f \in seen : fileTypes[f] \subseteq trash
      /\ \A t \in trash : fileOf[t] \in seen \cup {NoName}
      /\ Candidates # {} => trashBin \subseteq trash
  BY <1>1, <1>2 DEF Idle, TrashClosed, Choosing
<1>7. /\ dependents \in [Names -> SUBSET Names] /\ parents \in [Names -> SUBSET Names]
      /\ fileOf \in [Names -> Names \cup {NoName}] /\ types \subseteq Names
      /\ recompilation \subseteq Names
  BY <1>1 DEF TypeOK
<1>8. pending' = new /\ new \cap left = {}
  <2>1. new = (UNION {Declared(lex[f]) : f \in scanned}) \ left
    BY <1>3 DEF Removal
  <2> QED
    BY <1>4, <1>6, <2>1
<1>9. TypeOK'
  <2>1. /\ dependents' \in [Names -> SUBSET Names] /\ parents' \in [Names -> SUBSET Names]
    BY <1>4, <1>7 DEF WithoutTrash
  <2>2. \A t \in new : owner[t] \in Names
    BY <1>5, <1>7
  <2>3. fileOf' \in [Names -> Names \cup {NoName}]
    BY <1>5, <1>7, <2>2
  <2>4. \A n \in types' : fileOf'[n] = NoName => n \in bad'
    BY <1>1, <1>4, <1>5, <1>7, <1>8, <2>2, IncrementalAssumption DEF TypeOK
  <2>5. /\ bad' \cup pending' \subseteq types' /\ types' \subseteq Names /\ packaged' \subseteq Names
        /\ dangling' \subseteq Names /\ errors' \subseteq read' \cup classSet'
        /\ javaSet' \cup classSet' \cup recompilation' \cup expired' \cup toRead' \cup read' \subseteq Names
    BY <1>1, <1>2, <1>4, <1>6, <1>7 DEF TypeOK
  <2> QED
    BY <1>1, <1>2, <1>4, <2>1, <2>3, <2>4, <2>5 DEF TypeOK
<1>10. EdgesAreLive'
  <2> SUFFICES ASSUME NEW p \in Names, NEW t \in Names
               PROVE  /\ t \in dependents'[p] <=> p \in parents'[t]
                      /\ t \in dependents'[p] => {p, t} \subseteq types'
    BY DEF EdgesAreLive
  <2>1. /\ t \in dependents[p] <=> p \in parents[t]
        /\ t \in dependents[p] => {p, t} \subseteq types
    BY <1>1 DEF EdgesAreLive
  <2>2. t \in dependents'[p] <=> p \in left /\ t \in dependents[p] /\ t \notin trash
    BY <1>4, <2>1 DEF WithoutTrash
  <2>3. p \in parents'[t] <=> t \in left /\ p \in parents[t]
    BY <1>4
  <2>4. p \in trash /\ t \in dependents[p] => t \in trash
    BY <1>6
  <2> QED
    BY <1>4, <2>1, <2>2, <2>3, <2>4
<1>11. Idle' /\ LookupsKnown' /\ TrashClosed'
  BY <1>2, <1>4, <1>6 DEF Idle, LookupsKnown, TrashClosed, Choosing
<1>12. Waiting'
  <2> SUFFICES ASSUME NEW t \in new
               PROVE  fileOf'[t] \in toRead' \ javaSet' /\ t \in Declared(lex'[fileOf'[t]])
    BY <1>8 DEF Waiting
  <2>1. fileOf'[t] = owner[t]
    BY <1>5
  <2> QED
    BY <1>2, <1>4, <1>5, <2>1
<1>13. TypesListed'
  BY <1>1, <1>2, <1>4 DEF TypesListed
<1>14. InReach'
  <2>1. ASSUME NEW t \in left
        PROVE  \E f \in Candidates' : t \in fileTypes[f]
    <3>1. types \subseteq pending \cup trash \cup trashBin \cup UNION {fileTypes[f] : f \in Candidates}
          /\ (trashBin # {} => Candidates # {})
      BY <1>1 DEF InReach
    <3>2. t \notin trashBin
      BY <1>4, <1>6, <3>1
    <3>3. PICK f \in Candidates : t \in fileTypes[f]
      BY <1>4, <1>6, <3>1, <3>2
    <3>4. f \notin seen
      BY <1>4, <1>6, <3>3
    <3>5. CASE f \in javaSet
      BY <1>4, <1>6, <3>3, <3>4, <3>5 DEF Candidates
    <3>6. CASE f \in classSet
      <4>1. f # NoName
        BY <1>1, <3>6, IncrementalAssumption DEF TypeOK
      <4>2. ~ (f \in trash /\ fileOf[f] = f)
        BY <1>6, <3>4, <4>1
      <4> QED
        BY <1>4, <3>3, <3>6, <4>2 DEF Candidates
    <3> QED
      BY <3>3, <3>5, <3>6 DEF Candidates
  <2>2. types' \subseteq pending' \cup trash' \cup trashBin' \cup UNION {fileTypes'[f] : f \in Candidates'}
    BY <1>2, <1>4, <1>8, <2>1
  <2> QED
    BY <1>2, <1>4, <1>6, <2>2 DEF InReach
<1> QED
  BY <1>9, <1>10, <1>11, <1>12, <1>13, <1>14 DEF TypesInv

-----------------------------------------------------------------------------
(* Every step, and the theorems.                                            *)

LEMMA TypesStep ==
    ASSUME TypesInv, [Next]_vars
    PROVE  TypesInv'
<1>1. TypeOK
  BY DEF TypesInv
<1>2. CASE Save \/ Create \/ Delete
  BY <1>2, UserTypes
<1>3. CASE Enter
  BY <1>3, EnterTypes
<1>4. CASE Round
  BY <1>4, RoundTypes
<1>5. CASE RemoveTrashedTypes
  BY <1>5, RemoveTypes
<1>6. CASE ProcessFile
  <2>1. PICK f \in toRead :
          /\ toRead' = toRead \ {f}
          /\ IF f \in javaSet
             THEN UNCHANGED <<files, symbols, javaSet, read, lookups, errors, phase, history>>
             ELSE Read(f) /\ UNCHANGED <<kind, stamp, dangling>>
    BY <1>6 DEF ProcessFile
  <2>2. phase = "compile" /\ f \in Names
        /\ UNCHANGED <<disk, listing, edges, classSet, recompilation, expired, trashBin, rounds>>
    BY <1>1, <1>6 DEF ProcessFile, TypeOK
  <2>3. CASE f \in javaSet
    <3>1. UNCHANGED <<disk, listing, files, symbols, edges, control, rounds, phase, read, lookups,
                      errors, history>>
      BY <2>1, <2>2, <2>3 DEF control
    <3>2. TypeOK'
      BY <1>1, <2>1, <3>1 DEF TypeOK, disk, listing, files, symbols, edges, control, rounds, history
    <3>3. UNCHANGED <<types, fileOf, pending, fileTypes, dangling, lex, javaSet, classSet, trash,
                      trashBin, phase, read, fresh, lookups, errors, dependents, parents>>
      BY <3>1 DEF symbols, files, control, rounds, edges
    <3>4. Waiting'
      BY <2>1, <2>3, <3>3 DEF TypesInv, Waiting
    <3> QED
      BY <2>2, <3>2, <3>3, <3>4
         DEF TypesInv, EdgesAreLive, Idle, LookupsKnown, TypesListed, TrashClosed, InReach,
             Choosing, Candidates
  <2>4. CASE f \notin javaSet
    <3>1. kind' \in [Names -> {"none", "java", "class"}] /\ stamp' \in [Names -> 0 .. clock]
      BY <1>1, <2>1, <2>4 DEF TypeOK
    <3>2. SameBeside
      BY <2>1, <2>2, <2>4 DEF SameBeside
    <3> QED
      BY <2>1, <2>2, <2>4, <3>1, <3>2, ReadTypes
  <2> QED
    BY <2>3, <2>4
<1>7. CASE ReadType
  <2>1. phase = "compile"
        /\ UNCHANGED <<disk, listing, edges, recompilation, expired, rounds, toRead>>
    BY <1>7 DEF ReadType
  <2>2. PICK asked \in lookups :
          /\ asked.name \notin types
          /\ Missing(asked.name) \/ ReadClassFile(asked.name) \/ ReadJavaFile(asked.name)
    BY <1>7 DEF ReadType
  <2>3. asked.name \in Names
    BY <1>1 DEF TypeOK
  <2>4. CASE Missing(asked.name)
    BY <2>1, <2>2, <2>3, <2>4, MissingTypes
  <2>5. CASE ReadClassFile(asked.name)
    BY <2>1, <2>2, <2>3, <2>5, ReadClassTypes
  <2>6. CASE ReadJavaFile(asked.name)
    <3>1. /\ Read(asked.name) /\ InsertFileSymbol(asked.name)
          /\ UNCHANGED <<dangling, trashBin, classSet>>
      BY <2>6 DEF ReadJavaFile
    <3>2. kind' \in [Names -> {"none", "java", "class"}] /\ stamp' \in [Names -> 0 .. clock]
      BY <1>1, <2>3, <3>1, FileKindFacts
    <3>3. SameBeside /\ toRead' \in {toRead, toRead \ {asked.name}}
      BY <2>1, <3>1 DEF SameBeside
    <3> QED
      BY <2>1, <2>3, <3>1, <3>2, <3>3, ReadTypes
  <2> QED
    BY <2>2, <2>4, <2>5, <2>6
<1>8. CASE ReadPending
  <2>1. phase = "compile"
        /\ UNCHANGED <<disk, listing, kind, stamp, dangling, edges, classSet, recompilation, expired,
                       trashBin, rounds, toRead>>
    BY <1>8 DEF ReadPending
  <2>2. PICK asked \in lookups : asked.name \in pending /\ Read(fileOf[asked.name])
    BY <1>8 DEF ReadPending
  <2>3. fileOf[asked.name] \in Names
    BY <1>1, <2>1, <2>2 DEF TypesInv, Waiting, TypeOK
  <2>4. SameBeside /\ kind' \in [Names -> {"none", "java", "class"}] /\ stamp' \in [Names -> 0 .. clock]
    BY <1>1, <2>1 DEF SameBeside, TypeOK
  <2> QED
    BY <2>1, <2>2, <2>3, <2>4, ReadTypes
<1>9. CASE AddDependence
  BY <1>9, DependenceTypes
<1>10. CASE FinishPass
  BY <1>10, FinishTypes
<1>11. CASE UNCHANGED vars
  <2>1. UNCHANGED <<disk, listing, files, symbols, edges, control, rounds, phase, pass, history>>
    BY <1>11 DEF vars
  <2>2. TypeOK'
    BY <1>1, <2>1
       DEF TypeOK, disk, listing, files, symbols, edges, control, rounds, pass, history
  <2> QED
    BY <2>1, <2>2
       DEF TypesInv, EdgesAreLive, Idle, Waiting, LookupsKnown, TypesListed, TrashClosed, InReach,
           Choosing, Candidates, disk, listing, files, symbols, edges, control, rounds, pass, history
<1> QED
  BY <1>2, <1>3, <1>4, <1>5, <1>6, <1>7, <1>8, <1>9, <1>10, <1>11
     DEF Next, User, Compiler, Stopped

\* Always: what is recorded is of types that exist, what is deleted is deleted with
\* all that depends on it, and every type is listed where it will be found.
THEOREM RecordsInvariant == Spec => []TypesInv
<1> QED
  BY InitTypes, TypesStep, PTL DEF Spec

\* Every variable has its type, whatever the names, texts and directories.
THEOREM IncrementalTyped == Spec => []TypeOK
<1>1. TypesInv => TypeOK
  BY DEF TypesInv
<1> QED
  BY <1>1, RecordsInvariant, PTL

\* After RemoveTrashedTypes no dependence leads to or from a deleted type, and each
\* is recorded on both of its ends.
THEOREM NoDanglingDependence == Spec => []EdgesAreLive
<1>1. TypesInv => EdgesAreLive
  BY DEF TypesInv
<1> QED
  BY <1>1, RecordsInvariant, PTL

\* At the prompt, every type is one that the next Enter will find.
THEOREM NextEnterFindsAll == Spec => []AllTypesInReach
<1>1. TypesInv => AllTypesInReach
  BY DEF TypesInv, AllTypesInReach, Idle, InReach, Candidates
<1> QED
  BY <1>1, RecordsInvariant, PTL

-----------------------------------------------------------------------------
(***************************************************************************)
(* Proofs about the module Incremental, second part: where no two sources  *)
(* declare the same type, every source that depends on one that changed is *)
(* compiled again in the next pass.  The first part, in IncrementalProofs, *)
(* is about the types; this one relates the files that a source was        *)
(* compiled from to the dependences between types that lead there, and the *)
(* times that are compared to what was written since.                      *)
(***************************************************************************)
\* No two sources declare the same type.
OneDeclaration ==
    \A m, n \in Names : m # n =>
        \A a \in Texts[m], b \in Texts[n] : Declared(a) \cap Declared(b) = {}

\* A source that was written since it was last scanned is newer than its stamp.
Times ==
    /\ \A n \in Names : mtime[n] = 0 <=> source[n] = NoText
    /\ \A n \in edited : source[n] # NoText => mtime[n] > stamp[n] /\ mtime[n] > 1
    /\ \A n \in Names : kind[n] = "none" /\ Texts[n] # {} => classTime[n] <= 1
    /\ phase = "rounds" /\ Candidates # {} => \A n \in edited : mtime[n] > entry[n]

\* The candidates are known for what they are.
Kinds ==
    /\ \A f \in javaSet \cup toRead : kind[f] = "java"
    /\ \A f \in classSet : kind[f] # "none" /\ f \in types /\ fileOf[f] = f
    /\ \A n \in Names : lex[n] # NoText => kind[n] = "java"
    /\ \A f, n \in Names : n \in fileTypes[f] => n = f \/ Texts[n] = {}

\* The files looked at are compiled again if they are there.
Chosen ==
    Choosing => /\ Candidates = {} => fresh = {} /\ trash = {}
                /\ \A f \in recompilation \ fresh : kind[f] = "java"
                /\ \A f \in recompilation : entry[f] # 0
                /\ \A f \in expired : entry[f] = 0
                /\ \A f \in seen : entry[f] # 0 => f \in recompilation
                /\ seen \cap javaSet \subseteq recompilation \cup expired

\* A type is listed by its own file.
OwnFile ==
    /\ \A n \in types \ pending : fileOf[n] # NoName =>
          fileOf[n] \in Candidates /\ (n \in fileTypes[fileOf[n]] \/ n \in trash)
    /\ \A asked \in lookups : fileOf[asked.type] = asked.file

\* A dependence leads from a type of g to one of f.
Leads(f, g) == \E n \in types \ pending : fileOf[n] = g /\ \E t \in dependents[n] : fileOf[t] = f

\* What a file was compiled from is recorded between types.
FirmRecorded == \A f \in Candidates : \A g \in firm[f] : Leads(f, g)

\* What is out of date leads to a file that was looked at, and will be read.
OwedFound ==
    /\ Choosing => \A f \in owed : /\ f \in javaSet /\ entry[f] # 0
                                   /\ Reached(firm, {f}) \cap seen # {}
    /\ phase = "compile" => owed \subseteq toRead \ javaSet
    /\ phase = "prompt" => owed = {}

FilesInv == Times /\ Kinds /\ Chosen /\ OwnFile /\ FirmRecorded /\ OwedFound

-----------------------------------------------------------------------------
(* The first pass, and what the user does.                                  *)

LEMMA InitFiles == Init => FilesInv
<1> SUFFICES ASSUME Init PROVE FilesInv
  OBVIOUS
<1>1. /\ mtime = [n \in Names |-> IF source[n] = NoText THEN 0 ELSE 1]
      /\ \E C : classTime = [n \in Names |-> IF n \in C THEN 1 ELSE 0]
  BY DEF Init
<1>2. /\ edited = {} /\ phase = "compile" /\ javaSet = {} /\ classSet = {} /\ toRead = Inputs
      /\ types = {} /\ lookups = {} /\ owed = {} /\ fileTypes = None
      /\ lex = [n \in Names |-> NoText]
      /\ kind = [n \in Names |-> IF n \in Inputs THEN "java" ELSE "none"]
  BY DEF Init
<1>3. Times
  <2>1. ASSUME NEW n \in Names
        PROVE  mtime[n] = 0 <=> source[n] = NoText
    <3>1. mtime[n] = IF source[n] = NoText THEN 0 ELSE 1
      BY <1>1
    <3> QED
      BY <3>1
  <2>2. ASSUME NEW n \in Names
        PROVE  classTime[n] <= 1
    <3>1. classTime[n] \in {0, 1}
      BY <1>1
    <3> QED
      BY <3>1
  <2> QED
    BY <1>2, <2>1, <2>2 DEF Times
<1>4. Kinds
  BY <1>2, IncrementalAssumption DEF Kinds, None
<1>5. Chosen /\ OwnFile /\ FirmRecorded /\ OwedFound
  BY <1>2 DEF Chosen, OwnFile, FirmRecorded, OwedFound, Choosing, Candidates
<1> QED
  BY <1>3, <1>4, <1>5 DEF FilesInv

LEMMA UserFiles ==
    ASSUME TypeOK, FilesInv, Save \/ Create \/ Delete
    PROVE  FilesInv'
<1>1. PICK n \in Names :
          \E text \in Texts[n] \cup {NoText} :
              Write(n, text) /\ (text = NoText => phase = "prompt")
  BY IncrementalAssumption DEF Save, Create, Delete
<1>2. PICK text \in Texts[n] \cup {NoText} : Write(n, text) /\ (text = NoText => phase = "prompt")
  BY <1>1
<1>3. /\ source' = [source EXCEPT ![n] = text]
      /\ mtime' = [mtime EXCEPT ![n] = IF text = NoText THEN 0 ELSE clock + 1]
      /\ edited' = edited \cup {n}
  BY <1>2 DEF Write
<1>4. UNCHANGED <<classTime, entry, kind, stamp, lex, fileTypes, types, fileOf, pending, dependents,
                  javaSet, classSet, recompilation, expired, fresh, seen, trash, phase, toRead,
                  lookups, firm, owed>>
  BY <1>2 DEF Write, listing, files, symbols, edges, control, rounds, pass
<1>5. /\ mtime \in [Names -> 0 .. clock] /\ stamp \in [Names -> 0 .. clock]
      /\ entry \in [Names -> 0 .. clock] /\ clock \in Nat /\ clock >= 1 /\ edited \subseteq Names
      /\ DOMAIN source = Names
  BY IncrementalAssumption DEF TypeOK
<1>6. /\ \A m \in Names \ {n} : mtime'[m] = mtime[m] /\ source'[m] = source[m]
      /\ source'[n] = text /\ mtime'[n] = IF text = NoText THEN 0 ELSE clock + 1
  BY <1>3, <1>5
<1>7. stamp[n] <= clock /\ entry[n] <= clock
  BY <1>5
<1>8. Times'
  <2>1. \A m \in Names : mtime'[m] = 0 <=> source'[m] = NoText
    BY <1>5, <1>6 DEF FilesInv, Times
  <2>2. \A m \in edited' : source'[m] # NoText => mtime'[m] > stamp'[m] /\ mtime'[m] > 1
    BY <1>3, <1>4, <1>5, <1>6, <1>7 DEF FilesInv, Times
  <2>3. phase' = "rounds" /\ Candidates' # {} => \A m \in edited' : mtime'[m] > entry'[m]
    BY <1>2, <1>3, <1>4, <1>5, <1>6, <1>7 DEF FilesInv, Times, Candidates
  <2> QED
    BY <1>4, <2>1, <2>2, <2>3 DEF FilesInv, Times
<1>9. Kinds' /\ Chosen' /\ OwnFile' /\ FirmRecorded' /\ OwedFound'
  BY <1>4 DEF FilesInv, Kinds, Chosen, OwnFile, FirmRecorded, Leads, OwedFound, Choosing, Candidates,
              Reached, Closed
<1> QED
  BY <1>8, <1>9 DEF FilesInv

-----------------------------------------------------------------------------
(* Reading a file.                                                          *)

\* What leads somewhere still does when types are added and others no longer wait.
LEMMA LeadsOn ==
    ASSUME TypeOK, EdgesAreLive, NEW f \in Names, NEW g \in Names, Leads(f, g),
           types \ pending \subseteq types' \ pending', UNCHANGED dependents,
           \A t \in types : fileOf'[t] = fileOf[t]
    PROVE  Leads(f, g)'
<1>1. PICK n \in types \ pending : fileOf[n] = g /\ \E t \in dependents[n] : fileOf[t] = f
  BY DEF Leads
<1>2. PICK t \in dependents[n] : fileOf[t] = f
  BY <1>1
<1>3. n \in types' \ pending' /\ n \in Names /\ t \in Names
  BY <1>1, <1>2 DEF TypeOK
<1>4. t \in types /\ n \in types
  BY <1>1, <1>2, <1>3 DEF EdgesAreLive
<1>5. fileOf'[n] = g /\ t \in dependents'[n] /\ fileOf'[t] = f
  BY <1>1, <1>2, <1>4
<1> QED
  BY <1>3, <1>5 DEF Leads

\* No other file has a type that is declared in a text of f.
LEMMA OwnerIsReader ==
    ASSUME OneDeclaration, TypeOK, Waiting, phase = "compile", NEW f \in Names, NEW text \in Texts[f],
           NEW t \in pending, t \in Declared(text)
    PROVE  fileOf[t] = f
<1>1. /\ fileOf[t] \in Names /\ t \in Declared(lex[fileOf[t]])
      /\ lex[fileOf[t]] \in Texts[fileOf[t]] \cup {NoText}
  BY DEF Waiting, TypeOK
<1>2. lex[fileOf[t]] \in Texts[fileOf[t]]
  BY <1>1 DEF Declared
<1> QED
  BY <1>1, <1>2 DEF OneDeclaration

LEMMA ReadFiles ==
    ASSUME OneDeclaration, TypesInv, FilesInv, phase = "compile", NEW f \in Names, Read(f), SameBeside,
           toRead' \in {toRead, toRead \ {f}}, kind[f] \in {"none", "java"},
           kind' = [kind EXCEPT ![f] = "java"],
           \/ UNCHANGED stamp
           \/ kind[f] = "none" /\ stamp' = [stamp EXCEPT ![f] = mtime[f]]
    PROVE  FilesInv'
<1>1. TypeOK /\ EdgesAreLive /\ Waiting /\ LookupsKnown
  BY DEF TypesInv
<1>2. Times /\ Kinds /\ OwnFile /\ FirmRecorded /\ OwedFound
  BY DEF FilesInv
<1>3. /\ read' = read \cup {f} /\ javaSet' = javaSet \cup {f} /\ owed' = owed \ {f}
      /\ edited' \subseteq edited
      /\ f \in edited' => lex[f] # NoText \/ source[f] = NoText
      /\ firm' = [firm EXCEPT ![f] = {}] /\ lex' = [lex EXCEPT ![f] = NoText]
      /\ Rejected(f) \/ \E new, mine \in SUBSET Names : Accepted(f, new, mine)
  BY <1>1, ReadEffect
<1>4. UNCHANGED <<source, mtime, classTime, entry, dependents, classSet, trash>>
  BY DEF SameBeside, disk, listing, edges, rounds
<1>5. phase' \in {"compile", "asserted"} /\ Candidates' = Candidates \cup {f}
  BY <1>3, <1>4 DEF Rejected, Accepted, Candidates
<1>6. /\ kind \in [Names -> {"none", "java", "class"}] /\ stamp \in [Names -> 0 .. clock]
      /\ lex \in [Names -> (UNION {Texts[n] : n \in Names}) \cup {NoText}]
      /\ firm \in [Names -> SUBSET Names] /\ fileTypes \in [Names -> SUBSET Names]
      /\ types \subseteq Names /\ pending \subseteq types /\ fileOf \in [Names -> Names \cup {NoName}]
      /\ edited \subseteq Names
  BY <1>1 DEF TypeOK
<1>7. Times'
  <2>1. ASSUME NEW n \in edited', source'[n] # NoText
        PROVE  mtime'[n] > stamp'[n] /\ mtime'[n] > 1
    <3>1. n \in edited /\ n \in Names /\ mtime[n] > stamp[n] /\ mtime[n] > 1
      BY <1>2, <1>3, <1>4, <1>6, <2>1 DEF Times
    <3>2. n = f => kind[f] = "java"
      BY <1>2, <1>3, <1>4, <2>1 DEF Kinds
    <3>3. stamp'[n] = stamp[n]
      BY <1>6, <3>1, <3>2
    <3> QED
      BY <1>4, <3>1, <3>3
  <2>2. \A n \in Names : kind'[n] = "none" => kind[n] = "none"
    BY <1>6
  <2> QED
    BY <1>2, <1>4, <1>5, <2>1, <2>2 DEF Times
<1>8. Chosen'
  BY <1>5 DEF Chosen, Choosing
<1>9. \A n \in Names : kind[n] = "java" => kind'[n] = "java"
  BY <1>6
<1>10. /\ \A g \in javaSet' \cup toRead' : kind'[g] = "java"
       /\ \A n \in Names : lex'[n] # NoText => kind'[n] = "java"
       /\ \A g \in classSet : kind'[g] # "none"
  <2>1. javaSet \cup toRead \cup classSet \subseteq Names
    BY <1>1 DEF TypeOK
  <2> QED
    BY <1>2, <1>3, <1>6, <1>9, <2>1 DEF Kinds
<1>11. OwedFound'
  <2>1. owed \subseteq toRead \ javaSet
    BY <1>2 DEF OwedFound
  <2> QED
    BY <1>3, <1>5, <2>1 DEF OwedFound, Choosing
<1>12. CASE Rejected(f)
  <2>1. UNCHANGED <<types, fileOf, pending, fileTypes, lookups>>
    BY <1>12 DEF Rejected
  <2>2. Kinds'
    BY <1>2, <1>4, <1>10, <2>1 DEF Kinds
  <2>3. OwnFile'
    BY <1>2, <1>4, <1>5, <2>1 DEF OwnFile
  <2>4. FirmRecorded'
    BY <1>2, <1>3, <1>4, <1>5, <1>6, <2>1 DEF FirmRecorded, Leads
  <2> QED
    BY <1>7, <1>8, <1>11, <2>2, <2>3, <2>4 DEF FilesInv
<1>13. ASSUME NEW new \in SUBSET Names, NEW mine \in SUBSET Names, Accepted(f, new, mine)
       PROVE  FilesInv'
  <2>1. /\ new \cap types = {} /\ new \subseteq mine /\ mine \subseteq types \cup new
        /\ types' = types \cup new /\ pending' = pending \ mine
        /\ fileOf' = [t \in Names |-> IF t \in new THEN f ELSE fileOf[t]]
        /\ fileTypes' = [fileTypes EXCEPT ![f] = @ \cup mine]
    BY <1>13 DEF Accepted
  <2>2. PICK text \in Texts[f] : mine \subseteq Declared(text)
    BY <1>13 DEF Accepted
  <2>3. \A asked \in lookups' : asked \in lookups \/
            (asked \in [file : {f}, type : mine \cap (pending \cup new), name : Names])
    BY <1>13 DEF Accepted
  <2>4. \A t \in types : fileOf'[t] = fileOf[t]
    BY <1>6, <2>1
  <2>5. \A t \in mine \cap (pending \cup new) : fileOf'[t] = f
    <3>1. \A t \in mine \cap pending : fileOf[t] = f
      BY <1>1, <2>2, OwnerIsReader
    <3> QED
      BY <1>6, <2>1, <2>4, <3>1
  <2>6. \A g \in Names : fileTypes[g] \subseteq fileTypes'[g]
    BY <1>6, <2>1
  <2>7. Kinds'
    <3>1. \A g, n \in Names : n \in fileTypes'[g] => n = g \/ Texts[n] = {}
      <4>1. \A n \in mine : n = f \/ Texts[n] = {}
        BY <2>2, TextFacts
      <4> QED
        BY <1>2, <1>6, <2>1, <4>1 DEF Kinds
    <3>2. \A g \in classSet : g \in types' /\ fileOf'[g] = g
      BY <1>2, <2>1, <2>4 DEF Kinds
    <3> QED
      BY <1>4, <1>10, <3>1, <3>2 DEF Kinds
  <2>8. OwnFile'
    <3>1. ASSUME NEW n \in types' \ pending', fileOf'[n] # NoName
          PROVE  fileOf'[n] \in Candidates' /\ (n \in fileTypes'[fileOf'[n]] \/ n \in trash')
      <4>1. CASE n \in types \ pending
        <5>1. fileOf'[n] = fileOf[n] /\ fileOf[n] \in Names
          BY <1>6, <2>4, <3>1, <4>1
        <5> QED
          BY <1>2, <1>4, <1>5, <2>6, <3>1, <4>1, <5>1 DEF OwnFile
      <4>2. CASE n \notin types \ pending
        <5>1. n \in mine \cap (pending \cup new)
          BY <2>1, <4>2
        <5>2. fileOf'[n] = f
          BY <2>5, <5>1
        <5> QED
          BY <1>5, <1>6, <2>1, <5>1, <5>2
      <4> QED
        BY <4>1, <4>2
    <3>2. ASSUME NEW asked \in lookups'
          PROVE  fileOf'[asked.type] = asked.file
      <4>1. CASE asked \in lookups
        BY <1>1, <1>2, <2>4, <4>1 DEF OwnFile, LookupsKnown
      <4>2. CASE asked \in [file : {f}, type : mine \cap (pending \cup new), name : Names]
        BY <2>5, <4>2
      <4> QED
        BY <2>3, <4>1, <4>2
    <3> QED
      BY <3>1, <3>2 DEF OwnFile
  <2>9. FirmRecorded'
    <3> SUFFICES ASSUME NEW h \in Candidates', NEW g \in firm'[h]
                 PROVE  Leads(h, g)'
      BY DEF FirmRecorded
    <3>1. h \in Candidates /\ h \in Names /\ g \in firm[h] /\ g \in Names
      <4>1. Candidates \subseteq Names
        BY <1>1 DEF Candidates, TypeOK
      <4> QED
        BY <1>3, <1>5, <1>6, <4>1
    <3>2. Leads(h, g)
      BY <1>2, <3>1 DEF FirmRecorded
    <3>3. types \ pending \subseteq types' \ pending'
      BY <2>1
    <3> QED
      BY <1>1, <1>4, <2>4, <3>1, <3>2, <3>3, LeadsOn
  <2> QED
    BY <1>7, <1>8, <1>11, <2>7, <2>8, <2>9 DEF FilesInv
<1> QED
  BY <1>3, <1>12, <1>13

LEMMA MissingFiles ==
    ASSUME TypesInv, FilesInv, phase = "compile", NEW n \in Names, n \notin types, Missing(n),
           UNCHANGED <<disk, listing, edges, recompilation, expired, rounds, toRead>>
    PROVE  FilesInv'
<1>1. TypeOK /\ EdgesAreLive /\ LookupsKnown /\ InReach
  BY DEF TypesInv
<1>2. Times /\ Kinds /\ OwnFile /\ FirmRecorded /\ OwedFound
  BY DEF FilesInv
<1> DEFINE file == IF FileKind(n) = "none" THEN NoName ELSE n
<1>3. /\ types' = types \cup {n} /\ fileOf' = [fileOf EXCEPT ![n] = file] /\ pending' = pending
      /\ fileTypes' = [g \in Names |-> IF g = file THEN fileTypes[g] \cup {n} ELSE fileTypes[g]]
      /\ (file = NoName \/ (file = n /\ n \in read))
  BY IncrementalAssumption DEF Missing, InsertType
<1>4. UNCHANGED <<source, mtime, classTime, entry, dependents, trash, toRead, kind, stamp, lex,
                  javaSet, classSet, lookups, phase, edited, firm, owed>>
  BY DEF Missing, disk, listing, edges, rounds, history
<1> HIDE DEF file
<1>5. /\ types \subseteq Names /\ pending \subseteq types /\ fileTypes \in [Names -> SUBSET Names]
      /\ fileOf \in [Names -> Names \cup {NoName}] /\ read \subseteq javaSet
      /\ firm \in [Names -> SUBSET Names] /\ Candidates \subseteq Names
  BY <1>1 DEF TypeOK, InReach, Candidates
<1>6. \A t \in types : fileOf'[t] = fileOf[t]
  BY <1>3, <1>5
<1>7. Candidates' = Candidates
  BY <1>4 DEF Candidates
<1>8. Times' /\ Chosen' /\ OwedFound'
  BY <1>2, <1>4, <1>7 DEF Times, Chosen, OwedFound, Choosing
<1>9. Kinds'
  <2>1. \A f, m \in Names : m \in fileTypes'[f] => m \in fileTypes[f] \/ (m = n /\ f = n)
    BY <1>3, <1>5, IncrementalAssumption
  <2>2. \A f \in classSet : f \in types' /\ fileOf'[f] = f
    BY <1>2, <1>3, <1>6 DEF Kinds
  <2> QED
    BY <1>2, <1>4, <2>1, <2>2 DEF Kinds
<1>10. OwnFile'
  <2>1. ASSUME NEW m \in types' \ pending', fileOf'[m] # NoName
        PROVE  fileOf'[m] \in Candidates' /\ (m \in fileTypes'[fileOf'[m]] \/ m \in trash')
    <3>1. CASE m = n
      <4>1. fileOf'[n] = n /\ n \in Candidates /\ file = n
        BY <1>3, <1>5, <2>1, <3>1 DEF Candidates
      <4> QED
        BY <1>3, <1>7, <3>1, <4>1
    <3>2. CASE m # n
      <4>1. m \in types \ pending /\ fileOf'[m] = fileOf[m] /\ fileOf[m] \in Names
        BY <1>3, <1>5, <1>6, <2>1, <3>2
      <4>2. fileTypes[fileOf[m]] \subseteq fileTypes'[fileOf[m]]
        BY <1>3, <1>5, <4>1
      <4> QED
        BY <1>2, <1>4, <1>7, <2>1, <4>1, <4>2 DEF OwnFile
    <3> QED
      BY <3>1, <3>2
  <2> QED
    BY <1>1, <1>2, <1>4, <1>6, <2>1 DEF OwnFile, LookupsKnown
<1>11. FirmRecorded'
  <2> SUFFICES ASSUME NEW h \in Candidates, NEW g \in firm[h]
               PROVE  Leads(h, g)'
    BY <1>4, <1>7 DEF FirmRecorded
  <2>1. Leads(h, g) /\ h \in Names /\ g \in Names
    BY <1>2, <1>5 DEF FirmRecorded
  <2>2. types \ pending \subseteq types' \ pending'
    BY <1>3, <1>5
  <2> QED
    BY <1>1, <1>4, <1>6, <2>1, <2>2, LeadsOn
<1> QED
  BY <1>8, <1>9, <1>10, <1>11 DEF FilesInv

LEMMA ReadClassFiles ==
    ASSUME TypesInv, FilesInv, phase = "compile", NEW n \in Names, n \notin types, ReadClassFile(n),
           UNCHANGED <<disk, listing, edges, recompilation, expired, rounds, toRead>>
    PROVE  FilesInv'
<1>1. TypeOK /\ EdgesAreLive /\ LookupsKnown
  BY DEF TypesInv
<1>2. Times /\ Kinds /\ OwnFile /\ FirmRecorded /\ OwedFound
  BY DEF FilesInv
<1>3. /\ types' = types \cup {n} /\ fileOf' = [fileOf EXCEPT ![n] = n] /\ pending' = pending
      /\ fileTypes' = [fileTypes EXCEPT ![n] = @ \cup {n}]
      /\ classSet' = classSet \cup {n} /\ lookups' = lookups \cup Lookups(n, n, classUses[n])
      /\ firm' = [firm EXCEPT ![n] = {}] /\ InsertFileSymbol(n) /\ FileKind(n) = "class"
  BY DEF ReadClassFile, InsertType
<1>4. UNCHANGED <<source, mtime, classTime, entry, dependents, trash, toRead, lex, javaSet, phase,
                  edited, owed>>
  BY DEF ReadClassFile, disk, listing, edges, rounds
<1>5. /\ kind' = [kind EXCEPT ![n] = "class"] /\ \A m \in Names \ {n} : stamp'[m] = stamp[m]
      /\ stamp'[n] = IF kind[n] # "none" THEN stamp[n] ELSE classTime[n]
      /\ kind[n] \in {"none", "class"}
  BY <1>1, <1>3, FileKindFacts DEF FileKind, TypeOK
<1>6. /\ types \subseteq Names /\ pending \subseteq types /\ fileTypes \in [Names -> SUBSET Names]
      /\ fileOf \in [Names -> Names \cup {NoName}] /\ kind \in [Names -> {"none", "java", "class"}]
      /\ firm \in [Names -> SUBSET Names] /\ Candidates \subseteq Names
      /\ javaSet \cup toRead \cup classSet \subseteq Names /\ edited \subseteq Names
      /\ classTime \in [Names -> 0 .. clock] /\ mtime \in [Names -> 0 .. clock]
      /\ classUses \in [Names -> SUBSET Names]
  BY <1>1 DEF TypeOK, Candidates
<1>7. \A t \in types : fileOf'[t] = fileOf[t]
  BY <1>3, <1>6
<1>8. Candidates' = Candidates \cup {n} /\ fileOf'[n] = n /\ n \in fileTypes'[n]
  BY <1>3, <1>4, <1>6 DEF Candidates
<1>9. Times'
  <2>1. ASSUME NEW m \in edited, source[m] # NoText
        PROVE  mtime[m] > stamp'[m] /\ mtime[m] > 1
    <3>1. m \in Names /\ mtime[m] > stamp[m] /\ mtime[m] > 1
      BY <1>2, <1>6, <2>1 DEF Times
    <3>2. CASE stamp'[m] = stamp[m]
      BY <3>1, <3>2
    <3>3. CASE m = n /\ kind[n] = "none" /\ stamp'[n] = classTime[n]
      <4>1. Texts[m] # {}
        BY <1>1, <2>1, <3>1 DEF TypeOK
      <4>2. classTime[m] <= 1
        BY <1>2, <3>1, <3>3, <4>1 DEF Times
      <4>3. classTime[m] \in Nat /\ mtime[m] \in Nat
        BY <1>1, <1>6, <3>1, IncrementalAssumption DEF TypeOK
      <4> QED
        BY <3>1, <3>3, <4>2, <4>3
    <3> QED
      BY <1>5, <3>1, <3>2, <3>3
  <2>2. \A m \in Names : kind'[m] = "none" => kind[m] = "none"
    BY <1>5, <1>6
  <2>3. phase' = "compile"
    BY <1>4
  <2> QED
    BY <1>2, <1>4, <2>1, <2>2, <2>3 DEF Times
<1>10. Chosen' /\ OwedFound'
  BY <1>2, <1>4 DEF Chosen, OwedFound, Choosing
<1>11. Kinds'
  <2>1. \A f \in javaSet \cup toRead : kind'[f] = "java"
    BY <1>2, <1>5, <1>6 DEF Kinds
  <2>2. \A m \in Names : lex[m] # NoText => kind'[m] = "java"
    BY <1>2, <1>5, <1>6 DEF Kinds
  <2>3. \A f \in classSet' : kind'[f] # "none" /\ f \in types' /\ fileOf'[f] = f
    BY <1>2, <1>3, <1>5, <1>6, <1>7, <1>8 DEF Kinds
  <2>4. \A f, m \in Names : m \in fileTypes'[f] => m = f \/ Texts[m] = {}
    BY <1>2, <1>3, <1>6 DEF Kinds
  <2> QED
    BY <1>4, <2>1, <2>2, <2>3, <2>4 DEF Kinds
<1>12. OwnFile'
  <2>1. ASSUME NEW m \in types' \ pending', fileOf'[m] # NoName
        PROVE  fileOf'[m] \in Candidates' /\ (m \in fileTypes'[fileOf'[m]] \/ m \in trash')
    <3>1. CASE m = n
      BY <1>8, <3>1
    <3>2. CASE m # n
      <4>1. m \in types \ pending /\ fileOf'[m] = fileOf[m] /\ fileOf[m] \in Names
        BY <1>3, <1>6, <1>7, <2>1, <3>2
      <4>2. fileTypes[fileOf[m]] \subseteq fileTypes'[fileOf[m]]
        BY <1>3, <1>6, <4>1
      <4> QED
        BY <1>2, <1>4, <1>8, <2>1, <4>1, <4>2 DEF OwnFile
    <3> QED
      BY <3>1, <3>2
  <2>2. ASSUME NEW asked \in lookups'
        PROVE  fileOf'[asked.type] = asked.file
    <3>1. CASE asked \in lookups
      BY <1>1, <1>2, <1>7, <3>1 DEF OwnFile, LookupsKnown
    <3>2. CASE asked \in Lookups(n, n, classUses[n])
      BY <1>8, <3>2 DEF Lookups
    <3> QED
      BY <1>3, <3>1, <3>2
  <2> QED
    BY <2>1, <2>2 DEF OwnFile
<1>13. FirmRecorded'
  <2> SUFFICES ASSUME NEW h \in Candidates', NEW g \in firm'[h]
               PROVE  Leads(h, g)'
    BY DEF FirmRecorded
  <2>1. h \in Candidates /\ h \in Names /\ g \in firm[h] /\ g \in Names
    BY <1>3, <1>6, <1>8
  <2>2. Leads(h, g)
    BY <1>2, <2>1 DEF FirmRecorded
  <2>3. types \ pending \subseteq types' \ pending'
    BY <1>3, <1>6
  <2> QED
    BY <1>1, <1>4, <1>7, <2>1, <2>2, <2>3, LeadsOn
<1> QED
  BY <1>9, <1>10, <1>11, <1>12, <1>13 DEF FilesInv

-----------------------------------------------------------------------------
(* Dependences, and the end of the pass.                                    *)

LEMMA DependenceFiles ==
    ASSUME TypesInv, FilesInv, AddDependence
    PROVE  FilesInv'
<1>1. TypeOK /\ EdgesAreLive /\ Waiting /\ LookupsKnown /\ InReach
  BY DEF TypesInv
<1>2. Times /\ Kinds /\ OwnFile /\ FirmRecorded /\ OwedFound
  BY DEF FilesInv
<1>3. phase = "compile"
      /\ UNCHANGED <<source, mtime, classTime, entry, kind, stamp, lex, fileTypes, types, fileOf,
                     pending, javaSet, classSet, trash, phase, toRead, edited, owed>>
  BY DEF AddDependence, disk, listing, files, symbols, control, rounds
<1>4. PICK asked \in lookups :
        LET f    == asked.file
            t    == asked.type
            n    == asked.name
            good == t \notin bad /\ n \notin bad
        IN  /\ n \in types
            /\ n \notin pending \/ fileOf[n] \in read
            /\ dependents' = IF good THEN [dependents EXCEPT ![n] = @ \cup {t}] ELSE dependents
            /\ parents' = IF good THEN [parents EXCEPT ![t] = @ \cup {n}] ELSE parents
            /\ firm' = IF good THEN [firm EXCEPT ![f] = @ \cup {fileOf[n]}] ELSE firm
            /\ errors' = IF n \in bad THEN errors \cup {f} ELSE errors
            /\ lookups' = lookups \ {asked}
  BY DEF AddDependence
<1> DEFINE f == asked.file
           t == asked.type
           n == asked.name
<1>5. /\ f \in Names /\ t \in types /\ n \in types /\ fileOf[t] = f /\ lookups' \subseteq lookups
      /\ n \notin pending
  BY <1>1, <1>2, <1>3, <1>4 DEF LookupsKnown, OwnFile, TypeOK, Waiting, InReach
<1>6. \/ dependents' = dependents /\ firm' = firm
      \/ /\ dependents' = [dependents EXCEPT ![n] = @ \cup {t}]
         /\ firm' = [firm EXCEPT ![f] = @ \cup {fileOf[n]}]
  BY <1>4
<1> HIDE DEF f, t, n
<1>7. /\ dependents \in [Names -> SUBSET Names] /\ firm \in [Names -> SUBSET Names]
      /\ types \subseteq Names /\ Candidates \subseteq Names
  BY <1>1 DEF TypeOK, Candidates
<1>8. Candidates' = Candidates
  BY <1>3 DEF Candidates
<1>9. Times' /\ Kinds' /\ Chosen' /\ OwnFile' /\ OwedFound'
  BY <1>2, <1>3, <1>5, <1>8 DEF Times, Kinds, Chosen, OwnFile, OwedFound, Choosing
<1>10. \A m \in Names : dependents[m] \subseteq dependents'[m]
  BY <1>6, <1>7
<1>11. FirmRecorded'
  <2> SUFFICES ASSUME NEW h \in Candidates, NEW g \in firm'[h]
               PROVE  \E m \in types \ pending : fileOf[m] = g /\ \E u \in dependents'[m] : fileOf[u] = h
    BY <1>3, <1>8 DEF FirmRecorded, Leads
  <2>1. CASE g \in firm[h]
    <3>1. PICK m \in types \ pending : fileOf[m] = g /\ \E u \in dependents[m] : fileOf[u] = h
      BY <1>2, <2>1 DEF FirmRecorded, Leads
    <3>2. dependents[m] \subseteq dependents'[m]
      BY <1>7, <1>10
    <3> QED
      BY <3>1, <3>2
  <2>2. CASE g \notin firm[h]
    <3>1. h = f /\ g = fileOf[n] /\ t \in dependents'[n]
      BY <1>5, <1>6, <1>7, <2>2
    <3> QED
      BY <1>5, <3>1
  <2> QED
    BY <2>1, <2>2
<1> QED
  BY <1>9, <1>11 DEF FilesInv

LEMMA FinishFiles ==
    ASSUME TypesInv, FilesInv, FinishPass
    PROVE  FilesInv'
<1>1. TypeOK /\ InReach
  BY DEF TypesInv
<1>2. Times /\ Kinds /\ OwnFile /\ FirmRecorded /\ OwedFound
  BY DEF FilesInv
<1>3. /\ phase = "compile" /\ toRead = {} /\ phase' = "prompt"
      /\ UNCHANGED <<source, mtime, entry, kind, stamp, lex, fileTypes, types, fileOf, pending,
                     dependents, javaSet, classSet, trash, toRead, lookups, edited, firm, owed>>
  BY DEF FinishPass, listing, files, symbols, edges, control, rounds, history
<1> DEFINE emitted == (types \ bad) \cap UNION {fileTypes[f] : f \in read \ errors}
<1>4. classTime' = [n \in Names |-> IF n \in emitted THEN clock ELSE classTime[n]]
  BY DEF FinishPass
<1>5. ASSUME NEW n \in Names, kind[n] = "none", Texts[n] # {}
      PROVE  classTime'[n] <= 1
  <2>1. n \notin emitted
    <3> SUFFICES ASSUME NEW f \in read, n \in fileTypes[f] PROVE FALSE
      OBVIOUS
    <3>1. f \in Names /\ f \in javaSet
      BY <1>1 DEF TypeOK, InReach
    <3> QED
      BY <1>2, <1>5, <3>1 DEF Kinds
  <2>2. classTime[n] <= 1
    BY <1>2, <1>5 DEF Times
  <2> QED
    BY <1>4, <2>1, <2>2
<1>6. Times'
  BY <1>2, <1>3, <1>5 DEF Times
<1>7. Kinds' /\ Chosen' /\ OwnFile' /\ FirmRecorded' /\ OwedFound'
  BY <1>2, <1>3 DEF Kinds, Chosen, OwnFile, FirmRecorded, Leads, OwedFound, Choosing, Candidates
<1> QED
  BY <1>6, <1>7 DEF FilesInv

-----------------------------------------------------------------------------
(* What is to be compiled again.                                            *)

\* The candidates were compiled from candidates.
LEMMA FirmCandidates ==
    ASSUME TypesInv, FilesInv
    PROVE  \A f \in Candidates : firm[f] \subseteq Candidates
<1> SUFFICES ASSUME NEW f \in Candidates, NEW g \in firm[f] PROVE g \in Candidates
  OBVIOUS
<1>1. PICK n \in types \ pending : fileOf[n] = g
  BY DEF FilesInv, FirmRecorded, Leads
<1>2. g # NoName
  BY IncrementalAssumption DEF TypesInv, TypeOK, Candidates
<1> QED
  BY <1>1, <1>2 DEF FilesInv, OwnFile

LEMMA EnterFiles ==
    ASSUME TypesInv, FilesInv, Enter
    PROVE  FilesInv'
<1>1. TypeOK /\ Idle
  BY DEF TypesInv
<1>2. Times /\ Kinds /\ OwnFile /\ FirmRecorded
  BY DEF FilesInv
<1>3. /\ phase = "prompt" /\ phase' \in {"rounds", "freed"}
      /\ Candidates # {} => entry' = mtime
      /\ recompilation' = Newer(Candidates, mtime, stamp) /\ expired' = Vanished(Candidates, mtime)
      /\ fresh' = recompilation' \cup expired' /\ seen' = fresh'
      /\ trash' = IF Candidates = {} THEN {} ELSE Closure(trashBin)
      /\ edited' = {} /\ owed' = OutOfDate(firm, Modified \cup Removed, mtime)
  BY DEF Enter, Candidates
<1>4. UNCHANGED <<source, mtime, classTime, kind, lex, fileTypes, types, fileOf, pending, dependents,
                  javaSet, classSet, toRead, lookups, firm>>
  BY DEF Enter, disk, symbols, edges, pass
<1>5. /\ recompilation' = {f \in Candidates : mtime[f] > stamp[f]}
      /\ expired' = {f \in Candidates : mtime[f] = 0 /\ kind[f] = "java"}
  BY <1>3 DEF Newer, Vanished
<1>6. /\ Candidates \subseteq Names /\ trash = {} /\ Candidates' = Candidates
      /\ mtime \in [Names -> 0 .. clock] /\ stamp \in [Names -> 0 .. clock] /\ clock \in Nat
      /\ javaSet \subseteq Names /\ firm \in [Names -> SUBSET Names] /\ edited \subseteq Names
  BY <1>1, <1>3, <1>4, IncrementalAssumption DEF TypeOK, Candidates, Idle
<1>7. Times'
  BY <1>2, <1>3, <1>4 DEF Times
<1>8. Kinds'
  BY <1>2, <1>4 DEF Kinds
<1>9. \A f \in recompilation' : mtime[f] # 0 /\ f \in Candidates
  BY <1>5, <1>6
<1>10. Chosen'
  <2>1. Candidates = {} => fresh' = {} /\ trash' = {}
    BY <1>3, <1>5
  <2>2. /\ recompilation' \ fresh' = {} /\ seen' \cap javaSet' \subseteq recompilation' \cup expired'
    BY <1>3
  <2>3. /\ \A f \in recompilation' : entry'[f] # 0
        /\ \A f \in expired' : entry'[f] = 0
    BY <1>3, <1>5, <1>9
  <2>4. \A f \in seen' : entry'[f] # 0 => f \in recompilation'
    BY <1>3, <2>3
  <2> QED
    BY <1>6, <2>1, <2>2, <2>3, <2>4 DEF Chosen
<1>11. OwnFile' /\ FirmRecorded'
  BY <1>2, <1>4, <1>6 DEF OwnFile, FirmRecorded, Leads
<1>12. ASSUME NEW f \in owed'
       PROVE  f \in javaSet /\ entry'[f] # 0 /\ Reached(firm, {f}) \cap seen' # {}
  <2>1. f \in javaSet /\ mtime[f] # 0 /\ Reached(firm, {f}) \cap (Modified \cup Removed) # {}
    BY <1>3 DEF OutOfDate
  <2>2. f \in Candidates /\ entry' = mtime
    BY <1>3, <2>1 DEF Candidates
  <2>3. Reached(firm, {f}) \subseteq Candidates
    BY <1>6, <2>2, FirmCandidates, ReachedFacts
  <2>4. PICK g \in Reached(firm, {f}) : g \in Modified \cup Removed
    BY <2>1
  <2>5. g \in Candidates /\ g \in Names /\ g \in edited
    BY <1>6, <2>3, <2>4 DEF Modified, Removed
  <2>6. CASE g \in Modified
    BY <1>2, <1>3, <1>5, <2>1, <2>2, <2>4, <2>5, <2>6 DEF Modified, Times
  <2>7. CASE g \in Removed
    <3>1. mtime[g] = 0 /\ kind[g] # "class"
      BY <1>2, <2>5, <2>7 DEF Removed, Times
    <3>2. kind[g] = "java"
      BY <1>1, <1>2, <2>5, <3>1 DEF Kinds, Candidates, TypeOK
    <3> QED
      BY <1>3, <1>5, <2>1, <2>2, <2>4, <2>5, <3>1, <3>2
  <2> QED
    BY <2>4, <2>6, <2>7
<1>13. OwedFound'
  BY <1>3, <1>4, <1>12 DEF OwedFound
<1> QED
  BY <1>7, <1>8, <1>10, <1>11, <1>13 DEF FilesInv

LEMMA RoundFiles ==
    ASSUME TypesInv, FilesInv, Round
    PROVE  FilesInv'
<1>1. TypeOK /\ EdgesAreLive /\ Idle /\ TypesListed /\ TrashClosed
  BY DEF TypesInv
<1>2. Times /\ Kinds /\ Chosen /\ OwnFile /\ FirmRecorded /\ OwedFound
  BY DEF FilesInv
<1>3. phase = "rounds"
      /\ UNCHANGED <<source, mtime, classTime, entry, types, fileOf, pending, dependents, javaSet,
                     classSet, toRead, lookups, firm, owed>>
  BY DEF Round, disk, listing, symbols, edges, pass
<1>4. PICK scanned \in SUBSET Names, closure \in SUBSET types, next \in SUBSET Names :
              /\ Turn(scanned, closure, next) /\ next \cap (seen \cup {NoName}) = {}
              /\ scanned \subseteq fresh
              /\ \A f \in fresh : fileTypes[f] \subseteq closure
              /\ trash \subseteq closure
  BY <1>1, RoundTurns
<1>5. /\ scanned = fresh \ expired
      /\ fileTypes' = [n \in Names |-> IF n \in scanned THEN {} ELSE fileTypes[n]]
      /\ kind' = [n \in Names |-> IF n \in scanned THEN "java" ELSE kind[n]]
      /\ lex' = [n \in Names |-> IF n \in scanned THEN source[n] ELSE lex[n]]
      /\ edited' = edited \ scanned
      /\ trash' = closure /\ fresh' = next /\ seen' = seen \cup next
      /\ recompilation' = recompilation \cup {f \in next : entry[f] # 0}
      /\ expired' = expired \cup {f \in next : entry[f] = 0 /\ kind[f] = "java"}
      /\ stamp' = [n \in Names |-> IF n \in next THEN entry[n] ELSE stamp[n]]
      /\ phase' \in {"freed", "trash", "rounds"}
  BY <1>4 DEF Turn, Forced
<1>6. /\ fileTypes \in [Names -> SUBSET Names] /\ fresh \subseteq seen /\ seen \subseteq Names
      /\ types \subseteq Names /\ Candidates \subseteq Names /\ javaSet \subseteq Names
      /\ toRead \subseteq Names /\ edited \subseteq Names /\ recompilation \subseteq Names
      /\ fileOf \in [Names -> Names \cup {NoName}]
  BY <1>1 DEF TypeOK, Candidates
<1>7. Candidates' = Candidates
  BY <1>3 DEF Candidates
<1>8. Candidates = {} => next = {} /\ closure = {}
  <2> SUFFICES ASSUME Candidates = {} PROVE next = {} /\ closure = {}
    OBVIOUS
  <2>1. fresh = {} /\ trash = {}
    BY <1>2, <1>3 DEF Chosen, Choosing
  <2>2. Closure({}) = {}
    <3>1. dependents \in [Names -> SUBSET Names]
      BY <1>1 DEF TypeOK
    <3>2. Reached(dependents, {}) \subseteq {}
      BY <3>1, ReachedFacts
    <3> QED
      BY <3>2 DEF Closure
  <2>3. /\ closure = trash \cup Closure(UNION {fileTypes[f] : f \in fresh})
                           \cup Closure(types \cap UNION {Declared(source[f]) : f \in scanned})
        /\ next = NewFiles(closure)
    BY <1>4 DEF Turn
  <2>4. UNION {fileTypes[f] : f \in fresh} = {}
        /\ types \cap UNION {Declared(source[f]) : f \in scanned} = {}
    BY <1>5, <2>1
  <2>5. closure = {}
    BY <2>1, <2>2, <2>3, <2>4
  <2> QED
    BY <2>3, <2>5 DEF NewFiles
<1>9. Times'
  <2>1. ASSUME NEW n \in edited', source[n] # NoText
        PROVE  mtime[n] > stamp'[n] /\ mtime[n] > 1
    <3>1. n \in edited /\ n \in Names /\ mtime[n] > stamp[n] /\ mtime[n] > 1
      BY <1>2, <1>5, <1>6, <2>1 DEF Times
    <3>2. n \in next => mtime[n] > entry[n]
      BY <1>2, <1>3, <1>8, <3>1 DEF Times
    <3> QED
      BY <1>5, <3>1, <3>2
  <2>2. \A n \in Names : kind'[n] = "none" => kind[n] = "none"
    BY <1>5
  <2>3. edited' \subseteq edited
    BY <1>5
  <2> QED
    BY <1>2, <1>3, <1>7, <2>1, <2>2, <2>3 DEF Times
<1>10. \A n \in Names : kind[n] = "java" => kind'[n] = "java"
  BY <1>5
<1>11. Kinds'
  <2>1. \A f \in javaSet \cup toRead : kind'[f] = "java"
    BY <1>2, <1>6, <1>10 DEF Kinds
  <2>2. \A n \in Names : lex'[n] # NoText => kind'[n] = "java"
    BY <1>2, <1>5, <1>6 DEF Kinds
  <2>3. \A f \in classSet : kind'[f] # "none"
    BY <1>2, <1>5, <1>6 DEF Kinds, Candidates
  <2>4. \A f, n \in Names : n \in fileTypes'[f] => n = f \/ Texts[n] = {}
    BY <1>2, <1>5 DEF Kinds
  <2> QED
    BY <1>2, <1>3, <2>1, <2>2, <2>3, <2>4 DEF Kinds
<1>12. Chosen'
  <2>1. /\ \A f \in recompilation \ fresh : kind[f] = "java"
        /\ \A f \in recompilation : entry[f] # 0
        /\ \A f \in expired : entry[f] = 0
        /\ \A f \in seen : entry[f] # 0 => f \in recompilation
        /\ seen \cap javaSet \subseteq recompilation \cup expired
    BY <1>2, <1>3 DEF Chosen, Choosing
  <2>2. \A f \in recompilation' \ fresh' : kind'[f] = "java"
    <3> SUFFICES ASSUME NEW f \in recompilation PROVE kind'[f] = "java"
      BY <1>5
    <3>1. f \in Names /\ f \notin expired
      BY <1>6, <2>1
    <3> QED
      BY <1>5, <1>10, <2>1, <3>1
  <2>3. /\ \A f \in recompilation' : entry[f] # 0
        /\ \A f \in expired' : entry[f] = 0
        /\ \A f \in seen' : entry[f] # 0 => f \in recompilation'
    BY <1>5, <2>1
  <2>4. seen' \cap javaSet \subseteq recompilation' \cup expired'
    <3>1. \A f \in next \cap javaSet : kind[f] = "java"
      BY <1>2 DEF Kinds
    <3> QED
      BY <1>5, <2>1, <3>1
  <2> QED
    BY <1>3, <1>5, <1>7, <1>8, <2>2, <2>3, <2>4 DEF Chosen
<1>13. OwnFile'
  <2>1. ASSUME NEW n \in types \ pending, fileOf[n] # NoName
        PROVE  fileOf[n] \in Candidates /\ (n \in fileTypes'[fileOf[n]] \/ n \in trash')
    <3>1. fileOf[n] \in Candidates /\ (n \in fileTypes[fileOf[n]] \/ n \in trash)
      BY <1>2, <2>1 DEF OwnFile
    <3> QED
      BY <1>4, <1>5, <1>6, <3>1
  <2> QED
    BY <1>2, <1>3, <1>7, <2>1 DEF OwnFile
<1>14. FirmRecorded'
  BY <1>2, <1>3, <1>7 DEF FirmRecorded, Leads
<1>15. OwedFound'
  <2>1. \A f \in owed : f \in javaSet /\ entry[f] # 0 /\ Reached(firm, {f}) \cap seen # {}
    BY <1>2, <1>3 DEF OwedFound, Choosing
  <2>2. \A f \in owed : Reached(firm, {f}) \cap seen' # {}
    BY <1>5, <2>1
  <2> QED
    BY <1>3, <1>5, <2>1, <2>2 DEF OwedFound
<1> QED
  BY <1>9, <1>11, <1>12, <1>13, <1>14, <1>15 DEF FilesInv

LEMMA RemoveFiles ==
    ASSUME TypesInv, FilesInv, RemoveTrashedTypes
    PROVE  FilesInv'
<1>1. TypeOK /\ EdgesAreLive /\ Idle /\ TrashClosed
  BY DEF TypesInv
<1>2. Times /\ Kinds /\ Chosen /\ OwnFile /\ FirmRecorded /\ OwedFound
  BY DEF FilesInv
<1>3. phase = "trash"
      /\ UNCHANGED <<source, mtime, classTime, classUses, clock, entry, classEntry, kind, stamp,
                     lex, fileTypes, read, lookups, errors, edited, firm, owed>>
  BY <1>1, RemovalTaken
<1>4. PICK left \in SUBSET types, scanned \in SUBSET recompilation, new \in SUBSET Names :
              Removal(left, scanned, new)
  BY <1>1, RemovalTaken
<1>5. /\ left = types \ trash
      /\ new = (UNION {Declared(lex[f]) : f \in scanned}) \ left
      /\ dependents' = [p \in Names |-> IF p \in left THEN WithoutTrash(p) ELSE {}]
      /\ types' = left \cup new /\ pending' = (pending \cap left) \cup new
      /\ classSet' = classSet \ {t \in trash : fileOf[t] = t}
      /\ javaSet' = javaSet \ (recompilation \cup expired)
      /\ toRead' = recompilation /\ fresh' = {} /\ seen' = {} /\ trash' = {} /\ phase' = "compile"
  BY <1>4 DEF Removal
<1>6. PICK owner \in [new -> scanned] :
          fileOf' = [t \in Names |-> IF t \in new THEN owner[t]
                                     ELSE IF t \in left THEN fileOf[t] ELSE NoName]
  BY <1>4 DEF Removal
<1>7. /\ lookups = {} /\ pending = {} /\ fresh = {}
      /\ \A p \in trash : dependents[p] \subseteq trash
      /\ \A f \in seen : fileTypes[f] \subseteq trash
      /\ \A t \in trash : fileOf[t] \in seen \cup {NoName}
  BY <1>1, <1>3 DEF Idle, TrashClosed, Choosing
<1>8. /\ \A f \in recompilation : kind[f] = "java"
      /\ \A f \in seen : entry[f] # 0 => f \in recompilation
      /\ seen \cap javaSet \subseteq recompilation \cup expired
  BY <1>2, <1>3, <1>7 DEF Chosen, Choosing
<1>9. /\ fileTypes \in [Names -> SUBSET Names] /\ fileOf \in [Names -> Names \cup {NoName}]
      /\ types \subseteq Names /\ Candidates \subseteq Names /\ firm \in [Names -> SUBSET Names]
      /\ NoName \notin Names
  BY <1>1, IncrementalAssumption DEF TypeOK, Candidates
<1>10. /\ \A t \in left : t \notin new /\ fileOf'[t] = fileOf[t]
       /\ types' \ pending' = left
  BY <1>5, <1>6, <1>7, <1>9
\* Exactly the candidates that were not looked at remain.
<1>11. \A f \in classSet \cap seen : f \in trash /\ fileOf[f] = f
  <2> SUFFICES ASSUME NEW f \in classSet, f \in seen PROVE f \in trash /\ fileOf[f] = f
    OBVIOUS
  <2>1. f \in types \ pending /\ fileOf[f] = f /\ f \in Names
    BY <1>2, <1>7, <1>9 DEF Kinds, Candidates
  <2>2. f \in fileTypes[f] \/ f \in trash
    BY <1>2, <1>9, <2>1 DEF OwnFile
  <2> QED
    BY <1>7, <2>1, <2>2
<1>12. Candidates' = Candidates \ seen
  <2>1. ASSUME NEW f \in Candidates', f \in seen PROVE FALSE
    <3>1. f \in javaSet \/ f \in classSet
      BY <1>5, <2>1 DEF Candidates
    <3> QED
      BY <1>5, <1>8, <1>11, <2>1, <3>1 DEF Candidates
  <2>2. ASSUME NEW f \in Candidates, f \notin seen PROVE f \in Candidates'
    <3>1. CASE f \in javaSet
      <4>1. recompilation \cup expired \subseteq seen
        BY <1>1, <1>3 DEF TrashClosed, Choosing
      <4> QED
        BY <1>5, <2>2, <3>1, <4>1 DEF Candidates
    <3>2. CASE f \in classSet
      <4>1. ~ (f \in trash /\ fileOf[f] = f)
        BY <1>7, <1>9, <2>2
      <4> QED
        BY <1>5, <3>2, <4>1 DEF Candidates
    <3> QED
      BY <3>1, <3>2 DEF Candidates
  <2>3. Candidates' \subseteq Candidates
    BY <1>5 DEF Candidates
  <2> QED
    BY <2>1, <2>2, <2>3
\* A type of g that one of f depends on is left, if f is not looked at; so is g.
<1>13. ASSUME NEW f \in Candidates \ seen, NEW g \in firm[f]
       PROVE  /\ g \in Candidates \ seen
              /\ \E n \in left : fileOf[n] = g /\ \E t \in dependents[n] : t \in left /\ fileOf[t] = f
  <2>1. PICK n \in types \ pending : fileOf[n] = g /\ \E t \in dependents[n] : fileOf[t] = f
    BY <1>2 DEF FirmRecorded, Leads
  <2>2. PICK t \in dependents[n] : fileOf[t] = f
    BY <2>1
  <2>3. f \in Names /\ g \in Names /\ n \in Names /\ t \in types
    <3>1. dependents \in [Names -> SUBSET Names]
      BY <1>1 DEF TypeOK
    <3> QED
      BY <1>1, <1>9, <2>1, <2>2, <3>1 DEF EdgesAreLive
  <2>4. t \notin trash
    BY <1>7, <1>9, <2>2, <2>3
  <2>5. n \notin trash
    BY <1>7, <2>2, <2>4
  <2>6. g \in Candidates /\ n \in fileTypes[g]
    BY <1>2, <1>9, <2>1, <2>3, <2>5 DEF OwnFile
  <2>7. g \notin seen
    BY <1>7, <2>5, <2>6
  <2> QED
    BY <1>5, <2>1, <2>2, <2>3, <2>4, <2>5, <2>6, <2>7
<1>14. Times'
  BY <1>2, <1>3, <1>5 DEF Times
<1>15. Kinds'
  <2>1. \A f \in javaSet' \cup toRead' : kind[f] = "java"
    BY <1>2, <1>5, <1>8 DEF Kinds
  <2>2. ASSUME NEW f \in classSet'
        PROVE  kind[f] # "none" /\ f \in types' /\ fileOf'[f] = f
    <3>1. f \in classSet /\ kind[f] # "none" /\ f \in types /\ fileOf[f] = f
      BY <1>2, <1>5 DEF Kinds
    <3>2. f \in left
      BY <1>5, <2>2, <3>1
    <3> QED
      BY <1>5, <1>10, <3>1, <3>2
  <2> QED
    BY <1>2, <1>3, <2>1, <2>2 DEF Kinds
<1>16. Chosen'
  BY <1>5 DEF Chosen, Choosing
<1>17. OwnFile'
  <2>1. ASSUME NEW n \in left, fileOf[n] # NoName
        PROVE  fileOf[n] \in Candidates' /\ n \in fileTypes[fileOf[n]]
    <3>1. fileOf[n] \in Candidates /\ n \in fileTypes[fileOf[n]]
      BY <1>2, <1>5, <1>7, <2>1 DEF OwnFile
    <3>2. fileOf[n] \notin seen
      BY <1>5, <1>7, <3>1
    <3> QED
      BY <1>12, <3>1, <3>2
  <2> QED
    BY <1>3, <1>7, <1>10, <2>1 DEF OwnFile
<1>18. FirmRecorded'
  <2> SUFFICES ASSUME NEW f \in Candidates \ seen, NEW g \in firm[f]
               PROVE  \E n \in left : fileOf'[n] = g /\ \E t \in dependents'[n] : fileOf'[t] = f
    BY <1>3, <1>10, <1>12 DEF FirmRecorded, Leads
  <2>1. PICK n \in left : fileOf[n] = g /\ \E t \in dependents[n] : t \in left /\ fileOf[t] = f
    BY <1>13
  <2>2. PICK t \in dependents[n] : t \in left /\ fileOf[t] = f
    BY <2>1
  <2>3. t \in dependents'[n]
    BY <1>5, <1>9, <2>2 DEF WithoutTrash
  <2> QED
    BY <1>10, <2>1, <2>2, <2>3
<1>19. OwedFound'
  <2> SUFFICES ASSUME NEW f \in owed PROVE f \in toRead' \ javaSet'
    BY <1>3, <1>5 DEF OwedFound, Choosing
  <2>1. f \in javaSet /\ entry[f] # 0 /\ Reached(firm, {f}) \cap seen # {}
    BY <1>2, <1>3 DEF OwedFound, Choosing
  <2>2. f \in seen
    <3> SUFFICES ASSUME f \notin seen PROVE FALSE
      OBVIOUS
    <3> DEFINE rest == Candidates \ seen
    <3>1. f \in rest /\ rest \in SUBSET Names
      BY <1>9, <2>1 DEF Candidates
    <3>2. \A h \in rest : firm[h] \subseteq rest
      BY <1>13
    <3>3. rest \cap seen = {}
      OBVIOUS
    <3> HIDE DEF rest
    <3>4. {f} \in SUBSET Names /\ {f} \subseteq rest
      BY <3>1
    <3>5. Reached(firm, {f}) \subseteq rest
      BY <1>9, <3>1, <3>2, <3>4, ReachedFacts
    <3> QED
      BY <2>1, <3>3, <3>5
  <2> QED
    BY <1>5, <1>8, <2>1, <2>2
<1> QED
  BY <1>14, <1>15, <1>16, <1>17, <1>18, <1>19 DEF FilesInv

-----------------------------------------------------------------------------
(* Every step, and the theorem.                                             *)

LEMMA FilesStep ==
    ASSUME OneDeclaration, TypesInv, FilesInv, [Next]_vars
    PROVE  FilesInv'
<1>1. TypeOK
  BY DEF TypesInv
<1>2. CASE Save \/ Create \/ Delete
  BY <1>1, <1>2, UserFiles
<1>3. CASE Enter
  BY <1>3, EnterFiles
<1>4. CASE Round
  BY <1>4, RoundFiles
<1>5. CASE RemoveTrashedTypes
  BY <1>5, RemoveFiles
<1>6. kind \in [Names -> {"none", "java", "class"}] /\ stamp \in [Names -> 0 .. clock]
  BY <1>1 DEF TypeOK
<1>7. CASE ProcessFile
  <2>1. PICK f \in toRead :
          /\ toRead' = toRead \ {f}
          /\ IF f \in javaSet
             THEN UNCHANGED <<files, symbols, javaSet, read, lookups, errors, phase, history>>
             ELSE Read(f) /\ UNCHANGED <<kind, stamp, dangling>>
    BY <1>7 DEF ProcessFile
  <2>2. phase = "compile" /\ f \in Names
        /\ UNCHANGED <<disk, listing, edges, classSet, recompilation, expired, trashBin, rounds>>
    BY <1>1, <1>7 DEF ProcessFile, TypeOK
  <2>3. CASE f \in javaSet
    <3>1. UNCHANGED <<source, mtime, classTime, entry, kind, stamp, lex, fileTypes, types, fileOf,
                      pending, dependents, javaSet, classSet, trash, phase, lookups, edited, firm,
                      owed>>
      BY <2>1, <2>2, <2>3 DEF disk, listing, files, symbols, edges, rounds, history
    <3>2. owed \subseteq toRead \ javaSet
      BY <2>2 DEF FilesInv, OwedFound
    <3> QED
      BY <2>1, <2>2, <2>3, <3>1, <3>2
         DEF FilesInv, Times, Kinds, Chosen, OwnFile, FirmRecorded, Leads, OwedFound, Choosing, Candidates
  <2>4. CASE f \notin javaSet
    <3>1. kind[f] = "java"
      BY DEF FilesInv, Kinds
    <3>2. kind' = [kind EXCEPT ![f] = "java"] /\ UNCHANGED stamp
      BY <1>6, <2>1, <2>4, <3>1
    <3>3. SameBeside
      BY <2>1, <2>2, <2>4 DEF SameBeside
    <3> QED
      BY <2>1, <2>2, <2>4, <3>1, <3>2, <3>3, ReadFiles
  <2> QED
    BY <2>3, <2>4
<1>8. CASE ReadType
  <2>1. phase = "compile"
        /\ UNCHANGED <<disk, listing, edges, recompilation, expired, rounds, toRead>>
    BY <1>8 DEF ReadType
  <2>2. PICK asked \in lookups :
          /\ asked.name \notin types
          /\ Missing(asked.name) \/ ReadClassFile(asked.name) \/ ReadJavaFile(asked.name)
    BY <1>8 DEF ReadType
  <2>3. asked.name \in Names
    BY <1>1 DEF TypeOK
  <2>4. CASE Missing(asked.name)
    BY <2>1, <2>2, <2>3, <2>4, MissingFiles
  <2>5. CASE ReadClassFile(asked.name)
    BY <2>1, <2>2, <2>3, <2>5, ReadClassFiles
  <2>6. CASE ReadJavaFile(asked.name)
    <3> DEFINE n == asked.name
    <3>1. /\ Read(n) /\ InsertFileSymbol(n) /\ FileKind(n) = "java"
          /\ UNCHANGED <<dangling, trashBin, classSet>>
      BY <2>6 DEF ReadJavaFile
    <3>2. /\ kind' = [kind EXCEPT ![n] = "java"]
          /\ \A m \in Names \ {n} : stamp'[m] = stamp[m]
          /\ stamp'[n] = IF kind[n] # "none" THEN stamp[n] ELSE mtime[n]
          /\ stamp' \in [Names -> 0 .. clock]
      BY <1>1, <2>3, <3>1, FileKindFacts
    <3>3. kind[n] \in {"none", "java"}
      BY <1>6, <2>3, <3>1 DEF FileKind
    <3>4. UNCHANGED stamp \/ (kind[n] = "none" /\ stamp' = [stamp EXCEPT ![n] = mtime[n]])
      BY <1>6, <2>3, <3>2
    <3>5. SameBeside /\ toRead' \in {toRead, toRead \ {n}}
      BY <2>1, <3>1 DEF SameBeside
    <3> QED
      BY <2>1, <2>3, <3>1, <3>2, <3>3, <3>4, <3>5, ReadFiles
  <2> QED
    BY <2>2, <2>4, <2>5, <2>6
<1>9. CASE ReadPending
  <2>1. phase = "compile"
        /\ UNCHANGED <<disk, listing, kind, stamp, dangling, edges, classSet, recompilation, expired,
                       trashBin, rounds, toRead>>
    BY <1>9 DEF ReadPending
  <2>2. PICK asked \in lookups : asked.name \in pending /\ Read(fileOf[asked.name])
    BY <1>9 DEF ReadPending
  <2> DEFINE f == fileOf[asked.name]
  <2>3. f \in toRead /\ f \in Names
    BY <1>1, <2>1, <2>2 DEF TypesInv, Waiting, TypeOK
  <2>4. kind[f] = "java"
    BY <2>3 DEF FilesInv, Kinds
  <2>5. kind' = [kind EXCEPT ![f] = "java"] /\ UNCHANGED stamp
    BY <1>6, <2>1, <2>3, <2>4
  <2>6. SameBeside /\ toRead' \in {toRead, toRead \ {f}}
    BY <2>1 DEF SameBeside
  <2> QED
    BY <2>1, <2>2, <2>3, <2>4, <2>5, <2>6, ReadFiles
<1>10. CASE AddDependence
  BY <1>10, DependenceFiles
<1>11. CASE FinishPass
  BY <1>11, FinishFiles
<1>12. CASE UNCHANGED vars
  <2>1. UNCHANGED <<disk, listing, files, symbols, edges, control, rounds, phase, pass, history>>
    BY <1>12 DEF vars
  <2>2. UNCHANGED <<source, mtime, classTime, entry, kind, stamp, lex, fileTypes, types, fileOf,
                    pending, dependents, javaSet, classSet, recompilation, expired, fresh, seen, trash,
                    phase, toRead, lookups, edited, firm, owed>>
    BY <2>1 DEF disk, listing, files, symbols, edges, control, rounds, pass, history
  <2>3. Times' /\ Kinds'
    BY <2>2 DEF FilesInv, Times, Kinds, Candidates
  <2>4. Chosen' /\ OwnFile' /\ OwedFound'
    BY <2>2 DEF FilesInv, Chosen, OwnFile, OwedFound, Choosing, Candidates
  <2>5. FirmRecorded'
    BY <2>2 DEF FilesInv, FirmRecorded, Leads, Candidates
  <2> QED
    BY <2>3, <2>4, <2>5 DEF FilesInv
<1> QED
  BY <1>2, <1>3, <1>4, <1>5, <1>7, <1>8, <1>9, <1>10, <1>11, <1>12
     DEF Next, User, Compiler, Stopped

\* Where no two sources declare the same type: what a file was compiled from leads to
\* it along dependences between types, and every file that is out of date is read.
THEOREM OwedInvariant == OneDeclaration => (Spec => [](TypesInv /\ FilesInv))
<1> SUFFICES ASSUME OneDeclaration PROVE Spec => [](TypesInv /\ FilesInv)
  OBVIOUS
<1>1. Init => TypesInv /\ FilesInv
  BY InitTypes, InitFiles
<1>2. TypesInv /\ FilesInv /\ [Next]_vars => (TypesInv /\ FilesInv)'
  BY TypesStep, FilesStep
<1> QED
  BY <1>1, <1>2, PTL DEF Spec

\* Where no two sources declare the same type, a source that depends on one that was
\* written or deleted is compiled again before the next prompt.
THEOREM ChangesAreFollowed == OneDeclaration => (Spec => []KeepsUp)
<1> SUFFICES ASSUME OneDeclaration PROVE Spec => []KeepsUp
  OBVIOUS
<1>1. TypesInv /\ FilesInv => KeepsUp
  BY DEF FilesInv, OwedFound, KeepsUp
<1>2. Spec => [](TypesInv /\ FilesInv)
  BY OwedInvariant
<1> QED
  BY <1>1, <1>2, PTL
=============================================================================
