---------------------------- MODULE Incremental ----------------------------
(***************************************************************************)
(* The incremental mode (option ++): after a pass the compiler waits; at   *)
(* every Enter it finds the sources that are newer than what it compiled   *)
(* and those that are gone (FindMoreRecentInputFiles), follows the         *)
(* recorded dependences to all the types these may invalidate              *)
(* (TypeDependenceChecker, ComputeRecompilationSet), deletes these types   *)
(* (RemoveTrashedTypes) and compiles their files again, which records the  *)
(* dependences of the next pass (AddDependence).                           *)
(*                                                                         *)
(* There is one directory and the unnamed package: a name n stands for the *)
(* files n.java and n.class, their FileSymbol, and the top-level type n.   *)
(* The user writes, creates and deletes sources meanwhile.  A source text  *)
(* is good or has a syntax error; it declares types, each of which         *)
(* mentions names.  Two writes are never within one tick of the clock.     *)
(***************************************************************************)
EXTENDS Naturals

CONSTANTS Names,
          NoName,     \* a NULL FileSymbol*
          NoText,     \* no source: the file is absent, or was not scanned
          Texts,      \* the texts each source may have
          Disks,      \* what the directory may hold at the start
          Inputs,     \* the files of the command line
          MaxWrites   \* bound on what the user does

\* A file declares the type of its own name and others that have no source of
\* their own; no type mentions itself.  A class file mentions names.
ASSUME IncrementalAssumption ==
    /\ NoName \notin Names /\ MaxWrites \in Nat /\ Inputs \subseteq Names
    /\ \A n \in Names : NoText \notin Texts[n] /\ \A text \in Texts[n] :
          /\ n \in DOMAIN text.uses /\ DOMAIN text.uses \subseteq Names
          /\ \A t \in DOMAIN text.uses \ {n} : Texts[t] = {}
          /\ \A t \in DOMAIN text.uses : text.uses[t] \subseteq Names \ {t}
    /\ \A d \in Disks :
          /\ d.source \in [Names -> (UNION {Texts[n] : n \in Names}) \cup {NoText}]
          /\ \A n \in Names : d.source[n] \in Texts[n] \cup {NoText}
          /\ \A n \in DOMAIN d.class : d.class[n] \subseteq Names

VARIABLES
    \* the directory
    source,      \* the text of n.java, or NoText
    mtime,       \* when it was written, 0 if it is absent
    classTime,   \* when n.class was written, 0 if it is absent
    classUses,   \* the names n.class mentions
    clock,
    \* DirectoryTable: what the last reading of the directory found
    entry, classEntry,
    \* FileSymbols
    kind, stamp, packaged, lex, fileTypes,
    dangling,    \* files whose types still holds a type that was deleted
    \* TypeSymbols of the package
    types, fileOf, bad, pending, dependents, parents,
    \* Control
    javaSet, classSet, recompilation, expired, trashBin,
    \* ComputeRecompilationSet
    fresh,       \* new_set
    seen,        \* file_seen
    trash,       \* type_trash_set
    \* the compilation pass
    phase, toRead, read, lookups, errors,
    \* history
    edited,      \* sources written since they were last scanned or looked at
    firm,        \* the files that the last compilation of a file depended on
                 \*   and that were there, without syntax errors
    owed         \* files out of date at Enter

disk    == <<source, mtime, classTime, classUses, clock>>
listing == <<entry, classEntry>>
files   == <<kind, stamp, packaged, lex, fileTypes, dangling>>
symbols == <<types, fileOf, bad, pending>>
edges   == <<dependents, parents>>
control == <<javaSet, classSet, recompilation, expired, trashBin>>
rounds  == <<fresh, seen, trash>>
pass    == <<toRead, read, lookups, errors>>
history == <<edited, firm, owed>>
vars    == <<disk, listing, files, symbols, edges, control, rounds, phase, pass, history>>

None == [n \in Names |-> {}]
Zero == [n \in Names |-> 0]

\* Everything reached from S along succ, S included: what is in every set that
\* holds S and, with each of its elements, all that follow it.
Closed(succ, S) == {T \in SUBSET Names : S \subseteq T /\ \A n \in T : succ[n] \subseteq T}
Reached(succ, S) == {n \in Names : \A T \in Closed(succ, S) : n \in T}

\* The first pass is about to compile the files of the command line.
Init ==
    /\ \E d \in Disks : /\ source = d.source
                        /\ classTime = [n \in Names |-> IF n \in DOMAIN d.class THEN 1 ELSE 0]
                        /\ classUses = [n \in Names |-> IF n \in DOMAIN d.class
                                                        THEN d.class[n] ELSE {}]
    /\ mtime = [n \in Names |-> IF source[n] = NoText THEN 0 ELSE 1]
    /\ clock = 1
    /\ entry = mtime /\ classEntry = classTime
    /\ kind = [n \in Names |-> IF n \in Inputs THEN "java" ELSE "none"]
    /\ stamp = [n \in Names |-> IF n \in Inputs THEN mtime[n] ELSE 0]
    /\ packaged = {} /\ lex = [n \in Names |-> NoText] /\ fileTypes = None /\ dangling = {}
    /\ types = {} /\ fileOf = [n \in Names |-> NoName] /\ bad = {} /\ pending = {}
    /\ dependents = None /\ parents = None
    /\ javaSet = {} /\ classSet = {} /\ recompilation = {} /\ expired = {} /\ trashBin = {}
    /\ fresh = {} /\ seen = {} /\ trash = {}
    /\ phase = "compile" /\ toRead = Inputs /\ read = {} /\ lookups = {} /\ errors = {}
    /\ edited = {} /\ firm = None /\ owed = {}

-----------------------------------------------------------------------------
(* The user.  A source may be saved at any time, even while it is being     *)
(* compiled; sources come and go only while the compiler waits.             *)

Write(n, text) ==
    /\ clock <= MaxWrites
    /\ clock' = clock + 1
    /\ source' = [source EXCEPT ![n] = text]
    /\ mtime' = [mtime EXCEPT ![n] = IF text = NoText THEN 0 ELSE clock + 1]
    /\ edited' = edited \cup {n}
    /\ UNCHANGED <<classTime, classUses, listing, files, symbols, edges, control, rounds,
                   phase, pass, firm, owed>>

Save == /\ phase \in {"prompt", "rounds", "compile"}
        /\ \E n \in Names : source[n] # NoText /\ \E text \in Texts[n] : Write(n, text)

Create == phase = "prompt" /\ \E n \in Names :
              source[n] = NoText /\ \E text \in Texts[n] : Write(n, text)

Delete == phase = "prompt" /\ \E n \in Names : source[n] # NoText /\ Write(n, NoText)

-----------------------------------------------------------------------------
(* IncrementalRecompilation: the changed files and what depends on them.    *)

\* FindMoreRecentInputFiles: the files of S whose source is newer than their
\* stamp, and those whose source is gone.
Newer(S, listed, stamps) == {f \in S : listed[f] > stamps[f]}
Vanished(S, listed)      == {f \in S : listed[f] = 0 /\ kind[f] = "java"}

\* dependents_closure of all the types in S.
Closure(S) == Reached(dependents, S)

\* The sources that depend, along firm, on a changed one.
OutOfDate(along, changed, listed) ==
    {f \in javaSet : listed[f] # 0 /\ Reached(along, {f}) \cap changed # {}}

\* The sources written, and those that are gone; one is not missed where its
\* class file was read instead.
Modified == {n \in edited : source[n] # NoText}
Removed  == {n \in edited : source[n] = NoText /\ kind[n] # "class"}

Enter ==
    /\ phase = "prompt"
    /\ owed' = OutOfDate(firm, Modified \cup Removed, mtime)
    /\ edited' = {}
    /\ LET candidates == javaSet \cup classSet
       IN  /\ IF candidates = {} THEN UNCHANGED listing
                                ELSE entry' = mtime /\ classEntry' = classTime
           /\ recompilation' = Newer(candidates, mtime, stamp)
           /\ expired' = Vanished(candidates, mtime)
           /\ fresh' = recompilation' \cup expired' /\ seen' = fresh'
           /\ stamp' = [n \in Names |-> IF n \in recompilation' THEN mtime[n] ELSE stamp[n]]
           /\ trash' = IF candidates = {} THEN {} ELSE Closure(trashBin)
           \* PartialOrder looks at every type of every candidate.
           /\ phase' = IF candidates \cap dangling = {} THEN "rounds" ELSE "freed"
    /\ UNCHANGED <<disk, kind, packaged, lex, fileTypes, dangling, symbols, edges,
                   javaSet, classSet, trashBin, pass, firm>>

\* Types that a text declares.
Declared(text) == IF text = NoText THEN {} ELSE DOMAIN text.uses

\* The files of the types in closure that were not looked at yet.
NewFilesUnseen(closure) == {fileOf[t] : t \in closure} \ {NoName}
NewFiles(closure)       == {fileOf[t] : t \in closure} \ (seen \cup {NoName})

\* FindMoreRecentInputFiles once their stamps are reset to 0: all that exist.
\* The mutant forgets to reset them.
ForcedStamped(next) == {f \in next : entry[f] > stamp[f]}
Forced(next)        == {f \in next : entry[f] # 0}

(***************************************************************************)
(* One turn of ComputeRecompilationSet's loop: the files in fresh are      *)
(* reset and scanned again; all that depends on their types, old and new,  *)
(* goes to the trash; the files of trashed types are fresh in the next.    *)
(***************************************************************************)
Round ==
    /\ phase = "rounds"
    /\ LET scanned == fresh \ expired
           closure == trash \cup Closure(UNION {fileTypes[f] : f \in fresh})
                          \cup Closure(types \cap UNION {Declared(source[f]) : f \in scanned})
           next    == NewFiles(closure)
       IN  /\ fileTypes' = [n \in Names |-> IF n \in scanned THEN {} ELSE fileTypes[n]]
           /\ kind' = [n \in Names |-> IF n \in scanned THEN "java" ELSE kind[n]]
           /\ lex' = [n \in Names |-> IF n \in scanned THEN source[n] ELSE lex[n]]
           /\ dangling' = dangling \ scanned
           /\ edited' = edited \ scanned
           /\ trash' = closure
           /\ fresh' = next /\ seen' = seen \cup next
           /\ recompilation' = recompilation \cup Forced(next)
           /\ expired' = expired \cup {f \in next : entry[f] = 0 /\ kind[f] = "java"}
           \* the stamp is set to 0, then to that of the source, if there is one
           /\ stamp' = [n \in Names |-> IF n \in next THEN entry[n] ELSE stamp[n]]
           \* The next turn looks at every type of the files in new_set.
           /\ phase' = IF next \cap dangling # {} THEN "freed"
                       ELSE IF next = {} THEN "trash" ELSE "rounds"
    /\ UNCHANGED <<disk, listing, packaged, symbols, edges, javaSet, classSet, trashBin,
                   pass, firm, owed>>

\* DeclareTypes, were the deleted types left in their package.
DeclareTypesKept(S, remaining) ==
    LET new == (UNION {Declared(lex[f]) : f \in S}) \ remaining
    IN  /\ \E owner \in [new -> S] :
              /\ \A t \in new : t \in Declared(lex[owner[t]])
              /\ fileOf' = [t \in Names |-> IF t \in new THEN owner[t]
                                             ELSE IF t \in remaining THEN fileOf[t] ELSE NoName]
        /\ types' = types \cup new
        /\ pending' = (pending \cap remaining) \cup new

\* ProcessPackageDeclaration of the scanned files: a new type belongs to the
\* first file that declares it.
DeclareTypes(S, remaining) ==
    LET new == (UNION {Declared(lex[f]) : f \in S}) \ remaining
    IN  /\ \E owner \in [new -> S] :
              /\ \A t \in new : t \in Declared(lex[owner[t]])
              /\ fileOf' = [t \in Names |-> IF t \in new THEN owner[t]
                                             ELSE IF t \in remaining THEN fileOf[t] ELSE NoName]
        /\ types' = remaining \cup new
        /\ pending' = (pending \cap remaining) \cup new

\* RemoveElement of a trashed type from the dependents of each parent.
WithoutTrashKept(p) == dependents[p]
WithoutTrash(p)     == dependents[p] \ {t \in trash : p \in parents[t]}

(***************************************************************************)
(* RemoveTrashedTypes, and the compiler's preparations for the next pass.  *)
(***************************************************************************)
RemoveTrashedTypes ==
    /\ phase = "trash"
    /\ LET left    == types \ trash
           scanned == {f \in recompilation : lex[f] # NoText}
       IN  /\ dependents' = [p \in Names |-> IF p \in left THEN WithoutTrash(p) ELSE {}]
           /\ parents' = [t \in Names |-> IF t \in left THEN parents[t] ELSE {}]
           /\ DeclareTypes(scanned, left)
           /\ bad' = bad \cap left
           /\ packaged' = packaged \cup scanned
           /\ dangling' = dangling \cup {f \in Names : fileTypes[f] \cap trash # {}}
           /\ classSet' = classSet \ {t \in trash : fileOf[t] = t}
    /\ javaSet' = javaSet \ (recompilation \cup expired)
    /\ toRead' = recompilation
    /\ recompilation' = {} /\ expired' = {} /\ trashBin' = {}
    /\ fresh' = {} /\ seen' = {} /\ trash' = {}
    /\ phase' = "compile"
    /\ UNCHANGED <<disk, listing, kind, stamp, lex, fileTypes, read, lookups, errors, history>>

-----------------------------------------------------------------------------
(* The pass: ProcessFile, and what it reads by name.                        *)

\* What the types of file f have still to find: type t mentions the names S.
Lookups(f, t, S) == {[file |-> f, type |-> t, name |-> n] : n \in S}

(***************************************************************************)
(* ProcessHeaders of a file: it is scanned, unless that was done above;    *)
(* its types exist from the first scan of the file on, or were declared    *)
(* above; a type that is not pending is a duplicate.                       *)
(***************************************************************************)
Read(f) ==
    LET text   == IF lex[f] = NoText THEN source[f] ELSE lex[f]
        names  == Declared(text)
        new    == IF f \in packaged THEN {} ELSE names \ types
        wait   == pending \cup new
        mine   == IF text.good THEN names \cap wait ELSE names
        failed == text = NoText
        lost   == ~ (names \subseteq types \cup new)
    IN  /\ read' = read \cup {f}
        /\ javaSet' = javaSet \cup {f}
        /\ owed' = owed \ {f}
        /\ edited' = IF failed \/ lex[f] # NoText THEN edited ELSE edited \ {f}
        /\ firm' = [firm EXCEPT ![f] = {}]
        /\ lex' = [lex EXCEPT ![f] = NoText]
        /\ IF failed \/ lost
           THEN /\ phase' = IF lost THEN "asserted" ELSE phase
                /\ errors' = errors \cup {f}
                /\ UNCHANGED <<packaged, symbols, fileTypes, lookups>>
           ELSE /\ packaged' = packaged \cup {f}
                /\ types' = types \cup new
                /\ fileOf' = [t \in Names |-> IF t \in new THEN f ELSE fileOf[t]]
                /\ pending' = wait \ mine
                /\ fileTypes' = [fileTypes EXCEPT ![f] = @ \cup mine]
                /\ bad' = IF text.good THEN bad ELSE bad \cup names
                /\ lookups' = IF text.good
                              THEN lookups \cup UNION {Lookups(f, t, text.uses[t]) : t \in mine}
                              ELSE lookups
                /\ errors' = IF text.good /\ mine = names THEN errors ELSE errors \cup {f}
                /\ UNCHANGED phase

\* Control's loop over the files to compile again.
ProcessFile ==
    /\ phase = "compile" /\ lookups = {}
    /\ \E f \in toRead :
          /\ toRead' = toRead \ {f}
          /\ IF f \in javaSet
             THEN UNCHANGED <<files, symbols, javaSet, read, lookups, errors, phase, history>>
             ELSE Read(f) /\ UNCHANGED <<kind, stamp, dangling>>
    /\ UNCHANGED <<disk, listing, edges, classSet, recompilation, expired, trashBin, rounds>>

\* GetFile: the FileSymbol of a name, or what the directory holds.
FileKind(n) ==
    IF kind[n] # "none" THEN kind[n]
    ELSE IF entry[n] # 0 /\ (classEntry[n] = 0 \/ classTime[n] < mtime[n]) THEN "java"
    ELSE IF classEntry[n] # 0 THEN "class" ELSE "none"

InsertFileSymbol(n) ==
    /\ kind' = [kind EXCEPT ![n] = FileKind(n)]
    /\ stamp' = IF kind[n] # "none" THEN stamp
                ELSE [stamp EXCEPT ![n] = IF FileKind(n) = "java" THEN mtime[n] ELSE classTime[n]]

InsertType(n, f) ==
    /\ types' = types \cup {n}
    /\ fileOf' = [fileOf EXCEPT ![n] = f]
    /\ UNCHANGED pending

\* ProcessBadType: a type without a file goes to the trash bin.
ProcessBadTypeKept(n, file) == trashBin
ProcessBadType(n, file)     == IF file = NoName THEN trashBin \cup {n} ELSE trashBin

\* The name is looked up in vain: it becomes a bad type, of the file that
\* should have declared it or of none; then it is in the trash bin.
Missing(n) ==
    /\ FileKind(n) = "none" \/ (FileKind(n) = "java" /\ n \in read)
    /\ LET file == IF FileKind(n) = "none" THEN NoName ELSE n
       IN  /\ InsertType(n, file)
           /\ fileTypes' = [g \in Names |-> IF g = file THEN fileTypes[g] \cup {n} ELSE fileTypes[g]]
           /\ trashBin' = ProcessBadType(n, file)
    /\ bad' = bad \cup {n}
    /\ UNCHANGED <<kind, stamp, packaged, lex, dangling, javaSet, classSet, read, lookups, errors,
                   phase, history>>

ReadClassFile(n) ==
    /\ FileKind(n) = "class"
    /\ InsertFileSymbol(n)
    /\ InsertType(n, n)
    /\ fileTypes' = [fileTypes EXCEPT ![n] = @ \cup {n}]
    /\ packaged' = packaged \cup {n}
    /\ classSet' = classSet \cup {n}
    /\ lookups' = lookups \cup Lookups(n, n, classUses[n])
    /\ firm' = [firm EXCEPT ![n] = {}]
    /\ UNCHANGED <<lex, dangling, bad, trashBin, javaSet, read, errors, phase, edited, owed>>

ReadJavaFile(n) ==
    /\ FileKind(n) = "java" /\ n \notin read
    /\ InsertFileSymbol(n)
    /\ Read(n)
    /\ UNCHANGED <<dangling, trashBin, classSet>>

\* ReadType, for a name that is no type of the package yet.
ReadType ==
    /\ phase = "compile"
    /\ \E asked \in lookups :
          LET n == asked.name
          IN  n \notin types /\ (Missing(n) \/ ReadClassFile(n) \/ ReadJavaFile(n))
    /\ UNCHANGED <<disk, listing, edges, recompilation, expired, rounds, toRead>>

\* A type that was declared, but whose file is not read yet.
ReadPending ==
    /\ phase = "compile"
    /\ \E asked \in lookups :
          LET n == asked.name
          IN  n \in pending /\ fileOf[n] \notin read /\ Read(fileOf[n])
    /\ UNCHANGED <<disk, listing, kind, stamp, dangling, edges, classSet, recompilation, expired,
                   trashBin, rounds, toRead>>

\* AddDependence: nothing depends on a bad type.
AddDependence ==
    /\ phase = "compile"
    /\ \E asked \in lookups :
          LET f    == asked.file
              t    == asked.type
              n    == asked.name
              good == t \notin bad /\ n \notin bad
          IN  /\ n \in types
              /\ n \notin pending \/ fileOf[n] \in read
              /\ dependents' = IF good THEN [dependents EXCEPT ![n] = @ \cup {t}] ELSE dependents
              /\ parents' = IF good THEN [parents EXCEPT ![t] = @ \cup {n}] ELSE parents
              /\ firm' = IF good THEN [firm EXCEPT ![f] = @ \cup {fileOf[n]}] ELSE firm
              /\ errors' = IF n \in bad THEN errors \cup {f} ELSE errors
              /\ lookups' = lookups \ {asked}
    /\ UNCHANGED <<disk, listing, files, symbols, control, rounds, phase, toRead, read,
                   edited, owed>>

\* The class files are written and the files cleaned up.
FinishPass ==
    /\ phase = "compile" /\ lookups = {} /\ toRead = {}
    /\ LET emitted == (types \ bad) \cap UNION {fileTypes[f] : f \in read \ errors}
       IN  /\ classTime' = [n \in Names |-> IF n \in emitted THEN clock ELSE classTime[n]]
           /\ classUses' = [n \in Names |-> IF n \in emitted THEN parents[n] ELSE classUses[n]]
    /\ read' = {} /\ errors' = {}
    /\ phase' = "prompt"
    /\ UNCHANGED <<source, mtime, clock, listing, files, symbols, edges, control, rounds,
                   toRead, lookups, history>>

\* Reading a deleted type, or a failed assertion: nothing is known of what follows.
Stopped == phase \in {"freed", "asserted"} /\ UNCHANGED vars

User     == Save \/ Create \/ Delete \/ Enter
Compiler == Round \/ RemoveTrashedTypes \/ ProcessFile \/ ReadType \/ ReadPending
                \/ AddDependence \/ FinishPass
Next     == User \/ Compiler \/ Stopped

\* The compiler is one thread that runs; the user need not do anything.
Spec == Init /\ [][Next]_vars /\ WF_vars(Compiler)

-----------------------------------------------------------------------------
\* Every variable has its type.
TypeOK ==
    /\ {source, lex} \subseteq [Names -> (UNION {Texts[n] : n \in Names}) \cup {NoText}]
    /\ \A n \in Names : {source[n], lex[n]} \subseteq Texts[n] \cup {NoText}
    /\ clock \in 1 .. MaxWrites + 1
    /\ mtime \in [Names -> 0 .. clock] /\ classTime \in [Names -> 0 .. clock]
    /\ entry \in [Names -> 0 .. clock] /\ classEntry \in [Names -> 0 .. clock]
    /\ stamp \in [Names -> 0 .. clock]
    /\ kind \in [Names -> {"none", "java", "class"}]
    /\ fileOf \in [Names -> Names \cup {NoName}]
    /\ bad \cup pending \subseteq types /\ types \subseteq Names /\ packaged \subseteq Names
    /\ dependents \in [Names -> SUBSET Names] /\ parents \in [Names -> SUBSET Names]
    /\ classUses \in [Names -> SUBSET Names] /\ fileTypes \in [Names -> SUBSET Names]
    /\ firm \in [Names -> SUBSET Names]
    /\ javaSet \cup classSet \cup recompilation \cup expired \cup toRead \cup read \subseteq Names
    /\ \A n \in types : fileOf[n] = NoName => n \in bad
    /\ trashBin \cup trash \subseteq types /\ fresh \subseteq seen /\ seen \subseteq Names
    /\ lookups \subseteq [file : Names, type : Names, name : Names]
    /\ errors \subseteq read \cup classSet
    /\ edited \cup owed \cup dangling \subseteq Names
    /\ phase \in {"prompt", "rounds", "trash", "compile", "freed", "asserted"}

\* Every source that depends on sources or class files that were there and
\* were good is compiled again in the pass after any of them changed
\* (jikes.1:236-238, where the files depended on had no errors).
KeepsUp == phase = "prompt" => owed = {}

\* RemoveTrashedTypes deletes types others point to: after it, whatever the
\* order of passes, no dependence leads to or from a deleted type, and it is
\* recorded on both of its ends, or the next deletion would miss it.
EdgesAreLive ==
    \A p, t \in Names :
        /\ t \in dependents[p] <=> p \in parents[t]
        /\ t \in dependents[p] => {p, t} \subseteq types

\* A type the next Enter cannot find would never be deleted: each type belongs
\* to a candidate file or is in the trash bin, and none still waits for its
\* source to be read.
AllTypesInReach ==
    phase = "prompt" =>
        /\ types \subseteq trashBin \cup UNION {fileTypes[f] : f \in javaSet \cup classSet}
        /\ pending = {}

\* Every Enter leads back to the prompt, whatever was changed, unless the
\* compiler reads what it deleted or an assertion fails.
PassEnds == phase # "prompt" ~> phase \in {"prompt", "freed", "asserted"}
=============================================================================
