---------------------------- MODULE Compilation ----------------------------
(***************************************************************************)
(* The life of files and types in one run of the compiler: Control's input *)
(* loop, ProcessFile, ProcessHeaders, ProcessBodies, CleanUp and the final *)
(* clean-up loop, with Semantic::ReadType and ComputeFinalValue, through   *)
(* which the body of one type reaches files and types that may be anywhere *)
(* in their life.                                                          *)
(*                                                                         *)
(* A call of ProcessHeaders is one step here: which files it reads, and in *)
(* which order it leaves their types in needs_body_work, is arbitrary (the *)
(* module TypeHeaders looks inside).  What the source text contains is     *)
(* arbitrary too: whether a file scans and parses, where the semantic and  *)
(* syntax errors are, which constants and which other files a body names.  *)
(***************************************************************************)
EXTENDS Naturals, Sequences, FiniteSets

CONSTANTS Files,      \* .java files
          Types,      \* their top-level types
          File,       \* the file that declares each type
          Nameless,   \* files that declare no type of the file's own name
          Inputs,     \* the files of the command line
          Options,    \* the values Option::nocleanup may have
          NoType      \* the NULL TypeSymbol*

ASSUME CompilationAssumption ==
    /\ File \in [Types -> Files]
    /\ Inputs \subseteq Files /\ Nameless \subseteq Files
    /\ NoType \notin Types
    /\ Options \subseteq BOOLEAN
    /\ IsFiniteSet(Types)

VARIABLES
    nocleanup,   \* the option -nocleanup (never changes)
    inputs,      \* input_files not tried yet
    inputSet,    \* input_java_file_set
    semantic,    \* files with a Semantic
    bad,         \* files with a Semantic and a bad compilation unit
    tokens,      \* files whose LexStream holds bad tokens
    errors,      \* files whose Semantic has unprinted errors
    named,       \* Nameless files whose name has become a bad TypeSymbol
    declared,    \* types that are no longer SourcePending
    env,         \* types with a semantic_environment
    linked,      \* types whose fields still point to their declarators
    constants,   \* types whose constant fields are initialized
    toProcess,   \* the union of the Semantics' types_to_be_processed
    bodyWork,    \* needs_body_work
    next,        \* ProcessFile's index into it
    current,     \* the type in ProcessBodies
    stage,       \* how far ProcessBodies is
    freed,       \* files whose AST pool is deleted
    emitted,     \* types whose class file is written
    returnCode,  \* Control::return_code
    phase

content == <<bad, tokens, errors>>
symbols == <<declared, env, linked, constants, toProcess>>
working == <<bodyWork, next, current, stage>>
result  == <<emitted, returnCode>>
vars    == <<nocleanup, inputs, inputSet, semantic, content, named, symbols, working,
             freed, result, phase>>

TypesOf(S)   == {t \in Types : File[t] \in S}
Waiting      == {bodyWork[k] : k \in next .. Len(bodyWork)}

\* The sequences that hold each element of S once.
Orderings(S) ==
    {o \in [1 .. Cardinality(S) -> S] :
        /\ \A j, k \in DOMAIN o : o[j] = o[k] => j = k
        /\ \A t \in S : \E k \in DOMAIN o : o[k] = t}

Init ==
    /\ nocleanup \in Options
    /\ inputs = Inputs
    /\ inputSet = {} /\ semantic = {}
    /\ bad = {} /\ tokens = {} /\ errors = {} /\ named = {}
    /\ declared = {} /\ env = {} /\ linked = {} /\ constants = {} /\ toProcess = {}
    /\ bodyWork = <<>> /\ next = 1 /\ current = NoType /\ stage = "idle"
    /\ freed = {} /\ emitted = {} /\ returnCode = 0
    /\ phase = "compile"

-----------------------------------------------------------------------------
(***************************************************************************)
(* An outermost Control::ProcessHeaders that reads the files S and appends *)
(* to work.  Files in unparsed have a bad compilation unit: their types    *)
(* are made bad and get an environment, but no work.  Types seen before    *)
(* are duplicates.                                                         *)
(***************************************************************************)
ProcessHeaders(S, unparsed, lexical, faulty, work, order) ==
    /\ order \in Orderings(TypesOf(S \ unparsed) \ declared)
    /\ inputSet' = inputSet \cup S
    /\ semantic' = semantic \cup S
    /\ bad' = bad \cup unparsed
    /\ tokens' = tokens \cup lexical
    /\ errors' = errors \cup faulty
                   \cup {f \in S \ unparsed : TypesOf({f}) \cap declared # {}}
    /\ declared' = declared \cup TypesOf(S)
    /\ env' = env \cup (TypesOf(S) \ declared)
    /\ linked' = linked \cup (TypesOf(S \ unparsed) \ declared)
    /\ toProcess' = toProcess \cup (TypesOf(S \ unparsed) \ declared)
    /\ bodyWork' = work \o order

\* The files ProcessHeaders may be called for: those not read yet, and those
\* without a Semantic that ReadType meets because no type has their name.
Readable == {f \in Files \ semantic : f \notin inputSet \/ f \in Nameless \ named}

(***************************************************************************)
(* The reading of S, asked for by a file of asking.  A file scans and      *)
(* parses the second time as it did the first.  misnamed are the files of  *)
(* S reached by a name they turn out not to declare: ReadType makes a bad  *)
(* type of it and reports that.  Files of the command line are also        *)
(* reached through their pending types, the others by name only.           *)
(***************************************************************************)
Batch(S, asking, misnamed, work) ==
    /\ S \subseteq Readable
    /\ (S \cap Nameless) \ (Inputs \ inputSet) \subseteq misnamed
    /\ named' = named \cup misnamed
    /\ \E unparsed, lexical \in SUBSET (S \ inputSet), faulty \in SUBSET (S \cup asking) :
          /\ misnamed # {} => faulty # {}
          /\ \E order \in Orderings(TypesOf(S \ unparsed) \ declared) :
                ProcessHeaders(S, unparsed, lexical, faulty, work, order)

\* Control's loop over input_files and ProcessFile, up to the bodies.
NextInput ==
    /\ phase = "compile" /\ stage = "idle" /\ Waiting = {}
    /\ \E f \in inputs :
          /\ inputs' = inputs \ {f}
          /\ IF f \in inputSet
             THEN UNCHANGED <<inputSet, semantic, content, named, symbols, bodyWork, next>>
             ELSE /\ \E S \in SUBSET Files, misnamed \in SUBSET (Nameless \ {f}) :
                        f \in S /\ misnamed \subseteq S /\ Batch(S, {}, misnamed, <<>>)
                  /\ next' = 1
                  /\ UNCHANGED constants
    /\ UNCHANGED <<nocleanup, current, stage, freed, result, phase>>

-----------------------------------------------------------------------------
(* Control::ProcessBodies of one type.                                      *)

\* InitializerParse may find the first syntax errors of the file.
StartBody ==
    /\ phase = "compile" /\ stage = "idle" /\ next <= Len(bodyWork)
    /\ current' = bodyWork[next]
    /\ \/ /\ File[current'] \in bad
          /\ stage' = "finish" /\ UNCHANGED bad
       \/ /\ File[current'] \notin bad
          /\ stage' = "finish" /\ bad' = bad \cup {File[current']}
       \/ /\ File[current'] \notin bad
          /\ stage' = "fields" /\ UNCHANGED bad
    /\ UNCHANGED <<nocleanup, inputs, inputSet, semantic, tokens, errors, named, symbols,
                   bodyWork, next, freed, result, phase>>

\* The end of CompleteSymbolTable; then BodyParse.
CompleteSymbolTable ==
    /\ stage = "fields"
    /\ constants' = constants \cup {current}
    /\ \/ stage' = "finish" /\ bad' = bad \cup {File[current]}
       \/ stage' = "code" /\ UNCHANGED bad
    /\ UNCHANGED <<nocleanup, inputs, inputSet, semantic, tokens, errors, named,
                   declared, env, linked, toProcess, bodyWork, next, current,
                   freed, result, phase>>

ProcessExecutableBodies ==
    /\ stage = "code" /\ stage' = "finish"
    /\ UNCHANGED <<nocleanup, inputs, inputSet, semantic, content, named, symbols,
                   bodyWork, next, current, freed, result, phase>>

InBody == stage \in {"fields", "code"}

ReportSemError ==
    /\ InBody
    /\ errors' = errors \cup {File[current]}
    /\ UNCHANGED <<nocleanup, inputs, inputSet, semantic, bad, tokens, named, symbols,
                   working, freed, result, phase>>

\* Semantic::ReadType: the file of a name the body mentions is read, with the
\* files that one needs.  A missing type, or errors found in the file on the
\* way, are reported where the name is.
ReadType ==
    /\ InBody
    /\ \E f \in Readable, S \in SUBSET Files, misnamed \in SUBSET Nameless :
          /\ f \in S /\ misnamed \subseteq S
          /\ Batch(S, {File[current]}, misnamed, bodyWork)
          /\ f \in misnamed \cup (errors' \ Inputs) => File[current] \in errors'
    /\ UNCHANGED <<nocleanup, inputs, constants, next, current, stage, freed, result, phase>>

\* ReadType of a file that has a Semantic and does not declare the name.
NameMissing ==
    /\ InBody
    /\ \E f \in (Nameless \cap semantic) \ named : named' = named \cup {f}
    /\ errors' = errors \cup {File[current]}
    /\ UNCHANGED <<nocleanup, inputs, inputSet, semantic, bad, tokens, symbols, working,
                   freed, result, phase>>

\* Semantic::ComputeFinalValue of a field of another type.
ComputeFinalValue ==
    /\ InBody
    /\ \E u \in linked \ constants : constants' = constants \cup {u}
    /\ UNCHANGED <<nocleanup, inputs, inputSet, semantic, content, named,
                   declared, env, linked, toProcess, working, freed, result, phase>>

\* The same, of a field whose declarator or environment has been deleted.
Crash ==
    /\ InBody
    /\ \E u \in linked \ constants : u \notin env
    /\ phase' = "crashed"
    /\ stage' = "idle" /\ current' = NoType
    /\ UNCHANGED <<nocleanup, inputs, inputSet, semantic, content, named, symbols,
                   bodyWork, next, freed, result>>

\* Mutant: the errors of the files are not reset.
CleanUpKeepsErrors(S, live, errs) ==
    /\ returnCode' = IF S \cap (bad \cup tokens \cup errs) # {} THEN 1 ELSE returnCode
    /\ errors' = errs
    /\ bad' = bad \ S
    /\ env' = IF nocleanup THEN live ELSE live \ (TypesOf(S) \cap linked)
    /\ freed' = IF nocleanup THEN freed ELSE freed \cup (S \ tokens)
    /\ semantic' = semantic \ S

\* Mutant: the last clean-up decides the exit code.
CleanUpLastCode(S, live, errs) ==
    /\ returnCode' = IF S \cap (bad \cup tokens \cup errs) # {} THEN 1 ELSE 0
    /\ errors' = errs \ S
    /\ bad' = bad \ S
    /\ env' = IF nocleanup THEN live ELSE live \ (TypesOf(S) \cap linked)
    /\ freed' = IF nocleanup THEN freed ELSE freed \cup (S \ tokens)
    /\ semantic' = semantic \ S

(***************************************************************************)
(* Control::CleanUp of the files S.  errs are the unprinted errors and     *)
(* live the environments not deleted so far.  PrintMessages reports and    *)
(* forgets the errors, so that a pool is kept for bad tokens only.         *)
(***************************************************************************)
CleanUp(S, live, errs) ==
    /\ returnCode' = IF S \cap (bad \cup tokens \cup errs) # {} THEN 1 ELSE returnCode
    /\ errors' = errs \ S
    /\ bad' = bad \ S
    /\ env' = IF nocleanup THEN live ELSE live \ (TypesOf(S) \cap linked)
    /\ freed' = IF nocleanup THEN freed ELSE freed \cup (S \ tokens)
    /\ semantic' = semantic \ S

\* Mutant: the file is cleaned up after its first body.
FinishBodyCleansEarly ==
    /\ stage = "finish"
    /\ LET f     == File[current]
           clean == f \notin bad \cup tokens \cup errors
       IN  /\ emitted' = IF clean THEN emitted \cup {current} ELSE emitted
           /\ linked' = IF clean /\ ~ nocleanup THEN linked \ {current} ELSE linked
           /\ toProcess' = toProcess \ {current}
           /\ CleanUp(IF nocleanup THEN {} ELSE {f},
                      IF clean /\ ~ nocleanup THEN env \ {current} ELSE env, errors)
    /\ next' = next + 1
    /\ current' = NoType /\ stage' = "idle"
    /\ UNCHANGED <<nocleanup, inputs, inputSet, tokens, named, declared, constants, bodyWork, phase>>

\* Mutant: the environments of a finished file go even with -nocleanup.
FinishBodyForgetsOption ==
    /\ stage = "finish"
    /\ LET f     == File[current]
           clean == f \notin bad \cup tokens \cup errors
           left  == toProcess \ {current}
       IN  /\ emitted' = IF clean THEN emitted \cup {current} ELSE emitted
           /\ toProcess' = left
           /\ CleanUp({}, IF left \cap TypesOf({f}) # {} THEN env ELSE env \ TypesOf({f}), errors)
    /\ next' = next + 1
    /\ current' = NoType /\ stage' = "idle"
    /\ UNCHANGED <<nocleanup, inputs, inputSet, tokens, named, linked, declared, constants, bodyWork, phase>>

\* Mutant: ProcessFile's index is not moved.
FinishBodyStays ==
    /\ stage = "finish"
    /\ LET f     == File[current]
           clean == f \notin bad \cup tokens \cup errors
       IN  /\ emitted' = IF clean THEN emitted \cup {current} ELSE emitted
           /\ toProcess' = toProcess \ {current}
    /\ current' = NoType /\ stage' = "idle"
    /\ UNCHANGED <<nocleanup, inputs, inputSet, semantic, content, named, declared, env, linked,
                   constants, bodyWork, next, freed, returnCode, phase>>

\* The end of ProcessBodies: the class file, then the references to the AST,
\* then, after the last type of the file, its clean-up.
FinishBody ==
    /\ stage = "finish"
    /\ LET f     == File[current]
           clean == f \notin bad \cup tokens \cup errors
       IN  \E codeErrors \in IF clean THEN {{}, {f}} ELSE {{}} :
           LET done == clean /\ codeErrors = {} /\ ~ nocleanup
               left == toProcess \ {current}
           IN  /\ emitted' = IF clean THEN emitted \cup {current} ELSE emitted
               /\ linked' = IF done THEN linked \ {current} ELSE linked
               /\ toProcess' = left
               /\ CleanUp(IF nocleanup \/ left \cap TypesOf({f}) # {} THEN {} ELSE {f},
                          IF done THEN env \ {current} ELSE env,
                          errors \cup codeErrors)
    /\ next' = next + 1
    /\ current' = NoType /\ stage' = "idle"
    /\ UNCHANGED <<nocleanup, inputs, inputSet, tokens, named, declared, constants, bodyWork, phase>>

\* Mutant: only the files of the command line are cleaned up at the end.
FinalCleanUpInputs ==
    /\ phase = "compile" /\ stage = "idle" /\ Waiting = {} /\ inputs = {}
    /\ CleanUp(Inputs \cap semantic, env, errors)
    /\ bodyWork' = <<>> /\ next' = 1
    /\ phase' = "done"
    /\ UNCHANGED <<nocleanup, inputs, inputSet, tokens, named, declared, linked, constants,
                   toProcess, current, stage, emitted>>

\* The final loop over input_java_file_set.
FinalCleanUp ==
    /\ phase = "compile" /\ stage = "idle" /\ Waiting = {} /\ inputs = {}
    /\ CleanUp(inputSet \cap semantic, env, errors)
    /\ bodyWork' = <<>> /\ next' = 1
    /\ phase' = "done"
    /\ UNCHANGED <<nocleanup, inputs, inputSet, tokens, named, declared, linked, constants,
                   toProcess, current, stage, emitted>>

Finished == phase \in {"done", "crashed"} /\ UNCHANGED vars

Next == NextInput \/ StartBody \/ CompleteSymbolTable \/ ProcessExecutableBodies
            \/ ReportSemError \/ ReadType \/ NameMissing \/ ComputeFinalValue \/ Crash
            \/ FinishBody \/ FinalCleanUp \/ Finished

\* One thread runs the program to its end.
Spec == Init /\ [][Next]_vars /\ WF_vars(Next)

-----------------------------------------------------------------------------
\* Every variable has its type.
TypeOK ==
    /\ nocleanup \in Options
    /\ inputs \subseteq Inputs /\ inputSet \subseteq Files
    /\ semantic \subseteq inputSet /\ bad \subseteq semantic
    /\ tokens \subseteq Files /\ errors \subseteq semantic
    /\ named \subseteq Nameless /\ freed \subseteq Files
    /\ declared \subseteq Types /\ env \subseteq declared
    /\ linked \subseteq declared /\ constants \subseteq declared
    /\ toProcess \subseteq declared /\ emitted \subseteq declared
    /\ bodyWork \in Seq(Types) /\ next \in 1 .. Len(bodyWork) + 1
    /\ current \in Types \cup {NoType}
    /\ stage \in {"idle", "fields", "code", "finish"}
    /\ returnCode \in {0, 1}
    /\ phase \in {"compile", "done", "crashed"}

Busy == Waiting \cup ({current} \ {NoType})

\* What ProcessBodies dereferences without a test: every type whose body is
\* still to be processed has its environment and its declaration, its file has
\* its Semantic, and the Semantic knows that it waits for this type; nothing
\* a body does to other files takes that away.
BodiesAreLive ==
    phase = "compile" =>
        /\ Busy \subseteq env \cap linked
        /\ \A t \in Busy : File[t] \in semantic
        /\ Busy = toProcess

\* A file is cleaned up no earlier than the last body of its types, and at the
\* end nothing is left: no Semantic, no environment but those of files that
\* never parsed, no unprinted error, and every input file has been tried.
AllCleanedUp ==
    /\ toProcess \subseteq TypesOf(semantic)
    /\ phase = "done" =>
          /\ semantic = {} /\ toProcess = {} /\ errors = {}
          /\ Inputs \subseteq inputSet
          /\ ~ nocleanup => env \cap linked = {}

\* Exit code 0 means a class file for every type of every file read, those
\* read on the way included.
SuccessMeansClassFiles ==
    phase = "done" /\ returnCode = 0 => declared \subseteq emitted

\* With -nocleanup nothing a body may look at is ever deleted.
NeverCrashes == nocleanup => phase # "crashed"

Faulty == bad \cup tokens \cup errors

\* An error found in any file, even in one cleaned up long before the end,
\* reaches the exit code: it is on record until it counts, nothing takes that
\* back, and none is left over.
ErrorsReachReturnCode ==
    /\ [][/\ \A f \in Faulty : f \in Faulty' \/ returnCode' = 1
          /\ returnCode = 1 => returnCode' = 1]_vars
    /\ [](phase = "done" /\ Faulty # {} => returnCode = 1)

\* The driver comes to an end although bodies keep bringing in files.
Termination == <>(phase \in {"done", "crashed"})

\* However files, bodies and errors are interleaved, every run ends and tells.
EndsAndReports == Termination /\ ErrorsReachReturnCode

\* Each type goes through the life that TypeLife promises.
LifeOf(t) ==
    IF phase = "crashed" THEN "over"
    ELSE IF t = current THEN "active"
    ELSE IF t \in Waiting THEN "waiting"
    ELSE IF t \in declared THEN "over" ELSE "unread"

lives == [t \in Types |-> LifeOf(t)]

Life == INSTANCE TypeLife WITH life <- lives

EachTypeOnce == Life!Spec

=============================================================================
