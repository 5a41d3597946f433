# A verification of the jopa compiler

This directory holds TLA+ models of the jopa Java compiler (C++, `src/src`), the
configurations that model-check them with TLC, and proofs that TLAPS checks.
Line numbers refer to files of `src/src` unless a path is given.

## 1. The system

The compiler is one thread. `Control` reads the command line and drives every
source file through scanning, parsing, headers, members, bodies, code and
clean-up. Every pass is lazy and re-entrant: the meaning of a name may require
another file, its headers, its members or the value of one of its constants, in
the middle of anything. What goes wrong in such a program is order: work done
before what it relies on, a mark set before the work it stands for, a copy taken
before the original is complete, an object freed while it is still reachable.
The other half of the risk is meaning: the passes over a body keep a dozen stacks
and counters whose numbers have to agree, pass after pass, down to the code.

| Component | State | Operations | Hard behaviour | What makes it correct |
|---|---|---|---|---|
| Driver (`control.cpp`, `error.cpp`) | `input_java_file_set`, the pending `semantic` tuple, `needs_body_work`, each Semantic's `types_to_be_processed`, `return_code` | `ProcessFile`, `ProcessHeaders`, `ProcessBodies`, `CleanUp` | a body reads new files, whose bodies queue up behind it; a file is cleaned up when its last body is done; errors are kept per file | each body runs once, on intact structures; everything is cleaned up; exit code 0 means that all class files exist |
| Headers (`decl.cpp`, `control.cpp`) | per type: status bits, `super`, `interfaces`, `supertypes_closure`; per file: `imports_processed`, `state_stack` | `ProcessTypeNames`, `ProcessTypeHeader(s)`, `ComputeTypesClosure`, `FindType`, `ReadType`, `ProcessMembers` | every one calls every other; cyclic sources | the recorded hierarchy is that of the source; members come after those of the supertypes; nothing is forgotten; it ends |
| Members (`decl.cpp`, `modifier.cpp`) | `expanded_method_table` and the other tables of a type, flags, bad types | modifiers, `CompleteSymbolTable`, `AddInheritedMethods`, overriding checks, bridges | tables computed on demand, in the middle of others, and never again | the tables are the members the language defines; errors are exactly the illegal programs; a call executes the right method |
| Orders and cycles (`depend.cpp`) | `index`, `subtypes_closure`, `pending`, constructor marks | `PartialOrder`, `TopologicalSort`, `CheckConstructorCycles`, dependence closure | recursion over graphs that may be cyclic | an order respects every acyclic edge |
| Incremental mode (`incrmnt.cpp`) | time stamps, `dependents`/`parents`, `recompilation_file_set`, `expired_file_set`, trash bin | `IncrementalRecompilation`, `ComputeRecompilationSet`, `RemoveTrashedTypes` | a fixpoint over what the last pass recorded; deleted files and types; sources written in the middle of a pass | what is out of date is compiled again; no reference to a deleted type survives |
| Statements (`body.cpp`, `definite.cpp`) | stacks of blocks, try statements and labels; pairs of bit sets; slots of variables | one visitor per statement, in two passes | loops, `finally`, slots used twice | accepted methods never read an unset variable, assign finals once, declare what they throw |
| Code of statements (`codegen/bytecode_stmt.cpp`) | method stack, labels, exception table, stack depth | one emitter per statement | jumps out of `finally`, monitors, removal of jumps | the code does what the source means, within the declared depth |
| Expressions (`expr_ops.cpp`, `lookup.cpp`, `codegen/bytecode_expr.cpp`) | types and values of the nodes | checks, folding, concatenation, emitters | width of integers, order of effects, operands kept on the stack | the code has the value and the effects of the expression |
| Names (`expr_names.cpp`, `expr_lookup.cpp`, `expr_primary.cpp`, `symbol.cpp`) | environments, `this$0` fields, copies `val$x`, access methods | lookup of names and methods, class creation | members added to a class after its uses were resolved | a name means what the language says, and its code reaches it |
| Class files (`codegen/class.*`, `codegen/bytecode_init.cpp`) | constant pool, attributes, lengths | building, writing, reading, loading | lengths summed up before writing; signatures scanned by hand | a written file is read as the type it was made of; a cut file is refused |
| Sets and tables (`set.*`, `table.*`, `tuple.h`) | bit arrays, hash chains, cursors | union, insertion, iteration | bits beyond the size; rehashing | they are the sets they stand for |
| Scanner, parser (`parser/`, `stream.*`) | window, line table; parse stacks | tokens; `HeaderParse`, `BodyParse`, error repair | `\u` escapes, lookahead buffering | tokens are those of the text; actions run once, in order |
| Generics (`typeparam.*`, `paramtype.*`) | type arguments | substitution, bounds, inference | raw types, bridges | casts are where erasure needs them |
| Input, output, options, spelling (`system.cpp`, `zip.cpp`, `option.cpp`, `spell.*`, `api/`) | directories, files | reading, writing | time stamps | outside this project, except for what the others need |

How they interact: `Control` owns the sets and calls the others; a `Semantic`
(one per file) owns a file's environments and errors and calls back into
`Control::ProcessHeaders` and `GetFile`; `TypeSymbol`s belong to packages,
outlive their `Semantic`, and hold the bits and edges through which all passes
communicate; the sorts of `depend.cpp` work on these edges. A body goes through
checks, definite assignment and code one after the other, each leaving numbers
in the syntax tree that the next one relies on.

## 2. The modules

There are eight models. Each is a state machine of the code or of the way of one
piece of source through it; where the code computes a function, the module has
that function, and a second module says independently what the result should be.

| Modules | Model |
|---|---|
| `Compilation`, `TypeLife`, `MCCompilation`, `CompilationProofs` | the driver, what it promises each type, and proofs |
| `TypeHeaders`, `MCTypeHeaders`, `TypeHeadersProofs`, `TypeBatchesProofs`, `HierarchyProofs` | one outermost `ProcessHeaders`: imports, headers, closures, sorting, order of members |
| `Incremental`, `MCIncremental`, `IncrementalProofs` | option `++`, with the user and the directory |
| `JavaStatements`, `BodyChecks`, `Definite`, `StatementCode`, `CompileMethod`, `SourceRun`, `MCMethods` | a method body: checks, code, execution |
| `JavaExpressions`, `ExpressionChecks`, `ExpressionCode`, `CompileExpression`, `MCExpressions` | an expression: types, constants, code, execution |
| `Declarations`, `Members`, `JavaMembers`, `MCMembers` | members, inheritance, overriding, bridges |
| `Lookup`, `NestedClasses`, `JavaNames`, `MCNames` | names and calls in nested classes |
| `ClassFormat`, `ClassLoading`, `ClassGeneration`, `MCClassFiles` | a class into its file and back |
| `InputText`, `Tokens`, `Literals`, `LookupTables`, `SymbolTables`, `BitSets`, `IntegerSets`, `SymbolSets`, `MCFrontEnd`, `TablesAndSetsProofs` | what the others rest on, each part a state machine of its own: text, tokens, literals, tables, sets |

`Compilation` abstracts `TypeHeaders`: a call of `ProcessHeaders` is one step
there, which may read any set of files and leave their types in any order;
`TypeHeaders` looks inside that step and shows that it ends, and that each type
read enters the queue of bodies once (`EveryTypeOnce`), which is what the step of
`Compilation` assumes. `Incremental` abstracts both: a pass there is the names
that types mention, in any order. A body is a choice of what it mentions and
whether it fails in `Compilation`; `CompileMethod` and `NestedClasses` look
inside it, and take the tokens, literals, tables and sets for what the last group
shows that they are: the analysis of `Definite` uses sets, which `BitSets`
implements, and thrown exceptions are sets, which `SymbolSets` does. `StatementCode` and `ExpressionCode` share no state in the code but
the operand stack, whose depth at the start of a statement is 0.

Operators announced as mutants, or placed just before the definition they differ
from, are that definition with one plausible mistake; no specification uses
them. Each property of a passing run was seen to fail when its mutant takes the
place of the original.

### Compilation and TypeLife

A file is unread, has a `Semantic`, or was cleaned up; a type is pending,
waits in `needs_body_work`, is the current one, or is done. `inputs`, `inputSet`,
`semantic`, `bodyWork`, `next`, `current`, `toProcess` are the variables of the
code; `env`, `linked`, `freed` say which of the structures that `CleanUp` deletes
are still there; `bad`, `tokens` and `errors` are the three sources of a non-zero
exit code. What the source contains is a choice of each action: whether a file
parses, where errors are, which names a body mentions.

`TypeLife` says that a type is unseen, waits, is in its body, and is over, in
this order; that no two are in their bodies at once; and that each body that is
begun ends. `EachTypeOnce` is the refinement, with its fairness.

### TypeHeaders

The C++ call stack is the variable `stack`; a frame is a procedure, the type or
file it works on, and how far it is. The `state_stack` of a `Semantic` is the
subsequence of frames that push an environment. Nested calls happen where the
code makes them: a lookup names the next call on the way to a name (tables of
the enclosing types, the file, tables of the qualifiers), and a supertype's
header is entered after the clause is marked. The loops of `ProcessMembers` are
actions of their own. Sets are visited in any order (the code's order is that of
addresses and hash values).

The source is data. A program gives the file, the enclosing type, and the
clauses and member mentions of each type; names are canonical and well kinded;
`java.lang` is left out. `above` is the hierarchy by the language's definition
(JLS 8.1.4), computed from the text and never from the compiler's state; the
properties compare the two. `WellFormed` says what such a program is;
`ProgramsAssumption` that there are no others.

- `HierarchyExact`: what is recorded, and what a closure holds, is in the source;
  once a header is done no clause is lost, and what it names, with the types
  around it, is in the closure, unless a cycle is to blame. That the closure
  holds all that is above the type is false, in legal programs too: for `class A extends B`, a file `B.java` that
  imports `C.M`, and `class C extends A { class M {} }`, the header of C ends
  while that of A is in progress.
- `CircularOnCycle`: only types on a cycle of the source are reported.
- `HierarchyAcyclic`: within the bounds of the run nothing that walks upwards can
  loop; with member types it is false in general (`KnotAcyclic`), without them it
  is proved.
- `HierarchyFrozen`: nothing changes once members were computed from it.
- `MembersAfterSupers`, `EveryTypeOnce`, `Termination`.

### Incremental

A name n stands for `n.java`, `n.class`, the FileSymbol n and the top-level type
n, in one directory and the unnamed package. The user is part of the model: a
source may be saved at any moment, also between two steps of a pass; it may
appear or disappear while the compiler waits. `entry` and `classEntry` are the
directory as `RereadDirectories` last saw it; `kind`, `stamp`, `packaged`, `lex`,
`fileTypes` are fields of the FileSymbol. `Enter` is `FindMoreRecentInputFiles`,
`Round` one turn of `ComputeRecompilationSet`'s loop, `RemoveTrashedTypes` that
procedure and the preparations in `Control`; `Read` is `ProcessHeaders` with the
declaration of the types; `Missing`, `ReadClassFile` and `ReadJavaFile` are the
branches of `ReadType`; `AddDependence` ends a lookup; `FinishPass` writes the
class files. When the code would follow a file's list to a deleted type, or an
assertion fails, the model stops in phase `freed` or `asserted`; no run or proof
assumes that it does not.

History variables remember, for the properties only, which sources were written
and not scanned since (`edited`), what of the names a file mentioned was good
when it was looked up (`firm`), and which files were out of date at the last
Enter (`owed`).

- `KeepsUp`: whoever depends, through files that were good, on a source that was
  written or removed is compiled again in the next pass, even if the write fell
  into the middle of a pass.
- `EdgesAreLive`: dependences are recorded on both sides and never outlive a type.
- `AllTypesInReach`: at the prompt each type can be found by the next Enter, and
  none was declared without its source being read.
- `PassEnds`: the rounds and the pass end, on cyclic dependences too.

### A method: CompileMethod

`JavaStatements` has the syntax trees and their meaning, as the set of all ways a
run may go, one for every answer to a condition the compiler cannot know, a call,
a value switched on or a collection. `BodyChecks` is the visitor of `body.cpp`,
`Definite` that of `definite.cpp`, `StatementCode` that of
`codegen/bytecode_stmt.cpp`, each a function from the statement and the stacks
of the code to both afterwards. `CompileMethod` has the machine that runs the code,
one action per pass and then one per answer the running code waits for, and `SourceRun` is the abstract specification: answers from outside, and
events of which the source is the cause. `CodeMeansSource` is the refinement.
A pc counts instructions, a variable is its slot.

- `CodeIsComplete`: no assertion of the code generator fails, all labels are
  defined and all ranges closed, and the operand stack stays within the declared
  depth.
- `AssignmentsAreKnown`: an accepted method never reads an unset variable, nor
  sets a final twice; a method is not refused for a variable that is always
  set. It leaves out three shapes in which the code accepts too much: a jump to a
  target in a switch (`TargetInSwitch`, also for reads), a final assigned in a try
  with a finally (`FinalMeetsFinally`, also for reads) and a loop in a loop
  (`LoopInLoop`, for finals set twice). The families contain all of them, and the
  property fails when any of these conditions is dropped. Its second half leaves
  out methods with a finally (`HasFinally`), of which the code refuses more than it
  has to.
- `ExceptionsDeclared`: what can escape is what is declared. A union or rethrown
  catch parameter is left out (`CatchesLoosely`).
- `EndsAreKnown`: the end is reachable exactly when the compiler says so.
- `CodeMeansSource`: events and answers of the code are those of the source. A run
  that reads an unset variable has no meaning and may show anything (the machine, which
  checks what a verifier does, then stops); `AssignmentsAreKnown` says which accepted
  methods have no such run.

### An expression: CompileExpression

`ExpressionChecks` is the semantic pass (types, casts, constants, cautions),
`ExpressionCode` the emitters for a value, for an effect and for a test,
`CompileExpression` has the virtual machine with a verifier's faults;
`JavaExpressions` is the language: types, constants and evaluation.
The integer types have the widths `Bits`, 2, 4, 4, 8 and 16 in the run, so that
every overflow happens among few values; the model is of `-source 1.4`.

- `TypedAsSpecified`: an expression is accepted or refused, typed and folded as
  the language says; `OverflowIsCautioned`: the compiler warns exactly when a
  constant overflows; `CodeMeansExpression`: value, effects in order, and
  exceptions are those of the source, and a verifier accepts the code.

Left out, because the code is known to depart from the language there: a
conditional of a primitive and a reference, of a boolean and a number, or of a
byte and a short; a user's cast inside a conditional that is assigned; constant
concatenations of null Strings under casts; a parenthesised right operand of a
concatenation whose left one is null or unknown (`LostOperands` for the worst
case); a parenthesised assignment target; `==` of Strings that are not constant;
assignment to a constant field. Downcasts that fail are left out too.

### Members

`Declarations` is `modifier.cpp` and the insertion of declared members;
`Members` the expanded tables, the checks of one method against another, and the
bridges. Its actions ask for the tables of a type, at any moment, as bodies,
imports and qualified names do. `JavaMembers` is chapter 8 of the language
specification and method selection of the virtual machine.

- `TablesAreMembers`: the table of each correct type holds its members, whoever
  asked first; `JudgedAsSpecified`: an error exactly if the program is illegal;
  `DispatchMeansSource`: a virtual call runs the overriding method, through
  bridges or not, and no class has two methods of one signature.

The families leave out the programs in which the code departs from the
specification; section 4 names them.

### Names: NestedClasses

A program is a set of nested, local and anonymous classes in two packages, their
members, and a list of uses: names, calls, creations, constructor calls.
`Lookup` and the first part of `NestedClasses` resolve a use; the rest is the state
machine, in the order of the code, that adds `this$0` fields, copies of local variables and
access methods while bodies are processed, and completes the creations that
waited. `JavaNames` is the language: which declaration a name means, from which
instance.

- `JudgedAsJava`: what is accepted is what the language accepts, and no assertion
  fails; `CodeMeansSource`: at the end, each use reaches its declaration from the
  right instance through fields, copies and access methods that exist, and each
  constructor is passed what it takes.

What is left out is in section 4, too.

### A class file: ClassGeneration

From a declaration, `ClassGeneration` builds constants, members and attributes
in the order of `bytecode_init.cpp`, with code that is any short sequence of the
events that touch attributes; `ClassFormat` turns them into bytes, with the
lengths summed up as the code sums them, and reads the bytes, all or the first n;
`ClassLoading` makes the type, with its signatures.

- `WholeFilesAreRead`: a file is read without a complaint if and only if all of
  it was written; `NestedTypesAreListed`: InnerClasses holds the nested types
  used, outer ones first; `LoadedAsDeclared`: flags, supertypes, members and
  generic signatures are those declared. Annotation values that are class
  literals or enumeration constants are left out (their indices are written one
  after the other and read as one).

### Text, tokens, literals, tables and sets

`InputText` is a file's way into the buffer: with encodings one action per state
of `ProcessInputUnicode`, which looks at a character once or, in two cases, twice;
without, the loop of `ProcessInputAscii`. `Tokens` is the scanner over that
buffer, one action per routine that `classify_token` chooses, with the brace
stack, deprecation, messages and line table, over several files by one Scanner.
`Literals` is what becomes of a literal's text, the minus sign included.
`LookupTables` is the one algorithm of the ten classes of `lookup.h`: base,
chains, a list of primes; a search is a walk along a chain, and a rehash moves
entry by entry. `SymbolTables` is `SymbolTable`, with its pools, overloads,
anonymous and deleted types. `BitSets` is `BitSet`, words and all, from
constructor to destructor, and `IntegerSets` what each of its members promises (`call` says
which one, so that no member is excused by what another may do); `SymbolSets` has the buckets and the cursor, and
the loop of `ProcessMethodName` that removes exceptions while it goes.

- `TextIsTranslated`: the buffer is the text with escapes, line ends and the final
  ^Z replaced as chapter 3 of the language says; an illegal escape is reported.
- `TokensAreJava`: kinds, extents, deprecation, matching braces and lines are those
  of the longest pieces of the text that are tokens, white space or comments.
- `LiteralsMeanJava`: numbers, characters and strings have their values, or are
  refused.
- `FindsLatest`, `SymbolsAreFound`: a look-up finds the latest entry, whatever was
  entered, rehashed or deleted in between.
- `BitsAreSets`: the refinement of `IntegerSets`; `SymbolSetsAreSets`: contents,
  comparisons and loops are those of sets, and the loop that prunes leaves what
  it should.

## 3. What is checked

| Run | States | Shows |
|---|---|---|
| `Headers` | 1,190,000 | hierarchies of three interfaces and of nested classes in one file; several files read from the middle of each other: `HierarchyExact`, cycles, order, batches, freezing, termination |
| `Driver` | 870,000 | two files of three types on the command line and one that is only found by a name, both values of `-nocleanup`: waiting bodies stay intact, all is cleaned up, exit code, refinement of `TypeLife`, liveness |
| `Incremental` | 510,000 | three sources and four types, two initial directories, three writes by the user |
| `Methods` | 390,000 | 64,000 methods: all statements in and beside each other, with jumps before and behind assignments, exceptions, blank finals read afterwards or set again: checks, code, execution |
| `Expressions` | 760,000 | 38,000 expressions of 26 families, from three memories |
| `Members` | 280,000 | 18,500 programs of 15 families |
| `Names` | 180,000 | 55,000 programs of 7 families |
| `ClassFiles` | 115,000 | 1,551 declarations of 11 families; files of 146 of them cut at every byte |
| `FrontEnd` | 860,000 | texts of up to four pieces, some 9,000 sources for the scanner, literals of two widths, tables of up to five entries and their rehashes, sets that are made, resized and destroyed |
| `KnotAcyclic`, `LostOperands`, `NegatedLiterals` | | violations: section 4 |

Bounds. Headers: three types are what a cycle through a third type, and a type
nested in a type that is above another one, need. Two files can be read from the
middle of each other, a third is read when both are in progress. Driver: one file
with two types (clean-up only after the second) and one that may be read from a
body before its turn on the command line comes, a file that no command line names
(the final clean-up has to find it). Incremental: the longest
chain is three sources and may be a cycle; one source may declare a second type;
`MaxWrites` = 3 is enough for "delete, create, change another one", for a write
between the scan and the end of a pass followed by another, and for an error made
and corrected. Methods: a run has at most `MaxEvents` = 30 events and
`MaxAnswers` = 6 answers, enough to go twice around each of two loops;
`MaxSilent` = 60 instructions without an event tell a loop that is stuck.
Expressions: the widths above, arrays of two elements. ClassFiles: at most three
code events per method, and indices of two bytes end at `MaxU2` = 40, so that the
limits of the format are reached. FrontEnd: the sizes of the tables are 1, 2 and
3 slots, so that five entries go through all of them, and share a slot in one
size but not in another; the set that is pruned has a third name behind the one
that goes; words of bit sets have two
bits and sets three, one more than fits; ints have 8 bits and longs 16, so that
all limits are met; four pieces of text are an escape, what it may be mistaken
for, and both neighbours. The parts do not interact, so a behaviour is one of one
part. Members and Names: two packages and up to four
types and members, what each rule of the code distinguishes.

Fairness. There is one thread, which does not stop while there is work:
`WF_vars(Next)` in TypeHeaders and Compilation, `WF_vars(Compiler)` in
Incremental, where the user owes nothing. No single action needs fairness of its
own: reporting another error, or looking at another constant, makes progress in a
finite set. The other models have no liveness property but termination of the
machine, which their bounds make a safety property.

Deadlock is checked where the end of a run of the compiler is an explicit
stuttering action (`Finished`, `Stopped`); the runs over programs that are
compiled and executed to their end have `CHECK_DEADLOCK FALSE`.

## 4. What the code does otherwise

Three statements of the repository are contradicted by what the code does, and
have a run whose trace shows how. All were seen with the compiler too.

| Run | Statement | What happens |
|---|---|---|
| `KnotAcyclic` | `decl.cpp:685`, `778`: a cycle is broken and reported | three interfaces and two member interfaces whose headers are entered from each other leave a cycle that no closure contains; `AddInheritedTypes` then recurses without end |
| `LostOperands` | `lookup.cpp:1591`: constants are folded where no side effects get in the way | `"x" + (b + "y")` is compiled to `"xy"` |
| `NegatedLiterals` | `docs/drafts/2025-01-23-java7-stage1-complete.md:28`: all numeric bases are supported; `README.md:163` | under a minus sign a literal is read again: a binary one as octal, an underscore as a digit, and what is too large is accepted: `1_000 + -1_0` is 430 |

The following were met while modelling and seen with the compiler. The code of
the models has them; the properties are stated, or the families built, for the
programs beside them. Comments in the modules refer to these names.

| Name | Code | What happens |
|---|---|---|
| `Reabstracted` | `decl.cpp:2669`–`2710` | a method declared abstract again below its body counts as implemented, as does an abstract one for which only a foreign default method is there |
| `Mismatched` | `decl.cpp:4387`–`4397` | a class inherits a method and an interface one of another result type: accepted |
| `Hidden` | `decl.cpp:1795`–`1850` | no bridge for a method that only a table entered again, for another package, shows |
| `Overloaded` | `decl.cpp:1630`–`1664` | of methods `m(Object)` and `m(String)` of different types, one is taken for an override or implementation of the other |
| `Returned` | `decl.cpp:1690`–`1708` | a bridge is listed at the inherited method and not made again below |
| `EnumWords` | `modifier.cpp:188`, `290`; `decl.cpp:2717` | `final` and `abstract` enumerations are accepted, as are abstract methods that no constant implements |
| `EnumConstructors` | `decl.cpp:3965` | constructors of an enumeration are compared with the two added parameters counted on one side only |
| `Circular` | `decl.cpp:2135` | two files that import each other's inherited member types fail an assertion |
| interface methods, three words | `modifier.cpp:411`–`423`, `113`–`147` | an interface method may be static without a body, or have a body without `default`; `final native strictfp` is accepted |
| `OnTheFly` | `expr_names.cpp:475`–`487` | a `this$0` field inserted on the fly, for a class in the arguments of a constructor call, is the wrong one |
| `StaticOverlooked` | `symbol.cpp:2236`–`2239` | the search for an enclosing instance does not stop at static code of a subclass |
| `HeirPassed` | `expr_primary.cpp:3455`–`3468` | a private inner class created in a subclass inside its class gets the subclass's instance |
| `UnboxedWide` | `expr_lookup.cpp` | an `Integer` is not unboxed and widened for a `long` |
| `ArrayAsFixed` | `expr_lookup.cpp:1108` | a method of variable arity called with an array does not count among those of fixed arity |
| `TwoSpreads` | `expr_lookup.cpp:1108` | of several methods of variable arity that apply, the last is taken |
| `SpreadPassed` | `expr_ops.cpp:1476`–`1479` | arguments of variable arity are passed unpacked to constructors and access methods |
| `ImportedLoosely` | `expr_lookup.cpp:1595` | a single static import hides those on demand only for its own number of parameters |
| `TargetInSwitch` | `body.cpp:1549`, `definite.cpp:1338` | the pair of a jump to a loop, label or switch inside a switch is noted at a level nobody reads: `int x; switch (v) { default: L: { if (c) break L; x = 1; } } return x;` is accepted |
| `FinalMeetsFinally` | `definite.cpp:1545`, `1338` | a final assigned anywhere in a try with a finally counts as set after it, and a jump out of the try does not know what the finally assigns: `final int f; try { if (c) f = 1; } finally { } return f;` and `L: { try { if (c) break L; } finally { f = 1; } return 0; } f = 8;` are accepted |
| `LoopInLoop` | `definite.cpp:1001` | what a loop in a loop assigns is not noted for the outer one |
| `CatchesLoosely` | `body.cpp:2155` | a union or rethrown catch parameter throws what its declared types do |
| `OfLeast` | `expr_ops.cpp:33` | the checks for overflow negate the least number |
| casts and conditionals | `expr_ops.cpp:612`, `3049` | conditionals of a primitive and a reference, a boolean and a number, or a byte and a short get a wrong type; casts in branches are stripped |
| assertions | `expr_names.cpp:1168`, `symbol.cpp:2731` | `T.super.x`, `T.super.m()` and a protected static member of a nested class abort the compiler |
| inlined finally | `codegen/bytecode_stmt.cpp:1592`, `1993` | with `-target 1.7` the try statement is registered after its block was emitted, so that a return in it is a `jsr` to a label that is never defined; the run takes the older target |
| `deprecated` | `parser/scanner.cpp:128`, `300` | a file that ends with a deprecated tag makes the first class of the next file deprecated; an empty comment `/**/` after the tag loses it |
| `default` and a colon | `parser/scanner.cpp:975` | with a comment between them, `default :` is taken for the modifier |
| digits | `parser/scanner.cpp:1069` | `0123b01`, `012x3`, `0_x1F`, `1_`, `0x_1` and `0b_` are accepted |
| `PrunedExactly` | `expr_primary.cpp:720` | of two exceptions with one simple name, one is skipped when the other is removed |
| resources | `codegen/bytecode_stmt.cpp:1480` | a first resource stays open when opening the second throws; the family has one resource per try |
| annotations | `codegen/bytecode_init.cpp:848` | class literals and enumeration constants are written in one form and read in another; no such values |
| deleted types | `incrmnt.cpp:49` | the list of a deleted source is followed to freed types; in the model, phase `freed` |
| `Reset` | `incrmnt.cpp:232` | a dependent read from a class file only is marked as a source and not found; in the model, an error |
| pools | `control.cpp:1545`, `519` | the pool of a file with errors is deleted, as they are counted too late; a cleaned-up file is taken for an unread one; both in the model |
| `processing_type` | `decl.cpp:534` | reset by a nested header; no type parameters in the model |

`Deferred` in `MCNames` is the shape of `OnTheFly`; `HeaderMaySee` only keeps a
family to programs whose class headers may name what they name.

## 5. What is proved

Every safety invariant of the three state machines of the whole compiler
(`Compilation`, `TypeHeaders`, `Incremental`) that a run checks is a theorem;
`HierarchyAcyclic`, which is false in general, for programs without member types.
So are those of the hash tables, and that bit sets implement sets. The type
invariants are proved and not among the properties of the runs.
The theorems are for all values of the constants that the named assumptions allow.

| Module | Theorems | Assumptions |
|---|---|---|
| `CompilationProofs` | `TypeCorrect`, `BodiesStayLive`, `NothingLeftBehind`, `ZeroMeansCompiled`, `NocleanupIsSafe`, `DriverImplementsTypeLife` | `CompilationAssumption`: the kinds of the constants, finitely many types |
| `TypeHeadersProofs` | `HeadersTyped`, `ReportedCircularRightly`, `HierarchyIsExact` | `NoTypeAssumption`, `ProgramsAssumption`: the programs are `WellFormed` |
| `TypeBatchesProofs` | `SupersComeFirst`, `NoTypeTwiceOrLeftOut`, `DeclaredStaysFrozen` | the same |
| `HierarchyProofs` | `FlatHierarchyIsAcyclic` (`HierarchyAcyclic`) | the same, and `Flat` in the theorem: no member types, a class extends at most one class, an interface none |
| `IncrementalProofs` | `IncrementalTyped`, `NoDanglingDependence`, `NextEnterFindsAll` | `IncrementalAssumption`: what texts declare and use; a type without a source of its own may be declared by several |
| the same | `ChangesAreFollowed` (`KeepsUp`) | the same, and `OneDeclaration`, a hypothesis of the theorem: no two sources declare the same type |
| `TablesAndSetsProofs` | `AnswersAreLatest` (`FindsLatest`), `TextsAreUnique` (`OneEntryEach`) | `TablesAssumption`: hash values are natural, the list of primes is one of positive numbers |
| the same | `SetsStayWithin` (`WithinStorage`), `BitsImplementSets` (`BitsAreSets`) | `BitsAssumption`: words have at least one bit |

**The driver** (`Inductive`). The invariant is `TypeOK` and five parts.
`Position`: the current body is the one at `next`. `Distinct`: no type waits
twice. `Live`: exactly the waiting types are in `toProcess`, and all of them are
intact and belong to a Semantic. `Cleaned`: what is not cleaned up yet belongs
to a Semantic that the final loop will find. `Accounted`: a declared type has its
class file, still waits, or a fault of its file is on record. `BodiesAreLive`
alone is not inductive: that the clean-up of one file does not hurt another one's
types rests on `toProcess` being the waiting types, and that a type does not
return to the queue on `Distinct` and on `declared`. The refinement of `TypeLife`
is proved step by step, without its fairness.

**Headers** (`HeadersInvariant`). The properties speak of types; the steps of the
stack. `FramesRefer` says in which stage the type of each frame is, `OneHeader`
that a type has one header frame at most, `ClausesRecorded` that clauses before
the one at work are recorded or cut, `Hierarchy` that a closure holds only what
is above the type in the source, and each recorded supertype with the types around
it, `NestedKnown` that member types are known when their
owner is. Every action but eight leaves the hierarchy alone and only pushes,
pops or advances a frame that is not a header (`OtherProcedures`,
`OthersKeepHeaders`); the eight have a lemma each. `CircularOnCycle` follows from
`Hierarchy` and `WellFormed`: what is in a closure is above the type by the
definition of the language.

**Batches** (`BatchesInvariant`). `Batches`: the files read are listed once and
their types are queued or have gone on. `Queues`, `Sorting`, `Sorted`: the sort
collects what is left of one batch, emits a type after the ones above it that are
in the batch, and never emits one twice. `Shape`: what can be on the stack in
each phase. `Headed`: a type in the queue has had its header. `Members`: a type
whose members are being declared is on the stack below all it calls, and what it
has inherited from is there. `HierarchyFrozen` is an action property: from
`Headed` no step of a header is about a type that is declared.

**Cycles** (`ChainsInvariant`). A header compares its type with the closure it has
when it ends, and copies closures of headers that have not ended; why is no cycle
missed? `Chained`: without member types the headers in progress are the bottom of
the stack, each entered by the clause the one below is at. `Awaited`: when a type
whose header has ended names one in progress, the latter is in the closure of a
header at or above its own, or in the one about to be copied there, so that it
comes down to its own closure header by header. `Grounded` is `HierarchyAcyclic`
for the types that are not in progress; when a header ends, a cycle through its
type can only be one that `Awaited` has put into its closure, and is cut. The one
closure that is not copied is that of a superclass found circular meanwhile; that
nothing is lost with it takes `Kinds`, `OneChain` and `ClosedChain`: the classes
above a class are a chain, which has at most one member in progress, and none if it
is closed. Member types break `Chained`: headers of enclosing types are entered from the
lookup of a clause, and those of member types after their owner's; no caller copies
their closures, and that is the counterexample of `KnotAcyclic`.

**Dependences** (`RecordsInvariant`). `EdgesAreLive` and `AllTypesInReach` are
about the prompt; what has to be kept in between is `TrashClosed`, that the types
condemned so far are closed under dependents and hold all those of the files
looked at; `TypesListed`, that each type is listed by its file, or waits for it;
and `Waiting`, that a type declared in advance is in a file that will be read.

**Recompilation** (`OwedInvariant`). `KeepsUp` compares what a file was compiled
from (`firm`, a relation between files that no variable of the compiler holds)
with the recorded dependences between types. `FirmRecorded` says that each pair
of the former is led to by one of the latter, `OwnFile` that a type is listed by
the file it was declared in, `Times` that comparing stamps finds what was written
since. `OwedFound` is the heart: while rounds go on, whatever is out of date
leads along `firm` to a file that was looked at. When they end, the candidates
that were not looked at are closed under `firm` (`FirmCandidates`), so what is
out of date is among those looked at, and will be read. `OneDeclaration` is
needed: with S declared in A.java and in B.java, TLC shows a file that depends on
S through A and is not compiled again when A is written, as S is the type of B.

**Tables** (`TablesInvariant`). `FindsLatest` is about an answer; between the
question and the answer a walk is at some entry, and between two questions the
table may have been rehashed in as many steps as it has entries. `Linked` is what
the chains hold: all entries, or those that a rehash has moved. `Heads` says that
a slot of the base has the greatest of its entries, `Links` that each `next` has
the greatest one below; so no chain has to be defined by recursion, or followed
by induction. `Searching` says that no entry above the one a search is at
has the text sought, so that the first one met is the latest; `Answered` keeps
the answer true after it. The sizes come from `Primes` as they are, ascending or
not, and may have one slot.

**Bit sets** (`BitsImplementSets`). Under `elements`, which counts a bit only if it
is below the size, each operation is that of `IntegerSets`. What is beyond the
size may be anything (a universe sets it, a shrunk set keeps it), so that the steps
rest on arithmetic, for every width of a word: an operation reaches bit i if i is
below the number of words it looks at times the width. `RoomForAll` says that the
storage suffices for every size a set has had, which is why `Resize` may leave it
where it is.

Only model-checked, and why:

- liveness (`Termination`, `PassEnds`, `EndsAndReports`, the fairness of
  `TypeLife`): fairness and ENABLED are beyond the prover;
- `HierarchyAcyclic` with member types: false for programs larger than those of the
  run;
- everything about methods, expressions, names and class files: these models
  compute with recursive operators over trees, bytes and nested classes;
- everything about text, tokens, literals and symbol tables: folds, recursive
  functions over sequences, and tables whose slots are computed from pools;
- symbol sets: `SymbolSetsAreSets` counts what a fold over the names counts;
- everything about members: the tables are folds, about which nothing is proved
  without induction over data, and the properties hold outside named families.

## 6. What is not modelled

Type parameters are left out of all models but the signatures in class files;
access checks, on-demand and static imports, and shadowed or ambiguous names are
in the model of names and not in TypeHeaders; start-up of the system types is out
of Compilation; packages, several directories, archives, the real file system's
clock (stamps of whole seconds) and files that vanish while they are read out of
Incremental; floating point, boxing and `instanceof` out of expressions; bytes of
instructions, and so long branches and the choice of stack map frames, out of the
code. Initializers are not analysed for definite assignment. The parse tables and
actions are generated from `grammar/java.g`. Archives, options, spelling and the
embedding API hold no state that a property could be about. The reader of a Code
attribute does not initialise `attr_local_types` (`codegen/class.cpp:650`), which it
looks at when it meets a `LocalVariableTypeTable` (703) and may so call the first one
a second one; the compiler writes no such table, the files of the run have none, and
the model takes the field for empty. The segments of `Tuple`,
code pages, columns and error repair are not modelled.

## 7. Plan

Done: the driver, headers, incremental mode, methods, expressions, members,
names, class files, and the text, tokens, literals, tables and sets under them;
the proofs of the first three, of the hash tables and of bit sets. Left:

1. Proofs: that a step of `Members` leaves the tables it does not compute alone,
   and that tables computed are final; that loops over a `SymbolSet` without
   removals meet each element once.
2. `TypeOrder`: `ConstructorCycleChecker` and `ProcessSubtypes` of `depend.cpp`
   against strongly connected components; it replaces the arbitrary order of
   TypeHeaders.
3. The state, location and parse stacks of the parser with its lookahead buffer.
