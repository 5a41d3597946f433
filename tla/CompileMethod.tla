---------------------------- MODULE CompileMethod ---------------------------
(***************************************************************************)
(* The Java virtual machine, as far as the code of StatementCode uses it.  *)
(* A value is [t, v, n]: "val" a value v that counts as the truth value n, *)
(* "ref" the object v, "int" a number n, "len" the length of an array of   *)
(* which n elements are known to exist, "addr" the return address n.       *)
(*                                                                         *)
(* A machine goes on until it needs an answer from outside, has returned   *)
(* or thrown out of the method, or has failed: a value of the wrong type,  *)
(* an operand that is not there, a local variable that was not set, a      *)
(* monitor that is not held, a pc outside the code.  A verifier would have *)
(* refused such code.                                                      *)
(***************************************************************************)
EXTENDS StatementCode
LOCAL INSTANCE SequencesExt

CONSTANT MaxSilent       \* instructions between two answers

Val(v, n) == [t |-> "val", v |-> v, n |-> n]
Ref(v) == [t |-> "ref", v |-> v, n |-> 0]
Num(n) == [t |-> "int", v |-> "", n |-> n]
Length(n) == [t |-> "len", v |-> "", n |-> n]
Address(n) == [t |-> "addr", v |-> "", n |-> n]
Nothing == [t |-> "unset", v |-> "", n |-> 0]

Boot(code) ==
  [pc |-> 1, stack |-> <<>>, slots |-> [i \in 0 .. code.locals - 1 |-> Nothing], ev |-> <<>>,
   known |-> 0, locks |-> 0, deep |-> 0, end |-> "", what |-> ""]

Failed(vm, why) == [vm EXCEPT !.end = "fault", !.what = why]
Ended(vm, how, what) ==
  IF how = "return" /\ vm.locks # 0 THEN Failed(vm, "locked") ELSE [vm EXCEPT !.end = how, !.what = what]

Peek(vm, k) == vm.stack[Len(vm.stack) + 1 - k]
Shrunk(vm, k) == [vm EXCEPT !.stack = SubSeq(@, 1, Len(@) - k)]
Next1(vm) == [vm EXCEPT !.pc = @ + 1]
\* deep is the most the operand stack has held.
Stacked(vm, stack) == [vm EXCEPT !.stack = stack, !.deep = Larger(@, Len(stack))]
Grow(vm, x) == Next1(Stacked(vm, Append(vm.stack, x)))
Event(vm, kind, what) == [vm EXCEPT !.ev = Append(@, <<kind, what>>)]
Jump(vm, instr, key) == [vm EXCEPT !.pc = instr.to[key]]

\* The exception goes to the first entry of the table that covers the pc.
Raise(vm, code, c) ==
  LET covers == {i \in DOMAIN code.table :
                   /\ code.table[i].start =< vm.pc /\ vm.pc < code.table[i].end
                   /\ \/ code.table[i].type = "any"
                      \/ IsSubclass(c, code.table[i].type)}
  IN  IF covers = {} THEN Ended(vm, "throw", c)
      ELSE [Stacked(vm, <<Ref(c)>>) EXCEPT
             !.pc = code.table[CHOOSE i \in covers : \A j \in covers : i =< j].handler]

\* The operands an instruction pops, by type; the last one is on top.
Operands(instr) ==
  CASE instr.op \in {"store", "dup", "pop", "use", "vreturn"} -> <<"any">>
    [] instr.op \in {"test", "switch"} -> <<"val">>
    [] instr.op \in {"ifeq", "ifne"} -> <<"truth">>
    [] instr.op \in {"ifnull", "ifnonnull", "athrow", "close", "monitorenter", "monitorexit",
                     "hasnext", "next", "arraylength"} -> <<"ref">>
    [] instr.op = "swap" -> <<"any", "any">>
    [] instr.op = "suppress" -> <<"ref", "ref">>
    [] instr.op = "dup_x1" -> <<"any", "any">>
    [] instr.op = "icmpgt" -> <<"int", "len", "int">>
    [] instr.op = "aload" -> <<"ref", "int">>
    [] instr.op = "icmpne" -> <<"val", "val">>
    [] OTHER -> <<>>

Fits(x, type) ==
  CASE type = "any" -> TRUE
    [] type = "truth" -> x.t \in {"val", "len"}
    [] OTHER -> x.t = type

TypeSafe(vm, code) ==
  vm.pc \in DOMAIN code.code /\
  LET instr == code.code[vm.pc]
      types == Operands(instr)
  IN  /\ Len(types) =< Len(vm.stack)
      /\ \A k \in DOMAIN types : Fits(vm.stack[Len(vm.stack) - Len(types) + k], types[k])
      /\ instr.op \in {"load", "iinc", "ret"} =>
           /\ instr.n \in DOMAIN vm.slots /\ vm.slots[instr.n].t # "unset"
           /\ (instr.op = "ret") = (vm.slots[instr.n].t = "addr")
      /\ instr.op = "store" => instr.n \in DOMAIN vm.slots
      /\ instr.op \in {"goto", "jsr"} => "" \in DOMAIN instr.to

\* The answers the next instruction may get.
Answers(vm, code) ==
  LET instr == code.code[vm.pc] IN
    CASE instr.op \in {"cond", "test", "hasnext", "disabled"} -> {"true", "false"}
      [] instr.op = "ifeq" /\ Peek(vm, 1).t = "len" -> {"true", "false"}
      [] instr.op = "icmpgt" -> {"true", "false"}
      [] instr.op = "call" -> {"ok"} \cup instr.v
      [] instr.op = "value" -> instr.v \cup {"default"}
      [] instr.op = "open" -> {"ok", "null", "RuntimeException"}
      [] instr.op = "close" -> {"ok", "RuntimeException"}
      [] OTHER -> {}

-----------------------------------------------------------------------------
\* An instruction that asks, with its answer.
Answered(vm, code, a) ==
  LET instr == code.code[vm.pc]
      truth == IF a = "true" THEN 1 ELSE 0
  IN  CASE instr.op \in {"cond", "disabled"} -> Grow(vm, Val(instr.v, truth))
        [] instr.op = "test" ->
             Event(Grow(Shrunk(vm, 1), Val("", truth)), "use", Peek(vm, 1).v)
        [] instr.op = "hasnext" -> Grow(Shrunk(vm, 1), Val("", truth))
        [] instr.op = "ifeq" ->
             IF a = "true" THEN [Next1(Shrunk(vm, 1)) EXCEPT !.known = 1]
             ELSE Jump(Shrunk(vm, 1), instr, "")
        [] instr.op = "icmpgt" ->
             LET left == [Shrunk(vm, 2) EXCEPT !.known = Peek(vm, 1).n + 1] IN
               IF Peek(vm, 3).n # Peek(vm, 1).n THEN Failed(vm, "index")
               ELSE IF a = "true" THEN Jump(left, instr, "") ELSE Next1(left)
        [] instr.op = "call" -> IF a = "ok" THEN Next1(vm) ELSE Raise(vm, code, a)
        [] instr.op = "value" -> Grow(vm, Val(a, 0))
        [] instr.op = "open" ->
             IF a = "RuntimeException" THEN Raise(vm, code, a)
             ELSE Grow(vm, Ref(IF a = "ok" THEN instr.v ELSE "null"))
        [] instr.op = "close" ->
             LET closed == Event(Shrunk(vm, 1), "close", Peek(vm, 1).v) IN
               IF a = "ok" THEN Next1(closed) ELSE Raise(closed, code, a)

\* An instruction that does not ask.
Step(vm, code) ==
  LET instr == code.code[vm.pc]
      x == Peek(vm, 1)
      y == Peek(vm, 2)
  IN  CASE instr.op = "const" -> Grow(vm, Val(instr.v, 0))
        [] instr.op = "zero" -> Grow(vm, Num(0))
        [] instr.op = "null" -> Grow(vm, Ref("null"))
        [] instr.op \in {"lock", "array", "iterator"} -> Grow(vm, Ref(instr.op))
        [] instr.op = "new" -> Grow(vm, Ref(instr.v))
        [] instr.op = "load" -> Grow(vm, vm.slots[instr.n])
        [] instr.op = "store" -> Next1([Shrunk(vm, 1) EXCEPT !.slots[instr.n] = x])
        [] instr.op = "iinc" ->
             IF vm.slots[instr.n].t = "int" THEN Next1([vm EXCEPT !.slots[instr.n].n = @ + 1])
             ELSE Event(Next1([vm EXCEPT !.slots[instr.n] = Val(instr.v, 0)]),
                        "use", vm.slots[instr.n].v)
        [] instr.op = "use" -> Event(Next1(Shrunk(vm, 1)), "use", x.v)
        [] instr.op = "pop" -> Next1(Shrunk(vm, 1))
        [] instr.op = "dup" -> Grow(vm, x)
        [] instr.op = "swap" -> Grow(Grow(Shrunk([vm EXCEPT !.pc = @ - 1], 2), x), y)
        [] instr.op = "dup_x1" -> Next1(Stacked(vm, SubSeq(vm.stack, 1, Len(vm.stack) - 2) \o <<x, y, x>>))
        [] instr.op = "arraylength" -> Grow(Shrunk(vm, 1), Length(0))
        [] instr.op = "aload" ->
             IF x.n + 1 # vm.known THEN Failed(vm, "index")
             ELSE Grow(Shrunk(vm, 2), Val(instr.v, 0))
        [] instr.op = "next" -> Grow(Shrunk(vm, 1), Val(instr.v, 0))
        [] instr.op = "goto" -> Jump(vm, instr, "")
        [] instr.op = "ifne" ->
             IF x.n # 0 THEN Jump(Shrunk(vm, 1), instr, "") ELSE Next1(Shrunk(vm, 1))
        [] instr.op = "ifeq" ->
             IF x.n = 0 THEN Jump(Shrunk(vm, 1), instr, "") ELSE Next1(Shrunk(vm, 1))
        [] instr.op \in {"ifnull", "ifnonnull"} ->
             IF (x.v = "null") = (instr.op = "ifnull") THEN Jump(Shrunk(vm, 1), instr, "")
             ELSE Next1(Shrunk(vm, 1))
        [] instr.op = "icmpne" ->
             IF x.v # y.v THEN Jump(Shrunk(vm, 2), instr, "") ELSE Next1(Shrunk(vm, 2))
        [] instr.op = "switch" ->
             Jump(Shrunk(vm, 1), instr, IF x.v \in DOMAIN instr.to THEN x.v ELSE "default")
        [] instr.op = "jsr" -> [Grow(vm, Address(vm.pc + 1)) EXCEPT !.pc = instr.to[""]]
        [] instr.op = "ret" -> [vm EXCEPT !.pc = vm.slots[instr.n].n]
        [] instr.op = "monitorenter" ->
             Event(Next1([Shrunk(vm, 1) EXCEPT !.locks = @ + 1]), "lock", "")
        [] instr.op = "monitorexit" ->
             IF vm.locks = 0 THEN Failed(vm, "unlocked")
             ELSE Event(Next1([Shrunk(vm, 1) EXCEPT !.locks = @ - 1]), "unlock", "")
        [] instr.op = "suppress" -> Event(Next1(Shrunk(vm, 2)), "suppressed", x.v)
        [] instr.op = "athrow" -> Raise(Shrunk(vm, 1), code, x.v)
        [] instr.op = "return" -> Ended(vm, "return", "")
        [] instr.op = "vreturn" -> Ended(vm, "return", x.v)

RECURSIVE RunSilently(_, _, _)
\* Up to the next question, the end or a failure; "busy" when it takes
\* more than MaxSilent instructions.
RunSilently(vm, code, n) ==
  IF vm.end # "" THEN vm
  ELSE IF ~TypeSafe(vm, code) THEN Failed(vm, "type")
  ELSE IF Answers(vm, code) # {} THEN vm
  ELSE IF n = 0 THEN [vm EXCEPT !.end = "busy"]
  ELSE RunSilently(Step(vm, code), code, n - 1)

-----------------------------------------------------------------------------
(***************************************************************************)
(* The way of one method through the compiler, and into execution:         *)
(* Semantic::ProcessMethodBody checks its statements, DefiniteMethodBody   *)
(* their assignments, ByteCode::CompileMethod emits the code; the machine  *)
(* then runs it, with an answer from outside wherever the program has a    *)
(* question.  A method with an error gets no code.                         *)
(***************************************************************************)
CONSTANTS Families,      \* sets of methods to be compiled
          MaxAnswers     \* the number of answers a run gets

VARIABLES method, phase, checked, errors, code, vm, tape

vars == <<method, phase, checked, errors, code, vm, tape>>

Blank == [slots |-> <<>>]

Init ==
  /\ \E methods \in Families : method \in methods
  /\ phase = "check" /\ errors = {} /\ tape = <<>>
  /\ checked = Blank /\ code = Blank /\ vm = Blank

\* ProcessMethodBody.
CheckBody ==
  /\ phase = "check"
  /\ checked' = CheckMethod(method)
  /\ errors' = checked'.err
  /\ phase' = IF errors' = {} THEN "assign" ELSE "failed"
  /\ UNCHANGED <<method, code, vm, tape>>

\* DefiniteMethodBody.
CheckAssignments ==
  /\ phase = "assign"
  /\ errors' = DefiniteMethod(checked)
  /\ phase' = IF errors' = {} THEN "emit" ELSE "failed"
  /\ UNCHANGED <<method, checked, code, vm, tape>>

\* CompileMethod; the machine starts.
EmitCode ==
  /\ phase = "emit"
  /\ code' = EmitMethod(checked)
  /\ IF code'.err = {}
     THEN phase' = "run" /\ vm' = RunSilently(Boot(code'), code', MaxSilent)
     ELSE phase' = "crashed" /\ vm' = vm
  /\ UNCHANGED <<method, checked, errors, tape>>

Answer(a) ==
  /\ phase = "run" /\ vm.end = "" /\ Len(tape) < MaxAnswers
  /\ a \in Answers(vm, code)
  /\ tape' = Append(tape, a)
  /\ vm' = RunSilently(Answered(vm, code, a), code, MaxSilent)
  /\ UNCHANGED <<method, phase, checked, errors, code>>

Next == CheckBody \/ CheckAssignments \/ EmitCode \/ \E a \in AllAnswers : Answer(a)

Spec == Init /\ [][Next]_vars
-----------------------------------------------------------------------------
(***************************************************************************)
(* What a program is made of, for the properties that hold of some         *)
(* programs only.                                                          *)
(***************************************************************************)
RECURSIVE Parts(_)
\* The statements inside s, with s itself.
Parts(s) ==
  LET all(list) == UNION {Parts(list[i]) : i \in DOMAIN list}
  IN  {s} \cup
      CASE s.k = "block" -> all(s.list)
        [] s.k = "if" -> Parts(s.then) \cup all(s.else)
        [] s.k \in LoopKinds \cup {"sync"} -> Parts(s.body)
        [] s.k = "switch" -> UNION {all(s.groups[i].list) : i \in DOMAIN s.groups}
        [] s.k = "try" -> Parts(s.body) \cup all(s.finally)
                            \cup UNION {Parts(s.catches[i].body) : i \in DOMAIN s.catches}
        [] OTHER -> {}

Body == Parts(method.body)
Has(kinds) == \E s \in Body : s.k \in kinds

HasFinally == \E s \in Body : s.k = "try" /\ s.finally # <<>>

\* A final variable is assigned somewhere in a try statement with a finally:
\* EndDefFinally takes it for set afterwards whatever was executed, and a jump
\* out of the try takes along that it is not set yet, past the finally.
FinalMeetsFinally ==
  \E s \in Body : /\ s.k = "try" /\ s.finally # <<>>
                  /\ \E t \in Parts(s) : t.k = "assign" /\ t.v \in Finals

\* A loop, a labeled block or a switch inside a switch: a target for jumps
\* there.
TargetInSwitch ==
  \E s \in Body : /\ s.k = "switch"
                  /\ \E t \in Parts(s) \ {s} : \/ t.k \in LoopKinds \cup {"switch"}
                                               \/ t.k = "block" /\ t.label # ""

LoopInLoop == \E s, t \in Body : {s.k, t.k} \subseteq LoopKinds /\ t \in Parts(s.body)

\* A catch parameter of several types, or thrown again.
CatchesLoosely ==
  \/ Has({"rethrow"})
  \/ \E s \in Body : s.k = "try" /\ \E i \in DOMAIN s.catches : Cardinality(s.catches[i].types) > 1

\* What the language says of all the runs of the method.
Runs == Run(method.body, TRUE, <<>>)

Accepted == phase = "emit"
RejectedFor(error) == phase = "failed" /\ errors = {error}
-----------------------------------------------------------------------------
\* No assertion of the code generator fails, whatever has passed the checks,
\* and the operand stack of the code it emits never holds more than the method
\* announces, but for the exception in front of a handler.
CodeIsComplete ==
  /\ phase # "crashed"
  /\ phase = "run" => vm.deep =< Larger(code.stack, 1)

\* In an accepted method no run reads a local variable that was not set, and
\* a method is not rejected for a variable that is always set where it is
\* read.  Left out are two shapes of which the first half is not true; and a
\* finally, which is analysed as if it followed any point of its try, is left
\* out of the second.
ReadsAreSet ==
  /\ Accepted /\ ~TargetInSwitch /\ ~FinalMeetsFinally => \A o \in Runs : "read" \notin o.st.bad
  /\ RejectedFor("unassigned") /\ ~HasFinally => \E o \in Runs : "read" \in o.st.bad

\* In an accepted method no run assigns a final variable twice.
NeverTwice == \A o \in Runs : "twice" \notin o.st.bad
\* Three shapes of programs of which this is not true are left out.
FinalsOnce == Accepted /\ ~TargetInSwitch /\ ~FinalMeetsFinally /\ ~LoopInLoop => NeverTwice

\* The analysis of assignments lets no run misuse a variable.
AssignmentsAreKnown == ReadsAreSet /\ FinalsOnce

\* The checked exceptions that leave a method are those it declares, and it
\* is not rejected for an exception that cannot leave it.
Escapes(o) ==
  o.k = "throw" /\ Checked(o.what) /\ ~ \E t \in method.throws : IsSubclass(o.what, t)
ExceptionsDeclared ==
  /\ Accepted /\ ~CatchesLoosely => \A o \in Runs : ~Escapes(o)
  /\ RejectedFor("uncaught") /\ ~CatchesLoosely => \E o \in Runs : Escapes(o)

\* A method that has to return a value is accepted only if it cannot fall
\* off its end, and rejected for it only if it can; and every assignment of
\* an accepted method is executed by some run, but for those of an if (false),
\* and of a finally, which counts as reachable even if its try block is never
\* left.
EndsAreKnown ==
  /\ Accepted /\ ~method.void => \A o \in Runs : o.k # "normal"
  /\ RejectedFor("noreturn") => \E o \in Runs : o.k = "normal"
  /\ Accepted /\ ~HasFinally /\ ~(\E s \in Body : s.k = "if" /\ Constant(s.e) # "none") =>
       \A s \in Body : s.k = "assign" => \E o \in Runs : s.site \in o.st.at


(***************************************************************************)
(* The run of the code is a run of the source.                             *)
(***************************************************************************)
Source ==
  INSTANCE SourceRun WITH
    seen <- IF phase # "run" \/ vm.end = "busy" THEN <<>> ELSE vm.ev,
    end <- IF phase # "run" THEN <<"off", "">> ELSE <<vm.end, vm.what>>
CodeMeansSource == Source!Spec
=============================================================================
