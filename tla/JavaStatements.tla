-------------------------- MODULE JavaStatements --------------------------
(***************************************************************************)
(* The statements and conditions of a Java method body, as the parser of   *)
(* src/src/grammar builds them, and what the Java language says they do.   *)
(*                                                                         *)
(* The constructors stand for the Ast classes.  The parser wraps every     *)
(* loop, every labeled statement and every branch of an if in a block of   *)
(* its own; so do the constructors here, because the analyses and the code *)
(* generator count these blocks.                                           *)
(*                                                                         *)
(* Do is the meaning the compiler has to preserve.  It answers with a SET  *)
(* of outcomes: one for every way the unknown conditions, calls, switch    *)
(* values and collections of the method may turn out.  A state carries     *)
(* the values of the local variables, the visible events so far and the    *)
(* answers still to be given ("tape"); when "free" is TRUE every answer is *)
(* followed and no event is kept, which makes Do the collecting semantics. *)
(***************************************************************************)
EXTENDS Integers, Sequences, FiniteSets
LOCAL INSTANCE Functions

CONSTANTS Variables,     \* the local variables of the method
          Finals,        \* those declared final
          MaxEvents      \* after so many a loop without a question is endless

(***************************************************************************)
(* The throwable classes: two unrelated checked ones, A with a subclass    *)
(* A1 and B, beside the classes the language singles out.                  *)
(***************************************************************************)
SuperClass ==
  [Throwable |-> "", Error |-> "Throwable", Exception |-> "Throwable",
   RuntimeException |-> "Exception", A |-> "Exception", A1 |-> "A",
   B |-> "Exception"]

Throwables == DOMAIN SuperClass

IsSubclass(c, d) ==
  LET up[n \in 0 .. 4] == IF n = 0 THEN {c}
                          ELSE up[n - 1] \cup ({SuperClass[e] : e \in up[n - 1] \ {""}})
  IN  d \in up[4]

Checked(c) == ~IsSubclass(c, "RuntimeException") /\ ~IsSubclass(c, "Error")

-----------------------------------------------------------------------------
(***************************************************************************)
(* Conditions.  "cond" is a condition the compiler cannot know, "asg" an   *)
(* assignment used as one, "use" a boolean local variable.                 *)
(***************************************************************************)
True == [op |-> "true"]
False == [op |-> "false"]
Cond == [op |-> "cond"]
Assigned(v, site) == [op |-> "asg", v |-> v, site |-> site]
VarCond(v) == [op |-> "use", v |-> v]
Not(e) == [op |-> "not", e |-> e]
And(e, f) == [op |-> "and", e |-> e, f |-> f]
Or(e, f) == [op |-> "or", e |-> e, f |-> f]
Select(c, e, f) == [op |-> "select", c |-> c, e |-> e, f |-> f]

RECURSIVE Constant(_)
\* The value of a constant condition, "none" of one that is not constant.
Constant(e) ==
  CASE e.op \in {"true", "false"} -> e.op
    [] e.op = "not" /\ Constant(e.e) # "none" ->
         IF Constant(e.e) = "true" THEN "false" ELSE "true"
    [] e.op \in {"and", "or"} /\ "none" \notin {Constant(e.e), Constant(e.f)} ->
         IF e.op = "and" THEN IF Constant(e.e) = "true" THEN Constant(e.f) ELSE "false"
         ELSE IF Constant(e.e) = "true" THEN "true" ELSE Constant(e.f)
    [] e.op = "select" /\ "none" \notin {Constant(e.c), Constant(e.e), Constant(e.f)} ->
         IF Constant(e.c) = "true" THEN Constant(e.e) ELSE Constant(e.f)
    [] OTHER -> "none"

(***************************************************************************)
(* Statements.  A site names the place of an assignment and is the value   *)
(* it assigns.                                                             *)
(***************************************************************************)
LabeledBlock(label, list) == [k |-> "block", label |-> label, list |-> list]
Block(list) == LabeledBlock("", list)

\* MakeBlock and MakeLabeledStatement: a block is not wrapped again.
InBlock(s) == IF s.k = "block" THEN s ELSE Block(<<s>>)
Labeled(label, s) ==
  IF s.k = "block" /\ s.label = "" THEN [s EXCEPT !.label = label]
  ELSE LabeledBlock(label, <<s>>)

Empty == [k |-> "empty"]
Assign(v, site) == [k |-> "assign", v |-> v, site |-> site]
Use(v) == [k |-> "use", v |-> v]
Increment(v, site) == [k |-> "inc", v |-> v, site |-> site]
Evaluate(e) == [k |-> "eval", e |-> e]
Call(throws) == [k |-> "call", throws |-> throws]
\* init is "" or the site of the initializer.
Local(v, init) == [k |-> "local", v |-> v, init |-> init]
If(e, s) == [k |-> "if", e |-> e, then |-> InBlock(s), else |-> <<>>]
IfElse(e, s, t) == [k |-> "if", e |-> e, then |-> InBlock(s), else |-> <<InBlock(t)>>]
While(e, s) == Block(<<[k |-> "while", e |-> e, body |-> InBlock(s)]>>)
DoWhile(s, e) == Block(<<[k |-> "do", e |-> e, body |-> InBlock(s)]>>)
For(init, e, update, s) ==
  Block(<<[k |-> "for", init |-> init, e |-> e, update |-> update, body |-> InBlock(s)]>>)
\* over is "array" or "iterable".
Foreach(v, site, over, s) ==
  Block(<<[k |-> "foreach", v |-> v, site |-> site, over |-> over, body |-> InBlock(s)]>>)
\* groups: a sequence of [default: BOOLEAN, list: statements]; a group
\* has one case label, or the default label.  The value switched on may be
\* a constant.
GroupName == <<"case1", "case2", "case3">>
Switch(groups) == [k |-> "switch", groups |-> groups, on |-> ""]
SwitchOn(constant, groups) == [k |-> "switch", groups |-> groups, on |-> constant]
Case(list) == [default |-> FALSE, list |-> IF list = <<>> THEN <<Empty>> ELSE list]
Default(list) == [default |-> TRUE, list |-> IF list = <<>> THEN <<Empty>> ELSE list]
Break(label) == [k |-> "break", label |-> label]
Continue(label) == [k |-> "continue", label |-> label]
\* what is "", the site of a constant, or a local variable.
Return(what) == [k |-> "return", what |-> what]
Throw(c) == [k |-> "throw", c |-> c]
Rethrow(v) == [k |-> "rethrow", v |-> v]
Synchronized(list) == [k |-> "sync", body |-> Block(list)]
AssertThat(e) == [k |-> "assert", e |-> e]
Catch(types, v, list) == [types |-> types, v |-> v, body |-> Block(list)]
Try(resources, list, catches, finally) ==
  [k |-> "try", resources |-> resources, body |-> Block(list), catches |-> catches,
   finally |-> IF finally = <<>> THEN <<>> ELSE <<Block(finally[1])>>]

LoopKinds == {"while", "do", "for", "foreach"}
IsLoopBlock(s) == s.k = "block" /\ s.list # <<>> /\ s.list[1].k \in LoopKinds

-----------------------------------------------------------------------------
(***************************************************************************)
(* The meaning.                                                            *)
(***************************************************************************)
Unset == "unset"

Start(free, tape) ==
  [val |-> [v \in Variables |-> Unset], free |-> free, tape |-> tape,
   ev |-> <<>>, at |-> {}, bad |-> {}]

\* A run ends by completing normally, with a jump, or not: "cut" when it
\* waits for an answer, "busy" when it is seen to go on.
Out(kind, what, st) == [k |-> kind, what |-> what, st |-> st]
Unfinished == {"cut", "busy"}
Normal(st) == {Out("normal", "", st)}

Emit(st, kind, what) ==
  IF st.free THEN st ELSE [st EXCEPT !.ev = Append(@, <<kind, what>>)]

AllAnswers == {"true", "false", "ok", "null", "default"} \cup Range(GroupName) \cup Throwables

\* Every way an open question may be answered; the answer on the tape has
\* to be one of them.
Ask(st, answers, K(_, _)) ==
  IF st.free THEN UNION {K(a, st) : a \in answers}
  ELSE IF st.tape = <<>> THEN {Out("cut", "", st)}
  ELSE IF Head(st.tape) \notin answers THEN {}
  ELSE K(Head(st.tape), [st EXCEPT !.tape = Tail(@)])

\* Continue the outcomes of kind k with K, keep the others.
After(outs, k, K(_)) ==
  {o \in outs : o.k # k} \cup UNION {K(o) : o \in {p \in outs : p.k = k}}

Fetch(st, v) ==
  IF st.val[v] = Unset THEN [st EXCEPT !.bad = @ \cup {"read"}] ELSE st

Read(st, v) == Fetch(Emit(st, "use", st.val[v]), v)

Write(st, v, site) ==
  LET set == [st EXCEPT !.val[v] = site, !.at = IF st.free THEN @ \cup {site} ELSE @]
  IN  IF v \in Finals /\ st.val[v] # Unset THEN [set EXCEPT !.bad = @ \cup {"twice"}]
      ELSE set

\* A new variable comes into being at its declaration.
Declare(st, v) == [st EXCEPT !.val[v] = Unset]

RECURSIVE Test(_, _)
\* Outcomes of kind "true" and "false".
Test(e, st) ==
  CASE e.op \in {"true", "false"} -> {Out(e.op, "", st)}
    [] e.op = "cond" -> Ask(st, {"true", "false"}, LAMBDA a, s : {Out(a, "", s)})
    [] e.op = "asg" ->
         Ask(st, {"true", "false"}, LAMBDA a, s : {Out(a, "", Write(s, e.v, e.site))})
    [] e.op = "use" ->
         Ask(Fetch(st, e.v), {"true", "false"},
             LAMBDA a, s : {Out(a, "", Emit(s, "use", s.val[e.v]))})
    [] e.op = "not" ->
         {IF o.k \in {"true", "false"}
          THEN Out(IF o.k = "true" THEN "false" ELSE "true", "", o.st) ELSE o
           : o \in Test(e.e, st)}
    [] e.op = "and" -> After(Test(e.e, st), "true", LAMBDA o : Test(e.f, o.st))
    [] e.op = "or" -> After(Test(e.e, st), "false", LAMBDA o : Test(e.f, o.st))
    [] e.op = "select" ->
         LET c == Test(e.c, st) IN
           UNION {CASE o.k = "true" -> Test(e.e, o.st)
                    [] o.k = "false" -> Test(e.f, o.st)
                    [] OTHER -> {o} : o \in c}

\* Where "break" and "continue" end: what the loop or block at hand catches.
Caught(outs, k, labels) ==
  {IF o.k = k /\ o.what \in labels THEN Out("normal", "", o.st) ELSE o : o \in outs}

Returned(st, what) ==
  IF what \in Variables THEN Out("return", st.val[what], Fetch(st, what))
  ELSE Out("return", what, st)

RECURSIVE Do(_, _, _), DoAll(_, _, _), Loop(_, _, _, _), Close(_, _)

\* The statements of list from the i-th on.
DoAll(list, i, st) ==
  IF i > Len(list) THEN Normal(st)
  ELSE After(Do(list[i], "", st), "normal", LAMBDA o : DoAll(list, i + 1, o.st))

\* The loop s with that label: todo are the states in front of its test (of
\* its body, for a do), done those already followed.
Loop(s, label, todo, done) ==
  LET tests == UNION {CASE s.k = "do" -> {Out("true", "", st)}
                        [] s.k = "foreach" ->
                             Ask(st, {"true", "false"}, LAMBDA a, t : {Out(a, "", t)})
                        [] OTHER -> Test(s.e, st) : st \in todo}
      enter(st) == IF s.k = "foreach" THEN Write(Declare(st, s.v), s.v, s.site) ELSE st
      bodies == Caught(UNION {Do(s.body, "", enter(o.st))
                               : o \in {p \in tests : p.k = "true"}},
                       "continue", {"", label})
      next(o) ==
        CASE s.k = "for" ->
               {[p EXCEPT !.k = IF @ = "normal" THEN "again" ELSE @]
                 : p \in DoAll(s.update, 1, o.st)}
          [] s.k = "do" ->
               {[p EXCEPT !.k = CASE @ = "true" -> "again" [] @ = "false" -> "normal"
                                  [] OTHER -> @] : p \in Test(s.e, o.st)}
          [] OTHER -> {[o EXCEPT !.k = "again"]}
      steps == After(bodies, "normal", next)
      repeats == {o.st : o \in {p \in steps : p.k = "again"}}
      again == repeats \ (todo \cup done)
      leave == {IF o.k = "false" THEN Out("normal", "", o.st) ELSE o
                 : o \in {p \in tests : p.k # "true"}}
               \cup Caught({o \in steps : o.k # "again"}, "break", {""})
      busy == {Out("busy", "", st)
                : st \in {u \in repeats : u \notin again \/ u.bad # {} \/ Len(u.ev) > MaxEvents}}
      on == {st \in again : st.free \/ Len(st.ev) =< MaxEvents}
  IN  leave \cup busy \cup (IF on = {} THEN {} ELSE Loop(s, label, on, todo \cup done))

\* The resources opened, closed in the reverse order: close() is called
\* when the resource is not null, may itself fail, and does not hide an
\* earlier exception.
Close(opened, o) ==
  IF opened = <<>> THEN {o}
  ELSE LET r == opened[Len(opened)]
           rest(p) == Close(SubSeq(opened, 1, Len(opened) - 1), p)
       IN  IF o.k \in Unfinished THEN {o}
           ELSE IF o.st.val[r] = "null" THEN rest(o)
           ELSE Ask(o.st, {"ok", "RuntimeException"},
                    LAMBDA a, t :
                      LET st == Emit(t, "close", r) IN
                        IF a = "ok" THEN rest([o EXCEPT !.st = st])
                        ELSE IF o.k = "throw"
                        THEN rest([o EXCEPT !.st = Emit(st, "suppressed", a)])
                        ELSE rest(Out("throw", a, st)))

\* Do(s, label, st): the statement s, inside a block with that label.
Do(s, label, st) ==
  CASE s.k = "empty" -> Normal(st)
    [] s.k = "assign" -> Normal(Write(st, s.v, s.site))
    [] s.k = "use" -> Normal(Read(st, s.v))
    [] s.k = "inc" -> Normal(Write(Read(st, s.v), s.v, s.site))
    [] s.k = "eval" ->
         {IF o.k \in {"true", "false"} THEN Out("normal", "", o.st) ELSE o
           : o \in Test(s.e, st)}
    [] s.k = "call" ->
         Ask(st, {"ok"} \cup s.throws,
             LAMBDA a, t : IF a = "ok" THEN Normal(t) ELSE {Out("throw", a, t)})
    [] s.k = "local" ->
         Normal(IF s.init = "" THEN Declare(st, s.v) ELSE Write(Declare(st, s.v), s.v, s.init))
    [] s.k = "block" ->
         LET outs == IF IsLoopBlock(s) THEN Do(s.list[1], s.label, st)
                     ELSE DoAll(s.list, 1, st)
         IN  IF s.label = "" THEN outs ELSE Caught(outs, "break", {s.label})
    [] s.k = "if" ->
         LET tests == Test(s.e, st) IN
           UNION {CASE o.k = "true" -> Do(s.then, "", o.st)
                    [] o.k = "false" -> IF s.else = <<>> THEN Normal(o.st)
                                        ELSE Do(s.else[1], "", o.st)
                    [] OTHER -> {o} : o \in tests}
    [] s.k \in {"while", "do", "foreach"} -> Loop(s, label, {st}, {})
    [] s.k = "for" -> After(DoAll(s.init, 1, st), "normal",
                            LAMBDA o : Loop(s, label, {o.st}, {}))
    [] s.k = "switch" ->
         LET groups == s.groups
             default == {i \in 1 .. Len(groups) : groups[i].default}
             from(i, t) == LET all[j \in 1 .. Len(groups) + 1] ==
                                 IF j > Len(groups) THEN <<>>
                                 ELSE groups[j].list \o all[j + 1]
                           IN  DoAll(all[i], 1, t)
             names == {GroupName[i] : i \in (1 .. Len(groups)) \ default}
             \* the answer names a group, or "default" for any other value
             go(a, t) == IF a \in names
                         THEN from(CHOOSE i \in 1 .. Len(groups) : GroupName[i] = a, t)
                         ELSE IF default = {} THEN Normal(t)
                         ELSE from(CHOOSE i \in default : TRUE, t)
         IN  Caught(IF s.on # "" THEN go(s.on, st) ELSE Ask(st, names \cup {"default"}, go),
                    "break", {""})
    [] s.k = "break" -> {Out("break", s.label, st)}
    [] s.k = "continue" -> {Out("continue", s.label, st)}
    [] s.k = "return" -> {Returned(st, s.what)}
    [] s.k = "throw" -> {Out("throw", s.c, st)}
    [] s.k = "rethrow" -> {Out("throw", st.val[s.v], st)}
    [] s.k = "sync" ->
         {IF o.k \in Unfinished THEN o ELSE [o EXCEPT !.st = Emit(@, "unlock", "")]
           : o \in Do(s.body, "", Emit(st, "lock", ""))}
    [] s.k = "assert" ->
         \* the first question is whether assertions are disabled
         LET tests(t) == {CASE o.k = "true" -> Out("normal", "", o.st)
                            [] o.k = "false" -> Out("throw", "Error", o.st)
                            [] OTHER -> o : o \in Test(s.e, t)}
         IN  IF Constant(s.e) = "true" THEN Normal(st)
             ELSE Ask(st, {"true", "false"},
                      LAMBDA a, t : IF a = "true" THEN Normal(t) ELSE tests(t))
    [] s.k = "try" ->
         LET open[i \in 0 .. Len(s.resources)] ==
               \* outcomes of opening the first i, in order
               IF i = 0 THEN Normal(st)
               ELSE After(open[i - 1], "normal",
                      LAMBDA o : Ask(o.st, {"ok", "null", "RuntimeException"},
                        LAMBDA a, t : IF a = "RuntimeException"
                                      THEN Close(SubSeq(s.resources, 1, i - 1), Out("throw", a, t))
                                      ELSE Normal([t EXCEPT !.val[s.resources[i]] =
                                             IF a = "ok" THEN s.resources[i] ELSE "null"])))
             opened == open[Len(s.resources)]
             body == UNION {IF o.k # "normal" THEN {o}
                            ELSE UNION {Close(s.resources, p) : p \in Do(s.body, "", o.st)}
                             : o \in opened}
             matches(c) == {i \in 1 .. Len(s.catches) :
                              \E t \in s.catches[i].types : IsSubclass(c, t)}
             caught == After(body, "throw",
                         LAMBDA o : IF matches(o.what) = {} THEN {o}
                                    ELSE LET i == CHOOSE m \in matches(o.what) :
                                                    \A n \in matches(o.what) : m =< n
                                             c == s.catches[i]
                                         IN  Do(c.body, "",
                                                Write(Declare(o.st, c.v), c.v, o.what)))
         IN  IF s.finally = <<>> THEN caught
             ELSE UNION {IF o.k \in Unfinished THEN {o}
                         ELSE After(Do(s.finally[1], "", o.st), "normal",
                                    LAMBDA p : {[o EXCEPT !.st = p.st]})
                          : o \in caught}

\* What a whole method body may do, started with no variable assigned.
Run(body, free, tape) == Do(body, "", Start(free, tape))
=============================================================================
