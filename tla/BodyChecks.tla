---------------------------- MODULE BodyChecks ----------------------------
(***************************************************************************)
(* The pass of src/src/body.cpp over the statements of a method: which     *)
(* statements are reachable and can complete normally, where a break or    *)
(* continue goes (as the nesting level of a block), which checked          *)
(* exceptions escape, and the stack slots of local variables and of the    *)
(* temporaries of synchronized, try and foreach.                           *)
(*                                                                         *)
(* The pass is a visitor that keeps several stacks in the Semantic; here   *)
(* it is a function from a statement and those stacks (the record S) to    *)
(* the annotated statement and the stacks afterwards.  An AstBlock is      *)
(* known by a number, so that several stacks may point to the same one.    *)
(* Names and types other than exceptions are not represented.              *)
(***************************************************************************)
EXTENDS JavaStatements, TLC
LOCAL INSTANCE SequencesExt

Push(stack, x) == Append(stack, x)
Pop(stack) == Front(stack)
Top(stack) == Last(stack)

(***************************************************************************)
(* S.info[b] holds what the pass writes into block b (AstBlock and its     *)
(* BlockSymbol).  S.blocks is LocalBlockStack: the block and the maximum   *)
(* index of the blocks it encloses.  S.labels are the label symbols in     *)
(* scope, S.breakable and S.continuable the blocks around the loops (and   *)
(* switches), S.tries TryStatementStack, S.thrown TryExceptionTableStack,  *)
(* S.abrupt AbruptFinallyStack.                                            *)
(***************************************************************************)
NoStacks ==
  [next |-> 1, info |-> <<>>, blocks |-> <<>>, labels |-> <<>>, breakable |-> <<>>,
   continuable |-> <<>>, tries |-> <<>>, thrown |-> <<>>, abrupt |-> <<>>,
   slot |-> [v \in Variables |-> -1], owner |-> [v \in Variables |-> 0], multi |-> [v \in Variables |-> {}],
   type |-> [v \in Variables |-> ""],
   err |-> {}, method |-> [void |-> TRUE, throws |-> {}]]

Report(S, error) == [S EXCEPT !.err = @ \cup {error}]
TopBlock(S) == Top(S.blocks).b
Larger(a, b) == IF a < b THEN b ELSE a

NewInfo(max, reach) ==
  [max |-> max, helper |-> -1, done |-> FALSE, reach |-> reach, lev |-> -1,
   loop |-> 0, kind |-> ""]

\* InsertBlockSymbol: the number of the new block is S.next.
NewBlock(S, max, reach) ==
  [S EXCEPT !.info = Append(@, NewInfo(max, reach)), !.next = @ + 1]

Enter(S, b) ==
  [S EXCEPT !.info[b].lev = Len(S.blocks), !.blocks = Push(@, [b |-> b, enclosed |-> 0])]

\* Leave the block, telling the enclosing one how many slots it used.
Leave(S, b) ==
  LET popped == [S EXCEPT !.blocks = Pop(@)]
  IN  IF popped.blocks = <<>> THEN popped
      ELSE [popped EXCEPT !.blocks[Len(popped.blocks)].enclosed = Larger(@, S.info[b].max)]

\* The first try-finally or synchronized of a block reserves its temporaries.
ReserveHelper(S, slots) ==
  LET b == TopBlock(S) IN
    IF S.info[b].helper >= 0 THEN S
    ELSE [S EXCEPT !.info[b].helper = S.info[b].max,
                   !.info[b].max = @ + slots + (IF S.method.void THEN 0 ELSE 1)]

DeclareIn(S, b, v) ==
  [S EXCEPT !.slot[v] = S.info[b].max, !.owner[v] = b, !.info[b].max = @ + 1]

-----------------------------------------------------------------------------
\* Mutant: the catch clauses count inside the catch blocks too.
UncaughtWhileCatching(S, c) ==
  /\ Checked(c)
  /\ ~ \E i \in 1 .. Len(S.tries) :
         \/ S.tries[i].abrupt
         \/ \E t \in S.tries[i].params : IsSubclass(c, t)
  /\ ~ \E t \in S.method.throws : IsSubclass(c, t)

\* An exception nothing around the statement can catch.
UncaughtException(S, c) ==
  /\ Checked(c)
  /\ ~ \E i \in 1 .. Len(S.tries) :
         \/ S.tries[i].abrupt
         \/ S.tries[i].processing /\ \E t \in S.tries[i].params : IsSubclass(c, t)
  /\ ~ \E t \in S.method.throws : IsSubclass(c, t)

\* The expression may throw these: they join the set of the innermost try.
Throws(S, classes) ==
  LET noted == IF S.thrown = <<>> THEN S
               ELSE [S EXCEPT !.thrown[Len(S.thrown)] = @ \cup classes]
  IN  IF \E c \in classes : UncaughtException(S, c) THEN Report(noted, "uncaught") ELSE noted

\* The block a break or continue leaves for is outside every finally that
\* does not complete normally.
Arrives(S, lev) == (IF S.abrupt = <<>> THEN 0 ELSE Top(S.abrupt)) < lev

FindLabel(S, label) == {i \in 1 .. Len(S.labels) : S.labels[i].label = label}

MarkDone(S, b) == [S EXCEPT !.info[b].done = TRUE]

\* The annotations every statement gets.
Noted(s, reach, done) == [reach |-> reach, done |-> done] @@ s

\* The lowest class that is a superclass of all (UNION of a multi-catch).
CommonSuper(types) ==
  CHOOSE c \in Throwables :
    /\ \A t \in types : IsSubclass(t, c)
    /\ \A d \in Throwables : (\A t \in types : IsSubclass(t, d)) => IsSubclass(c, d)

-----------------------------------------------------------------------------
RECURSIVE Check(_, _, _), CheckList(_, _, _, _), CheckCatches(_, _, _, _)

\* The last statement tells whether the block completes.
EndStatements(b, reachable, all) ==
  LET done == IF Last(all.list).done THEN MarkDone(all.S, b) ELSE all.S
      told == IF reachable /\ \E i \in DOMAIN all.list : ~all.list[i].reach
              THEN Report(done, "unreachable") ELSE done
  IN  [list |-> all.list,
       S |-> [told EXCEPT !.info[b].max = Larger(@, Top(done.blocks).enclosed)]]

\* ProcessBlockStatements of block b, the statements are list.
CheckStatements(list, b, S) ==
  IF list = <<>>
  THEN [list |-> <<>>, S |-> [S EXCEPT !.info[b].done = S.info[b].reach]]
  ELSE EndStatements(b, S.info[TopBlock(S)].reach, CheckList(list, S.info[b].reach, S, <<>>))

\* Check the list, checked is what is done already.
CheckRest(list, r, checked) == CheckList(list, r.s.done, r.S, Append(checked, r.s))
CheckList(list, reach, S, checked) ==
  IF list = <<>> THEN [list |-> checked, S |-> S]
  ELSE CheckRest(Tail(list), Check(Head(list), reach, S), checked)

\* The block b is left, and knows how it ends.
EndCheckedBlock(s, b, labels, inner) ==
  LET info == inner.S.info[b] IN
    [s |-> Noted([s EXCEPT !.list = inner.list], info.reach, info.done)
             @@ [lev |-> info.lev, max |-> info.max, helper |-> info.helper, id |-> b],
     S |-> [Leave(inner.S, b) EXCEPT !.labels = labels]]

\* ProcessBlock, and the same steps where synchronized and try spell them
\* out.  The new block starts with the slots from max on.
CheckBlockFrom(s, max, reach, S) ==
  LET b == S.next
      new == NewBlock(S, max, reach)
      opened == [Enter(new, b) EXCEPT
                   !.info[b].kind = IF s.list = <<>> THEN "" ELSE s.list[1].k]
      named == IF s.label = "" THEN opened
               ELSE IF FindLabel(S, s.label) # {} THEN Report(opened, "label")
               ELSE [opened EXCEPT !.labels = Push(@, [label |-> s.label, b |-> b])]
  IN  EndCheckedBlock(s, b, S.labels, CheckStatements(s.list, b, named))

CheckBlock(s, reach, S) == CheckBlockFrom(s, S.info[TopBlock(S)].max, reach, S)

(***************************************************************************)
(* while and for: the test decides whether the body is reachable and       *)
(* whether the loop can complete without a break.                          *)
(***************************************************************************)
LoopStarts(S) ==
  [S EXCEPT !.breakable = Push(@, TopBlock(S)), !.continuable = Push(@, TopBlock(S)),
            !.info[TopBlock(S)].loop = S.next]
LoopEnds(S) == [S EXCEPT !.breakable = Pop(@), !.continuable = Pop(@)]

\* Mutant: what follows an endless loop counts as reachable.
LoopDoneEnding(s, reach, S) == reach

\* A loop ends by its test or by a break.
LoopDone(s, reach, S) ==
  \/ reach /\ Constant(s.e) # "true"
  \/ S.info[Top(S.breakable)].done

EndTestedLoop(s, reach, done, updates) ==
  [s |-> Noted(IF s.k = "for" THEN [s EXCEPT !.update = updates.list] ELSE s, reach, done),
   S |-> LoopEnds(updates.S)]

CheckUpdates(s, reach, S) ==
  EndTestedLoop(s, reach, LoopDone(s, reach, S),
                IF s.k = "for" THEN CheckList(s.update, reach, S, <<>>) ELSE [S |-> S])

CheckLoopBody(s, reach, body) ==
  CheckUpdates([s EXCEPT !.body = body.s], reach,
               IF ~body.s.reach /\ reach THEN Report(body.S, "unreachable") ELSE body.S)

CheckInitialized(s, reach, inits) ==
  CheckLoopBody(IF s.k = "for" THEN [s EXCEPT !.init = inits.list] ELSE s, reach,
                CheckBlock(s.body, reach /\ Constant(s.e) # "false", LoopStarts(inits.S)))

CheckTestedLoop(s, reach, S) ==
  CheckInitialized(s, reach,
                   IF s.k = "for" THEN CheckList(s.init, reach, S, <<>>) ELSE [S |-> S])

EndDo(s, reach, body) ==
  [s |-> Noted([s EXCEPT !.body = body.s], reach, LoopDone(s, body.s.done, body.S)),
   S |-> LoopEnds(body.S)]

CheckDo(s, reach, S) == EndDo(s, reach, CheckBlock(s.body, reach, LoopStarts(S)))

\* The temporaries: the array, its length and the index, or the iterator.
CheckForeach(s, reach, S) ==
  LET b == TopBlock(S)
      var == DeclareIn(LoopStarts(S), b, s.v)
      helped == [var EXCEPT !.info[b].helper = var.info[b].max,
                            !.info[b].max = @ + (IF s.over = "array" THEN 3 ELSE 1)]
      body == CheckBlock(s.body, reach, helped)
  IN  [s |-> Noted([s EXCEPT !.body = body.s], reach, reach), S |-> LoopEnds(body.S)]

(***************************************************************************)
(* A switch: its block is pushed once for the break, and once more for     *)
(* every group of statements.                                              *)
(***************************************************************************)
CheckSwitch(s, reach, S) ==
  LET main == S.next
      opened == Enter(NewBlock(S, S.info[TopBlock(S)].max, reach), main)
      start == [opened EXCEPT !.breakable = Push(@, main)]
      group[i \in 0 .. Len(s.groups)] ==
        IF i = 0 THEN [groups |-> <<>>, S |-> start]
        ELSE LET before == group[i - 1]
                 b == before.S.next
                 new == NewBlock(before.S, before.S.info[main].max, reach)
                 in == [new EXCEPT !.info[b].lev = Len(new.blocks),
                                   !.blocks = Push(@, [b |-> main, enclosed |-> 0])]
                 inner == CheckStatements(s.groups[i].list, b, in)
                 g == [default |-> s.groups[i].default, list |-> inner.list]
                      @@ inner.S.info[b] @@ [id |-> b]
             IN  [groups |-> Append(before.groups, g), S |-> Leave(inner.S, b)]
      all == group[Len(s.groups)]
      \* taken before the blocks inside report their slots
      end == [all.S EXCEPT !.info[main].max = Larger(@, Top(all.S.blocks).enclosed),
                           !.breakable = Pop(@)]
      done == \/ end.info[main].done
              \/ ~ \E i \in 1 .. Len(s.groups) : s.groups[i].default
              \/ Last(Last(all.groups).list).done
      info == end.info[main]
  IN  [s |-> Noted([s EXCEPT !.groups = all.groups], reach, done)
               @@ [lev |-> info.lev, max |-> info.max, helper |-> info.helper, id |-> main],
       S |-> Leave(end, main)]

CheckBreak(s, reach, S) ==
  LET labels == FindLabel(S, s.label)
      b == IF s.label = ""
           THEN IF S.breakable = <<>> THEN TopBlock(S) ELSE Top(S.breakable)
           ELSE IF labels = {} THEN TopBlock(S)
           ELSE S.labels[CHOOSE i \in labels : TRUE].b
      bad == (s.label = "" /\ S.breakable = <<>>) \/ (s.label # "" /\ labels = {})
  IN  [s |-> Noted(s, reach, FALSE) @@ [lev |-> S.info[b].lev],
       S |-> IF bad THEN Report(S, "break")
             ELSE IF reach /\ Arrives(S, S.info[b].lev) THEN MarkDone(S, b) ELSE S]

\* The loop's body is marked, reachable or not.
CheckContinue(s, reach, S) ==
  LET labels == FindLabel(S, s.label)
      bad == \/ S.continuable = <<>>
             \/ s.label # "" /\ labels = {}
      b == IF bad THEN TopBlock(S)
           ELSE IF s.label = "" THEN Top(S.continuable)
           ELSE S.labels[CHOOSE i \in labels : TRUE].b
  IN  [s |-> Noted(s, reach, FALSE) @@ [lev |-> S.info[b].lev],
       S |-> IF bad \/ S.info[b].kind \notin LoopKinds THEN Report(S, "continue")
             ELSE IF Arrives(S, S.info[b].lev) THEN MarkDone(S, S.info[b].loop) ELSE S]

CheckReturn(s, reach, S) ==
  [s |-> Noted(s, reach, FALSE),
   S |-> IF (s.what = "") # S.method.void THEN Report(S, "return") ELSE S]

\* A catch parameter of which the thrown classes are known throws those.
CheckThrow(s, reach, S) ==
  LET classes == IF s.k = "throw" THEN {s.c}
                 ELSE IF S.multi[s.v] # {} THEN S.multi[s.v]
                 ELSE {S.type[s.v]}
  IN  [s |-> Noted(s, reach, FALSE), S |-> Throws(S, classes)]

CheckSynchronized(s, reach, S) ==
  LET body == CheckBlock(s.body, reach, ReserveHelper(S, 2))
  IN  [s |-> Noted([s EXCEPT !.body = body.s], reach, body.s.done), S |-> body.S]

-----------------------------------------------------------------------------
(***************************************************************************)
(* try.  The finally block is checked first; if it cannot complete         *)
(* normally it hides what happens in the other blocks.  Then the           *)
(* resources, the catch parameters, the try block, and the catch blocks of *)
(* the clauses that may be reached.                                        *)
(***************************************************************************)
ParamType(clause) == CommonSuper(clause.types)

\* The catch clauses from the i-th on: thrown is the exception set of the
\* try block, clauses what is done already.
CheckCatches(s, i, thrown, acc) ==
  IF i > Len(s.catches) THEN acc
  ELSE
    LET clause == s.catches[i]
        type == ParamType(clause)
        catchable == {c \in thrown : IsSubclass(c, type)}
        convertible == {c \in thrown : IsSubclass(type, c)} \ catchable
        known == [acc.S EXCEPT !.multi[clause.v] = catchable]
        b == acc.blocks[i]
        in == Enter(known, b)
        inner == CheckStatements(clause.body.list, b, in)
        info == inner.S.info[b]
        new == [clause EXCEPT !.body =
                 Noted([@ EXCEPT !.list = inner.list], TRUE, info.done)
                   @@ [lev |-> info.lev, max |-> info.max, helper |-> info.helper, id |-> b]]
        next == IF catchable \cup convertible = {} THEN [acc EXCEPT !.S = Report(known, "catch")]
                ELSE IF \E k \in 1 .. i - 1 : IsSubclass(type, ParamType(s.catches[k]))
                THEN [acc EXCEPT !.S = Report(known, "catch")]
                ELSE [acc EXCEPT !.S = Leave(inner.S, b), !.clauses = Append(@, new),
                                 !.done = @ \/ info.done]
    IN  CheckCatches(s, i + 1, thrown, [next EXCEPT !.caught = @ \cup catchable])

OpenedResources(s, S) ==
  LET open[i \in 0 .. Len(s.resources)] ==
        IF i = 0 THEN S ELSE DeclareIn(open[i - 1], TopBlock(S), s.resources[i])
  IN  open[Len(s.resources)]

\* One new block per catch clause, its parameter in the first slot.
CatchBlocks(s, max, S) ==
  LET param[i \in 0 .. Len(s.catches)] ==
        IF i = 0 THEN S
        ELSE LET new == NewBlock(param[i - 1], max, TRUE)
             IN  [DeclareIn(new, new.next - 1, s.catches[i].v) EXCEPT
                    !.type[s.catches[i].v] = ParamType(s.catches[i])]
  IN  param[Len(s.catches)]

\* The try block, with the classes that may be thrown in it.
CheckTryBlock(s, max, reach, abrupt, S) ==
  LET this == [abrupt |-> abrupt, processing |-> TRUE,
               params |-> {ParamType(s.catches[i]) : i \in 1 .. Len(s.catches)}]
      body == CheckBlockFrom(s.body, max, reach,
                [S EXCEPT !.tries = Push(@, this), !.thrown = Push(@, {})])
  IN  [s |-> body.s, thrown |-> Top(body.S.thrown) \cup {"Error", "RuntimeException"},
       S |-> [body.S EXCEPT !.tries[Len(body.S.tries)].processing = FALSE, !.thrown = Pop(@)]]

\* The catch blocks, after the try block.
CheckTryCatches(s, first, body) ==
  CheckCatches(s, 1, body.thrown,
    [S |-> body.S, clauses |-> <<>>, caught |-> {}, done |-> body.s.done,
     blocks |-> [i \in 1 .. Len(s.catches) |-> first + i - 1]])

\* What is not caught is passed on, unless the finally hides it.
EndTry(s, reach, abrupt, finally, body, catches) ==
  LET popped == [catches.S EXCEPT !.tries = Pop(@)]
      passed == IF popped.thrown = <<>> THEN popped
                ELSE [popped EXCEPT !.thrown[Len(popped.thrown)] =
                        @ \cup (body.thrown \ catches.caught)]
  IN  [s |-> Noted([s EXCEPT !.body = body.s, !.catches = catches.clauses,
                             !.finally = IF @ = <<>> THEN @ ELSE <<finally.s>>],
                   reach, catches.done /\ ~abrupt),
       S |-> IF abrupt THEN [passed EXCEPT !.thrown = Pop(@), !.abrupt = Pop(@)] ELSE passed]

CheckTried(s, reach, abrupt, finally, first, body) ==
  EndTry(s, reach, abrupt, finally, body, CheckTryCatches(s, first, body))

CheckAfterFinally(s, reach, max, abrupt, finally) ==
  LET hiding == IF abrupt THEN [finally.S EXCEPT !.thrown = Push(@, {}),
                                                 !.abrupt = Push(@, finally.s.lev)]
                ELSE finally.S
      opened == OpenedResources(s, hiding)
  IN  CheckTried(s, reach, abrupt, finally, opened.next,
                 CheckTryBlock(s, max, reach, abrupt, CatchBlocks(s, max, opened)))

CheckFinally(s, reach, early, finally) ==
  CheckAfterFinally(s, reach, IF s.finally = <<>> THEN early ELSE finally.s.max,
                    s.finally # <<>> /\ ~finally.s.done, finally)

CheckTry(s, reach, S) ==
  LET helped == IF s.finally # <<>> \/ s.resources # <<>>
                THEN ReserveHelper(S, IF s.resources = <<>> THEN 2 ELSE 3) ELSE S
  IN  CheckFinally(s, reach, S.info[TopBlock(S)].max,
                   IF s.finally = <<>> THEN [s |-> s, S |-> helped]
                   ELSE CheckBlock(s.finally[1], reach, helped))

-----------------------------------------------------------------------------
EndIf(s, reach, then, else) ==
  [s |-> Noted([s EXCEPT !.then = then.s, !.else = <<else.s>>], reach,
               then.s.done \/ else.s.done), S |-> else.S]

\* The block after the else; without one the statement may always complete.
CheckElse(s, reach, then) ==
  IF s.else = <<>> THEN [s |-> Noted([s EXCEPT !.then = then.s], reach, reach), S |-> then.S]
  ELSE EndIf(s, reach, then, CheckBlock(s.else[1], reach, then.S))

\* ProcessStatement.
Check(s, reach, S) ==
  CASE s.k \in {"empty", "assign", "use", "inc", "eval", "assert"} ->
         [s |-> Noted(s, reach, reach), S |-> S]
    [] s.k = "call" -> [s |-> Noted(s, reach, reach), S |-> Throws(S, s.throws)]
    [] s.k = "local" -> [s |-> Noted(s, reach, reach), S |-> DeclareIn(S, TopBlock(S), s.v)]
    [] s.k = "block" -> CheckBlock(s, reach, S)
    [] s.k = "if" ->
         CheckElse(s, reach, CheckBlock(s.then, reach, S))
    [] s.k \in {"while", "for"} -> CheckTestedLoop(s, reach, S)
    [] s.k = "do" -> CheckDo(s, reach, S)
    [] s.k = "foreach" -> CheckForeach(s, reach, S)
    [] s.k = "switch" -> CheckSwitch(s, reach, S)
    [] s.k = "break" -> CheckBreak(s, reach, S)
    [] s.k = "continue" -> CheckContinue(s, reach, S)
    [] s.k = "return" -> CheckReturn(s, reach, S)
    [] s.k \in {"throw", "rethrow"} -> CheckThrow(s, reach, S)
    [] s.k = "sync" -> CheckSynchronized(s, reach, S)
    [] s.k = "try" -> CheckTry(s, reach, S)

(***************************************************************************)
(* ProcessMethodBody: a method that can fall off its end gets a return, or *)
(* an error if it has to return a value.  params are its parameters, in    *)
(* the slots after "this".                                                 *)
(***************************************************************************)
ReturnAdded == [k |-> "return", what |-> "", reach |-> TRUE, done |-> FALSE]

EndMethod(m, inner) ==
  LET falls == inner.S.info[1].done
      S == IF falls /\ ~m.void THEN Report(inner.S, "noreturn") ELSE inner.S
  IN  [err |-> S.err, slot |-> S.slot, owner |-> S.owner, params |-> m.params, void |-> m.void,
       body |-> [m.body EXCEPT !.list = IF falls /\ m.void THEN Append(inner.list, ReturnAdded)
                                        ELSE inner.list]
                @@ [lev |-> 0, max |-> S.info[1].max, helper |-> S.info[1].helper, id |-> 1,
                    reach |-> TRUE, done |-> falls /\ ~m.void]]

CheckMethod(m) ==
  LET params[i \in 0 .. Len(m.params)] ==
        IF i = 0
        THEN Enter(NewBlock([NoStacks EXCEPT !.method =
                               [void |-> m.void, throws |-> m.throws]], 1, TRUE), 1)
        ELSE DeclareIn(params[i - 1], 1, m.params[i])
  IN  EndMethod(m, CheckStatements(m.body.list, 1, params[Len(m.params)]))
=============================================================================
