----------------------------- MODULE Definite -----------------------------
(***************************************************************************)
(* The pass of src/src/definite.cpp over a checked method: every local     *)
(* variable is definitely assigned (da) where it is read, every blank      *)
(* final definitely unassigned (du) where it is assigned.                  *)
(*                                                                         *)
(* A variable is its stack slot, as in the code, so that the slot of a     *)
(* variable that went out of scope is used again for another one.  The     *)
(* record D holds what the Semantic keeps: cur is                          *)
(* DefinitelyAssignedVariables, blank BlankFinals, reachable               *)
(* ReachableAssignments, finals DefiniteFinalAssignments, brk, cont and    *)
(* continued the arrays of DefiniteBlocks (index 0 is level 0), size its   *)
(* Size(), abrupt AbruptFinallyStack.                                      *)
(***************************************************************************)
EXTENDS BodyChecks
LOCAL INSTANCE SequencesExt

(***************************************************************************)
(* A DefinitePair, the pair that holds in unreachable places, and the      *)
(* intersection (operator *=).                                             *)
(***************************************************************************)
Pair(da, du) == [da |-> da, du |-> du]
Universe(n) == Pair(0 .. n - 1, 0 .. n - 1)
p ** q == Pair(p.da \cap q.da, p.du \cap q.du)
Assigning(p, i) == Pair(p.da \cup {i}, p.du \ {i})
Reclaimed(p, i) == Pair(p.da \ {i}, p.du \cup {i})

Wrong(D, error) == [D EXCEPT !.err = @ \cup {error}]

\* A use of the variable in slot i.
Access(D, i) ==
  IF i \in D.cur.da THEN D ELSE [Wrong(D, "unassigned") EXCEPT !.cur.da = @ \cup {i}]

\* A simple assignment to v.
AssignTo(D, v) ==
  LET i == D.slot[v]
      noted == [D EXCEPT !.finals = IF @ = <<>> THEN @
                                    ELSE [@ EXCEPT ![Len(@)] = @ \cup {i}],
                         !.reachable = @ \cup {i}]
      told == IF i \notin D.blank \/ i \notin D.cur.du THEN Wrong(noted, "final") ELSE noted
  IN  [IF v \in Finals THEN told ELSE D EXCEPT !.cur = Assigning(@, i)]

\* x++
IncrementOf(D, v) ==
  LET read == Access(D, D.slot[v]) IN IF v \in Finals THEN Wrong(read, "final") ELSE read

-----------------------------------------------------------------------------
(***************************************************************************)
(* DefiniteBooleanExpression: D afterwards and the pairs when the          *)
(* condition is true and false.  The visitors return NULL for an           *)
(* expression without speculation; then both are the current pair.         *)
(***************************************************************************)
RECURSIVE Bool(_, _)
Bool(e, D) ==
  LET plain(E) == [D |-> E, t |-> E.cur, f |-> E.cur]
      all == Universe(D.n)
      with(E, pair) == [E EXCEPT !.cur = pair]
  IN  CASE Constant(e) = "true" -> [D |-> D, t |-> D.cur, f |-> all]
        [] Constant(e) = "false" -> [D |-> D, t |-> all, f |-> D.cur]
        [] e.op = "cond" -> plain(D)
        [] e.op = "use" -> plain(Access(D, D.slot[e.v]))
        [] e.op = "asg" -> plain(AssignTo(D, e.v))
        [] e.op = "not" -> LET b == Bool(e.e, D) IN [b EXCEPT !.t = b.f, !.f = b.t]
        [] e.op = "and" ->
             LET l == Bool(e.e, D)
                 r == Bool(e.f, with(l.D, l.t))
             IN  [r EXCEPT !.f = r.f ** l.f]
        [] e.op = "or" ->
             LET l == Bool(e.e, D)
                 r == Bool(e.f, with(l.D, l.f))
             IN  [r EXCEPT !.t = r.t ** l.t]
        [] e.op = "select" ->
             LET c == Bool(e.c, D)
                 t == Bool(e.e, with(c.D, c.t))
                 f == Bool(e.f, with(t.D, c.f))
             IN  [f EXCEPT !.t = t.t ** f.t, !.f = t.f ** f.f]

\* DefiniteExpression.
Expr(e, D) ==
  IF Constant(e) # "none" THEN D
  ELSE LET b == Bool(e, D) IN [b.D EXCEPT !.cur = b.t ** b.f]

-----------------------------------------------------------------------------
PushBlock(D) ==
  [D EXCEPT !.brk[D.size] = Universe(D.n), !.cont[D.size] = Universe(D.n),
            !.continued[D.size] = FALSE, !.size = @ + 1]
PopBlock(D) == [D EXCEPT !.size = @ - 1]
TopBreakPair(D) == D.brk[D.size - 1]
TopContinuePair(D) == D.cont[D.size - 1]
Arriving(D, lev) == (IF D.abrupt = <<>> THEN 0 ELSE Last(D.abrupt)) < lev

\* The variables of block b go out of scope.
OutOfScope(D, b) ==
  LET gone == {D.slot[v] : v \in {w \in Variables : D.owner[w] = b}}
  IN  [D EXCEPT !.blank = @ \ gone, !.reachable = @ \ gone,
                !.cur = Pair(@.da \ gone, @.du \cup gone)]

\* Mutant: the end of a loop body is not checked.
LoopBodyUnchecked(D, before, mayRepeat) == [D EXCEPT !.finals = Front(@)]

(***************************************************************************)
(* The end of a loop body: a final assigned in it, unassigned in front of  *)
(* the loop and not any more at its end, may be assigned twice.            *)
(***************************************************************************)
LoopBody(D, before, mayRepeat) ==
  LET told == IF mayRepeat /\ (before \ D.cur.du) \cap Last(D.finals) # {}
              THEN Wrong(D, "final") ELSE D
  IN  [told EXCEPT !.finals = Front(@)]

FallsThrough(body) ==
  body.reach /\ (body.list = <<>> \/ Last(body.list).done)
MayRepeat(body, D) == FallsThrough(body) \/ D.continued[D.size - 1]

RECURSIVE Def(_, _), DefList(_, _), DefCatches(_, _, _)

\* DefiniteBlockStatements: up to the first unreachable statement.
DefList(list, D) ==
  IF list = <<>> \/ ~Head(list).reach THEN D ELSE DefList(Tail(list), Def(Head(list), D))

DefBlock(s, D) ==
  LET inner == OutOfScope(DefList(s.list, PushBlock(D)), s.id)
      gone == {D.slot[v] : v \in {w \in Variables : D.owner[w] = s.id}}
      told == [inner EXCEPT !.cont[inner.size - 2] = Pair(@.da \ gone, @.du \cup gone)]
  IN  PopBlock(IF s.label = "" THEN told ELSE [told EXCEPT !.cur = @ ** TopBreakPair(told)])

DefBody(s, D) == IF s.reach THEN DefBlock(s, D) ELSE D
JoinContinue(D) == [D EXCEPT !.cur = @ ** TopContinuePair(D)]
StartLoop(D) == [D EXCEPT !.finals = Append(@, {})]

DefWhile(s, D) ==
  LET test == Bool(s.e, StartLoop(D))
      body == JoinContinue(DefBody(s.body, [test.D EXCEPT !.cur = test.t]))
      end == LoopBody(body, D.cur.du,
                      Constant(s.e) # "false" /\ MayRepeat(s.body, body))
  IN  [end EXCEPT !.cur = TopBreakPair(end) ** test.f]

\* The updates count only when they can be reached.
DefFor(s, D) ==
  LET inits == DefList(s.init, D)
      test == Bool(s.e, StartLoop(inits))
      body == JoinContinue(DefBody(s.body, [test.D EXCEPT !.cur = test.t]))
      reached == s.body.reach /\ MayRepeat(s.body, body)
      end == IF reached
             THEN LoopBody(DefList([i \in DOMAIN s.update |->
                                     [s.update[i] EXCEPT !.reach = TRUE]], body),
                           inits.cur.du, Constant(s.e) # "false")
             ELSE [body EXCEPT !.finals = Front(@)]
  IN  [end EXCEPT !.cur = TopBreakPair(end) ** test.f]

DefForeach(s, D) ==
  LET start == StartLoop([D EXCEPT !.cur = Assigning(@, D.slot[s.v])])
      body == JoinContinue(DefBody(s.body, start))
      end == LoopBody(body, start.cur.du, s.body.reach /\ MayRepeat(s.body, body))
  IN  [end EXCEPT !.cur = TopBreakPair(end) ** start.cur]

DefDo(s, D) ==
  LET body == JoinContinue(DefBlock(s.body, StartLoop(D)))
      test == Bool(s.e, body)
      end == LoopBody([test.D EXCEPT !.cur = test.t], D.cur.du,
                      Constant(s.e) # "false" /\ MayRepeat(s.body, test.D))
  IN  [end EXCEPT !.cur = TopBreakPair(end) ** test.f]

\* With a constant condition only one branch counts.
DefIf(s, D) ==
  LET test == Bool(s.e, D)
      yes == [test.D EXCEPT !.cur = test.t]
      no(E) == [E EXCEPT !.cur = test.f]
      then == DefBlock(s.then, yes)
  IN  CASE Constant(s.e) = "true" -> then
        [] Constant(s.e) = "false" ->
             IF s.else = <<>> THEN [yes EXCEPT !.cur = @ ** test.f]
             ELSE DefBlock(s.else[1], no(yes))
        [] OTHER ->
             IF s.else = <<>> THEN [then EXCEPT !.cur = @ ** test.f]
             ELSE LET else == DefBlock(s.else[1], no(then))
                  IN  [else EXCEPT !.cur = @ ** then.cur]

DefSwitch(s, D) ==
  LET start == PushBlock(D)
      group[i \in 0 .. Len(s.groups)] ==
        IF i = 0 THEN start
        ELSE DefList(s.groups[i].list, [group[i - 1] EXCEPT !.cur = @ ** D.cur])
      last == group[Len(s.groups)]
      skipped == IF \E i \in DOMAIN s.groups : s.groups[i].default THEN last
                 ELSE [last EXCEPT !.cur = @ ** D.cur]
      left == [skipped EXCEPT !.cur = @ ** TopBreakPair(skipped)]
  IN  PopBlock(OutOfScope(left, s.id))

-----------------------------------------------------------------------------
(***************************************************************************)
(* try: the catch blocks start with what is assigned before the try, and   *)
(* with as unassigned only what no reachable assignment of the try block   *)
(* assigns; so does the finally block.                                     *)
(***************************************************************************)
\* Mutant: a catch block starts with what the try block assigns at its end.
DefCatchesLate(s, i, acc) ==
  IF i > Len(s.catches) THEN acc
  ELSE LET c == s.catches[i]
           slot == acc.D.slot[c.v]
           in == [acc.D EXCEPT !.cur = Pair(acc.D.cur.da \cup {slot},
                                            acc.unassigned \cup {slot})]
           out == [DefBlock(c.body, in) EXCEPT !.cur = Reclaimed(@, slot)]
       IN  DefCatches(s, i + 1,
             [acc EXCEPT !.D = out, !.da = @ \cap out.cur.da, !.du = @ \cap out.cur.du])

DefCatches(s, i, acc) ==
  IF i > Len(s.catches) THEN acc
  ELSE LET c == s.catches[i]
           slot == acc.D.slot[c.v]
           in == [acc.D EXCEPT !.cur = Pair(acc.before.da \cup {slot},
                                            acc.unassigned \cup {slot})]
           out == [DefBlock(c.body, in) EXCEPT !.cur = Reclaimed(@, slot)]
       IN  DefCatches(s, i + 1,
             [acc EXCEPT !.D = out, !.da = @ \cap out.cur.da, !.du = @ \cap out.cur.du])

\* What the block of the finally assigns holds however the try was left.
EndDefFinally(last, da) ==
  [last EXCEPT !.ret.da = @ \cap (last.cur.da \cup da),
               !.cur = Pair(@.da \cup da \cup last.reachable, @.du)]

DefFinally(s, before, acc, shown) ==
  IF s.finally = <<>> THEN [shown EXCEPT !.cur = Pair(acc.da, acc.du)]
  ELSE EndDefFinally(DefBlock(s.finally[1], [shown EXCEPT !.cur =
                                               Pair(before.da, before.du \ shown.reachable)]),
                     acc.da)

DefCaught(s, reachable, acc, abrupt) ==
  LET shown == IF abrupt THEN [acc.D EXCEPT !.abrupt = Front(@)] ELSE acc.D IN
    [DefFinally(s, acc.before, acc, shown) EXCEPT !.reachable = @ \cup reachable]

DefAfterTry(s, start, abrupt, body) ==
  DefCaught(s, start.reachable,
    DefCatches(s, 1, [D |-> body, before |-> start.cur,
                      unassigned |-> start.cur.du \ body.reachable,
                      da |-> body.cur.da, du |-> body.cur.du]),
    abrupt)

DefTry(s, D) ==
  LET abrupt == s.finally # <<>> /\ ~s.finally[1].done
      hiding == IF abrupt THEN [D EXCEPT !.abrupt = Append(@, s.finally[1].lev)] ELSE D
      open[i \in 0 .. Len(s.resources)] ==
        IF i = 0 THEN hiding
        ELSE [open[i - 1] EXCEPT !.cur = Assigning(@, D.slot[s.resources[i]])]
      start == open[Len(s.resources)]
  IN  DefAfterTry(s, start, abrupt, DefBlock(s.body, [start EXCEPT !.reachable = {}]))

DefAssert(s, D) ==
  LET test == Bool(s.e, D)
  IN  [test.D EXCEPT !.cur = Pair(D.cur.da, D.cur.du \cap test.t.du)]

\* After a jump every variable is vacuously assigned and unassigned.
Vacuous(D) == [D EXCEPT !.cur = Universe(D.n)]

Def(s, D) ==
  CASE s.k \in {"empty", "call"} -> D
    [] s.k = "assign" -> AssignTo(D, s.v)
    [] s.k = "use" -> Access(D, D.slot[s.v])
    [] s.k = "inc" -> IncrementOf(D, s.v)
    [] s.k = "eval" -> Expr(s.e, D)
    [] s.k = "local" ->
         LET i == D.slot[s.v] IN
           IF s.init # "" THEN [D EXCEPT !.cur = Assigning(@, i)]
           ELSE [D EXCEPT !.cur = Reclaimed(@, i),
                          !.blank = IF s.v \in Finals THEN @ \cup {i} ELSE @]
    [] s.k \in {"block", "sync"} -> DefBlock(IF s.k = "sync" THEN s.body ELSE s, D)
    [] s.k = "if" -> DefIf(s, D)
    [] s.k = "while" -> DefWhile(s, D)
    [] s.k = "for" -> DefFor(s, D)
    [] s.k = "foreach" -> DefForeach(s, D)
    [] s.k = "do" -> DefDo(s, D)
    [] s.k = "switch" -> DefSwitch(s, D)
    [] s.k = "break" ->
         Vacuous(IF Arriving(D, s.lev) THEN [D EXCEPT !.brk[s.lev] = @ ** D.cur] ELSE D)
    [] s.k = "continue" ->
         Vacuous(IF Arriving(D, s.lev)
                 THEN [D EXCEPT !.cont[s.lev] = @ ** D.cur, !.continued[s.lev] = TRUE] ELSE D)
    [] s.k = "return" ->
         LET read == IF s.what \in Variables THEN Access(D, D.slot[s.what]) ELSE D
         IN  Vacuous(IF D.abrupt = <<>> THEN [read EXCEPT !.ret = @ ** read.cur] ELSE read)
    [] s.k = "throw" -> Vacuous(D)
    [] s.k = "rethrow" -> Vacuous(Access(D, D.slot[s.v]))
    [] s.k = "assert" -> DefAssert(s, D)
    [] s.k = "try" -> DefTry(s, D)

(***************************************************************************)
(* DefiniteMethodBody.  The sets have a bit for every slot of the method,  *)
(* MaxDepth bounds the nesting of its blocks.                              *)
(***************************************************************************)
MaxDepth == 12

DefiniteMethod(m) ==
  LET n == m.body.max
      levels(x) == [i \in 0 .. MaxDepth |-> x]
      start == [cur |-> Pair({m.slot[m.params[i]] : i \in DOMAIN m.params},
                             (0 .. n - 1) \ {m.slot[m.params[i]] : i \in DOMAIN m.params}),
                blank |-> {}, reachable |-> {}, finals |-> <<>>, abrupt |-> <<>>,
                brk |-> levels(Pair({}, 0 .. n - 1)), cont |-> levels(Pair({}, 0 .. n - 1)),
                continued |-> levels(FALSE), size |-> 0, ret |-> Universe(n), n |-> n,
                slot |-> m.slot, owner |-> m.owner, err |-> {}]
  IN  DefList(m.body.list, PushBlock(start)).err
=============================================================================
