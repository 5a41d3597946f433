---------------------------- MODULE StatementCode ----------------------------
(***************************************************************************)
(* The generation of byte code for the statements of a checked method:     *)
(* src/src/codegen/bytecode_stmt.cpp, with the labels of bytecode_ops.cpp, *)
(* the MethodStack of bytecode.h and the exception table of class.h.       *)
(*                                                                         *)
(* An instruction is one element of the code, whatever its length in       *)
(* bytes, and pcs count from 1.  The record G is the state of ByteCode:    *)
(* code and table (the code attribute), frames (MethodStack), labels,      *)
(* lastOp, lastGoto, lastLabel for the removal of a jump to the next       *)
(* instruction, depth and deepest (stack_depth and max_stack).  err        *)
(* collects the assertions that fail.  An instruction with several targets *)
(* (a switch) has a target for every answer; the others have one, under "". *)
(***************************************************************************)
EXTENDS Definite
LOCAL INSTANCE SequencesExt

CONSTANT InlineFinally   \* option.target >= 1.7

NoTag == "none"

Smaller(a, b) == IF a > b THEN b ELSE a

Pc(G) == Len(G.code) + 1

\* stack_effect.
Pushing == {"load", "const", "zero", "null", "cond", "value", "new", "dup", "dup_x1", "lock",
            "array", "iterator", "open", "disabled"}
Popping == {"store", "pop", "use", "ifeq", "ifne", "ifnull", "ifnonnull", "switch", "athrow",
            "vreturn", "monitorenter", "monitorexit", "close", "suppress", "aload"}
Effect(op) ==
  CASE op \in Pushing -> 1
    [] op \in Popping -> -1
    [] op \in {"icmpgt", "icmpne"} -> -2
    [] OTHER -> 0

\* Mutant: the most is noted only when the depth falls.
ReachLate(G, depth, effect) ==
  [G EXCEPT !.depth = depth, !.deepest = IF effect < 0 THEN Larger(@, depth) ELSE @]

\* ChangeStack.
Reach(G, depth, effect) ==
  [G EXCEPT !.depth = depth, !.deepest = IF effect > 0 THEN Larger(@, depth) ELSE @]
ChangeStack(G, effect) == Reach(G, Larger(0, G.depth + effect), effect)

Put(G, op, n, v) ==
  ChangeStack([G EXCEPT !.code = Append(@, [op |-> op, n |-> n, v |-> v, to |-> << >>]),
                        !.lastOp = Pc(G), !.lastGoto = op = "goto"],
              Effect(op))

Op(G, op) == Put(G, op, 0, "")
Load(G, slot) == Put(G, "load", slot, "")
Store(G, slot) == Put(G, "store", slot, "")
Const(G, site) == Put(G, "const", 0, site)

Fault(G, what) == [G EXCEPT !.err = @ \cup {what}]

\* What control brings along: stack_depth is set, max_stack is not.
WithDepth(G, n) == [G EXCEPT !.depth = n]
AtDepth0(G) == IF G.depth = 0 THEN G ELSE Fault(G, "depth")

-----------------------------------------------------------------------------
(***************************************************************************)
(* Labels.                                                                 *)
(***************************************************************************)
NoLabel == [uses |-> <<>>, def |-> 0]

NewLabel(G) == [G EXCEPT !.labels = Append(@, NoLabel)]
Newest(G) == Len(G.labels)

IsLabelUsed(G, l) == G.labels[l].uses # <<>>

\* The instruction just emitted jumps to l, on that answer.
UseLabel(G, l, key) ==
  [G EXCEPT !.labels[l].uses = Append(@, [pc |-> G.lastOp, key |-> key])]

EmitBranch(G, op, l) == UseLabel(Op(G, op), l, "")

\* Mutant: a jump is removed even if something else leads behind it.
OnlyJumpsHereHasty(G, uses) == G.lastGoto /\ uses # <<>> /\ Last(uses).pc = G.lastOp

\* The last instruction is a goto to the place where it ends, and no label is there yet.
OnlyJumpsHere(G, uses) ==
  G.lastGoto /\ uses # <<>> /\ Last(uses).pc = G.lastOp /\ Pc(G) # G.lastLabel

LabelHere(G, l, lab) ==
  [G EXCEPT !.labels[l].def = Pc(G), !.lastLabel = IF lab.uses # <<>> THEN Pc(G) ELSE @,
            !.err = IF lab.def # 0 THEN @ \cup {"label"} ELSE @]

DefineLabel(G, l) ==
  LET dropped == IF OnlyJumpsHere(G, G.labels[l].uses)
                 THEN [G EXCEPT !.code = Front(@), !.labels[l].uses = Front(@),
                                !.lastGoto = FALSE]
                 ELSE G
      here(H) == LabelHere(H, l, H.labels[l])
  IN  here(dropped)

\* The jumps to lab get their target.
Patched(code, lab, def) ==
  [pc \in DOMAIN code |->
     LET keys == {lab.uses[u].key : u \in {w \in DOMAIN lab.uses : lab.uses[w].pc = pc}}
     IN  [code[pc] EXCEPT !.to = [key \in keys |-> def] @@ @]]

CompleteLabel(G, l) ==
  LET lab == G.labels[l] IN
    [G EXCEPT !.labels[l] = NoLabel,
              !.err = IF lab.uses # <<>> /\ lab.def = 0 THEN @ \cup {"label"} ELSE @,
              !.code = IF lab.uses = <<>> THEN @ ELSE Patched(@, lab, Smaller(lab.def, Pc(G)))]

PlaceLabel(G, l) == CompleteLabel(DefineLabel(G, l), l)

-----------------------------------------------------------------------------
\* AddException: an empty range is left out, adjacent ones are joined.
AddException(G, start, end, handler, type) ==
  LET top == Last(G.table) IN
    IF start = end THEN G
    ELSE IF G.table # <<>> /\ end = top.start /\ handler = top.handler /\ type = top.type
    THEN [G EXCEPT !.table[Len(G.table)].start = start]
    ELSE [G EXCEPT !.table = Append(@, [start |-> start, end |-> end, handler |-> handler,
                                        type |-> type])]

\* One entry for every range, the last one first.
RECURSIVE AddExceptions(_, _, _, _, _)
AddExceptions(G, starts, ends, handler, type) ==
  IF starts = <<>> THEN G
  ELSE AddExceptions(AddException(G, Last(starts), Last(ends), handler, type),
                     Front(starts), Front(ends), handler, type)

-----------------------------------------------------------------------------
(***************************************************************************)
(* The MethodStack.  A frame is found by the nesting level the checks gave *)
(* its block, from the top; HandlerRangeStart and HandlerRangeEnd count    *)
(* frames from 0 instead.                                                  *)
(***************************************************************************)
TopFrame(G) == Last(G.frames)

PushFrame(G, s, tag) ==
  LET H == NewLabel(NewLabel(NewLabel(G))) IN
    [H EXCEPT !.frames = Append(@, [lev |-> s.lev, helper |-> s.helper, tag |-> tag,
                                    brk |-> Newest(G) + 1, cont |-> Newest(G) + 2,
                                    fin |-> Newest(G) + 3, starts |-> <<>>, ends |-> <<>>,
                                    try |-> <<>>])]
PopFrame(G) == [G EXCEPT !.frames = Front(@)]

FindIndex(G, lev) ==
  LET at == {i \in DOMAIN G.frames : G.frames[i].lev = lev} IN
    IF at = {} THEN 1 ELSE CHOOSE i \in at : \A j \in at : j =< i
Frame(G, lev) == G.frames[FindIndex(G, lev)]

PushEnd(G, i) ==
  IF i + 1 > Len(G.frames) THEN Fault(G, "frame")
  ELSE [G EXCEPT !.frames[i + 1].ends = Append(@, Pc(G))]
PushStart(G, i, width) ==
  IF i + 1 > Len(G.frames) THEN Fault(G, "frame")
  ELSE [G EXCEPT !.frames[i + 1].starts = Append(@, Pc(G) + width)]

\* Mutant: the range of a try is not begun.
StartRangeLater(G) == G

\* The ranges of the top frame: the one for the try or synchronized at hand.
StartRange(G) == [G EXCEPT !.frames[Len(G.frames)].starts = Append(@, Pc(G))]

ResetRanges(G) == [G EXCEPT !.frames[Len(G.frames)].starts = <<>>,
                            !.frames[Len(G.frames)].ends = <<>>]
CloseRanges(G, end, handler) ==
  LET top == TopFrame(G)
      ends == Append(top.ends, end)
  IN  IF Len(top.starts) # Len(ends) THEN Fault(ResetRanges(G), "ranges")
      ELSE ResetRanges(AddExceptions(G, top.starts, ends, handler, "any"))

-----------------------------------------------------------------------------
(***************************************************************************)
(* Conditions.                                                             *)
(***************************************************************************)
IsConstant(e) == Constant(e) # "none"
IsOne(e) == Constant(e) = "true"
IsZero(e) == Constant(e) = "false"

\* A statement, or list of statements, without code.
RECURSIVE IsNop(_)
IsNop(block) ==
  \A i \in DOMAIN block.list :
    LET s == block.list[i] IN
      \/ s.k = "empty"
      \/ s.k = "block" /\ IsNop(s)
      \/ /\ s.k = "if"
         /\ \/ IsOne(s.e) /\ IsNop(s.then)
            \/ IsZero(s.e) /\ (s.else = <<>> \/ IsNop(s.else[1]))

RECURSIVE BranchIf(_, _, _, _), Effects(_, _)

\* The condition on the operand stack; only for those the branches leave.
Value(G, e) ==
  CASE e.op = "cond" -> Op(G, "cond")
    [] e.op = "use" -> Op(Load(G, G.slot[e.v]), "test")
    [] e.op = "asg" -> Store(Op(Put(G, "cond", 0, e.site), "dup"), G.slot[e.v])

\* EmitExpression(e, false): the side effects of the condition.
Effects(G, e) ==
  LET short(left, right, when) ==
        IF IsConstant(right) THEN Effects(G, left)
        ELSE IF Constant(left) = when THEN G
        ELSE LET H == NewLabel(G)
                 l == Newest(H)
             IN  PlaceLabel(Effects(BranchIf(H, left, when = "true", l), right), l)
  IN  CASE IsConstant(e) -> G
        [] e.op = "cond" -> Op(Op(G, "cond"), "pop")
        [] e.op = "use" -> G
        [] e.op = "asg" -> Store(Put(G, "cond", 0, e.site), G.slot[e.v])
        [] e.op = "not" -> Effects(G, e.e)
        [] e.op = "or" -> short(e.e, e.f, "true")
        [] e.op = "and" -> short(e.e, e.f, "false")
        [] e.op = "select" ->
             LET H == NewLabel(NewLabel(G))
                 l == Newest(G) + 1
                 m == Newest(G) + 2
                 then == EmitBranch(Effects(BranchIf(H, e.c, FALSE, l), e.e), "goto", m)
             IN  IF IsConstant(e.c) THEN Effects(G, IF IsZero(e.c) THEN e.f ELSE e.e)
                 ELSE IF IsConstant(e.e) /\ IsConstant(e.f) THEN Effects(G, e.c)
                 ELSE IF IsConstant(e.e)
                 THEN PlaceLabel(Effects(BranchIf(H, e.c, TRUE, l), e.f), l)
                 ELSE IF IsConstant(e.f)
                 THEN PlaceLabel(Effects(BranchIf(H, e.c, FALSE, l), e.e), l)
                 ELSE CompleteLabel(PlaceLabel(Effects(DefineLabel(then, l), e.f), m), l)

(***************************************************************************)
(* EmitBranchIfExpression: jump to l when e turns out to be cond.  Both    *)
(* operands short-circuit, so that each case is one of two shapes: the     *)
(* first operand jumps over the test of the second, or both jump to l.     *)
(***************************************************************************)
JumpIf(G, yes, l) == IF yes THEN EmitBranch(G, "goto", l) ELSE G

\* Test "first" for sense, jump over the test of "second".
BranchOver(G, first, sense, second, cond, l) ==
  LET H == NewLabel(G)
      skip == Newest(H)
  IN  PlaceLabel(BranchIf(BranchIf(H, first, sense, skip), second, cond, l), skip)
BranchBoth(G, first, sense, second, cond, l) ==
  BranchIf(BranchIf(G, first, sense, l), second, cond, l)

\* e && f is decided by a false operand, e || f by a true one.
BranchIfAndOr(G, e, cond, l) ==
  LET decided == e.op = "or"
      isDecided(o) == Constant(o) = IF decided THEN "true" ELSE "false"
  IN  CASE IsConstant(e.e) ->
             IF isDecided(e.e) THEN JumpIf(G, cond = decided, l) ELSE BranchIf(G, e.f, cond, l)
        [] ~IsConstant(e.e) /\ IsConstant(e.f) ->
             IF isDecided(e.f) THEN JumpIf(Effects(G, e.e), cond = decided, l)
             ELSE BranchIf(G, e.e, cond, l)
        [] OTHER -> IF cond = decided THEN BranchBoth(G, e.e, decided, e.f, cond, l)
                    ELSE BranchOver(G, e.e, decided, e.f, cond, l)

\* c ? e : f; when one of e and f is constant it is decided by c alone there.
BranchIfSelect(G, e, cond, l) ==
  LET H == NewLabel(NewLabel(G))
      l1 == Newest(G) + 1
      l2 == Newest(G) + 2
      then == BranchIf(BranchIf(H, e.c, FALSE, l1), e.e, cond, l)
      else == PlaceLabel(EmitBranch(then, "goto", l2), l1)
      half(sense, value, other) ==
        IF cond = value THEN BranchBoth(G, e.c, sense, other, cond, l)
        ELSE BranchOver(G, e.c, sense, other, cond, l)
  IN  CASE IsConstant(e.c) -> BranchIf(G, IF IsZero(e.c) THEN e.f ELSE e.e, cond, l)
        [] ~IsConstant(e.c) /\ IsConstant(e.e) /\ IsConstant(e.f) ->
             IF Constant(e.e) = Constant(e.f) THEN JumpIf(Effects(G, e.c), cond = IsOne(e.e), l)
             ELSE BranchIf(G, e.c, IF IsOne(e.e) THEN cond ELSE ~cond, l)
        [] ~IsConstant(e.c) /\ IsConstant(e.e) /\ ~IsConstant(e.f) -> half(TRUE, IsOne(e.e), e.f)
        [] ~IsConstant(e.c) /\ ~IsConstant(e.e) /\ IsConstant(e.f) -> half(FALSE, IsOne(e.f), e.e)
        [] OTHER -> PlaceLabel(BranchIf(else, e.f, cond, l), l2)

BranchIf(G, e, cond, l) ==
  CASE IsConstant(e) -> JumpIf(G, IsZero(e) # cond, l)
    [] e.op \in {"cond", "use", "asg"} ->
         EmitBranch(Value(G, e), IF cond THEN "ifne" ELSE "ifeq", l)
    [] ~IsConstant(e) /\ e.op = "not" -> BranchIf(G, e.e, ~cond, l)
    [] ~IsConstant(e) /\ e.op \in {"and", "or"} -> BranchIfAndOr(G, e, cond, l)
    [] ~IsConstant(e) /\ e.op = "select" -> BranchIfSelect(G, e, cond, l)
-----------------------------------------------------------------------------
(***************************************************************************)
(* Statements.  Emit answers with the state afterwards and whether the     *)
(* statement ends abruptly, so that what follows it is left out.           *)
(***************************************************************************)
Emitted(G, abrupt) == [G |-> G, abrupt |-> abrupt]

RECURSIVE Emit1(_, _), EmitMore(_, _), EmitList(_, _), EmitBlock(_, _, _), AbruptExit(_, _, _, _)
RECURSIVE EmitGroups(_, _, _, _), EmitCatches(_, _, _)

\* The statements of a list up to the first that ends abruptly.
EmitMore(list, r) ==
  IF r.abrupt \/ list = <<>> THEN r ELSE EmitMore(Tail(list), Emit1(Head(list), r.G))

EmitList(list, G) == EmitMore(list, Emitted(G, FALSE))

\* The end of a block: the place its breaks lead to.
EndBlock(r) ==
  LET l == TopFrame(r.G).brk
      used == IsLabelUsed(r.G, l)
  IN  Emitted(PopFrame(IF used THEN PlaceLabel(r.G, l) ELSE r.G), r.abrupt /\ ~used)

EmitBlock(s, tag, G) == EndBlock(EmitList(s.list, PushFrame(AtDepth0(G), s, tag)))

EndElse(abrupt, else, l1, l2) ==
  Emitted(CompleteLabel(IF abrupt /\ else.abrupt THEN else.G ELSE PlaceLabel(else.G, l2), l1),
          abrupt /\ else.abrupt)

\* The second block, behind the first.
EmitElse(s, then, l1, l2) ==
  LET over == IF then.abrupt THEN then.G ELSE EmitBranch(then.G, "goto", l2)
  IN  EndElse(then.abrupt, EmitBlock(s.else[1], NoTag, DefineLabel(over, l1)), l1, l2)

EmitIf(s, G) ==
  LET H == NewLabel(NewLabel(G))
      l1 == Newest(G) + 1
      hasElse == s.else # <<>> /\ ~IsNop(s.else[1])
      onlyElse == hasElse /\ IsNop(s.then)
      first == EmitBlock(IF onlyElse THEN s.else[1] ELSE s.then, NoTag,
                         BranchIf(H, s.e, onlyElse, l1))
  IN  CASE IsZero(s.e) -> IF s.else = <<>> THEN Emitted(G, FALSE)
                          ELSE EmitBlock(s.else[1], NoTag, G)
        [] IsOne(s.e) -> EmitBlock(s.then, NoTag, G)
        [] ~IsConstant(s.e) /\ hasElse /\ ~onlyElse -> EmitElse(s, first, l1, l1 + 1)
        [] ~IsConstant(s.e) /\ ~hasElse /\ IsNop(s.then) -> Emitted(Effects(G, s.e), FALSE)
        [] OTHER -> Emitted(PlaceLabel(first.G, l1), FALSE)

(***************************************************************************)
(* while and for: the test comes behind the body, unless the body runs at  *)
(* most once.  A for without updates and a while are the same code.        *)
(***************************************************************************)
EmitTested(s, G) ==
  LET top == TopFrame(G)
      endless == IsConstant(s.e)
      updates == IF s.k = "for" THEN s.update ELSE <<>>
      once == EmitBlock(s.body, NoTag, IF endless THEN G ELSE BranchIf(G, s.e, FALSE, top.brk)).G
      H == NewLabel(NewLabel(G))
      begin == Newest(G) + 1
      test == Newest(G) + 2
      start == IF endless THEN H
               ELSE EmitBranch(H, "goto", IF updates = <<>> THEN top.cont ELSE test)
      body == EmitBlock(s.body, NoTag, DefineLabel(start, begin))
      empty == Pc(body.G) = Pc(start)
      updated == EmitList(updates, DefineLabel(body.G, top.cont)).G
      again == BranchIf(PlaceLabel(updated, test), s.e, TRUE, IF empty THEN top.cont ELSE begin)
  IN  IF ~s.body.done THEN Emitted(once, endless)
      ELSE Emitted(CompleteLabel(CompleteLabel(again, begin), top.cont),
                   (endless \/ body.abrupt) /\ ~s.done)

EmitDo(s, G) ==
  LET H == NewLabel(G)
      begin == Newest(H)
      body == EmitBlock(s.body, NoTag, DefineLabel(H, begin))
      cont == TopFrame(G).cont
      continued == IsLabelUsed(body.G, cont)
      placed == IF continued THEN PlaceLabel(body.G, cont) ELSE body.G
      abrupt == body.abrupt /\ ~continued
  IN  Emitted(CompleteLabel(IF abrupt THEN placed ELSE BranchIf(placed, s.e, TRUE, begin), begin),
              (abrupt \/ IsOne(s.e)) /\ ~s.done)

(***************************************************************************)
(* foreach: over an array with its index on the stack at the head of the   *)
(* loop, over an Iterable with the iterator there.                         *)
(***************************************************************************)
EmitForeach(s, G) ==
  LET helper == TopFrame(G).helper
      comp == TopFrame(G).cont
      H == NewLabel(NewLabel(G))
      loop == Newest(G) + 1
      end == Newest(G) + 2
      array == s.over = "array"
      index == Store(Op(Store(Op(Op(Store(Op(Op(H, "array"), "dup"), helper), "arraylength"),
                                 "dup"), helper + 1), "zero"), helper + 2)
      entered == IF array THEN Op(EmitBranch(index, "ifeq", end), "zero")
                 ELSE Store(Op(EmitBranch(Op(Op(Op(H, "iterator"), "dup"), "hasnext"),
                                          "ifeq", end), "dup"), helper)
      head == DefineLabel(entered, loop)
      element == IF array THEN Put(Op(Load(head, helper), "swap"), "aload", 0, s.site)
                 ELSE Put(head, "next", 0, s.site)
      body == Emit1(s.body, Store(element, G.slot[s.v]))
      at == DefineLabel(body.G, comp)
      again == IF array
               THEN Op(EmitBranch(Op(Load(Load(Put(at, "iinc", helper + 2, "1"), helper + 1),
                                          helper + 2), "dup_x1"), "icmpgt", loop), "pop")
               ELSE EmitBranch(Op(Op(Load(at, helper), "dup"), "hasnext"), "ifne", loop)
      left == IF body.abrupt /\ ~s.body.done THEN body.G ELSE again
      out == DefineLabel(left, end)
  IN  IF array /\ IsNop(s.body)
      THEN Op(Op(Op(G, "array"), "arraylength"), "pop")
      ELSE CompleteLabel(CompleteLabel(CompleteLabel(
             IF array THEN out ELSE Op(out, "pop"), loop), comp), end)

-----------------------------------------------------------------------------
(***************************************************************************)
(* switch: the groups from the i-th on; their labels are in labels, "" for *)
(* none.  A constant switch leaves out the code in front of its group.     *)
(***************************************************************************)
EmitGroups(groups, labels, i, r) ==
  IF i > Len(groups) THEN r
  ELSE LET at == IF labels = <<>> THEN r.G ELSE DefineLabel(r.G, labels[i])
       IN  EmitGroups(groups, labels, i + 1, EmitList(groups[i].list, at))

\* The groups after a jump to the i-th: as far as control gets.
RECURSIVE EmitFrom(_, _, _)
EmitFrom(groups, i, r) ==
  IF r.abrupt \/ i > Len(groups) THEN r
  ELSE EmitFrom(groups, i + 1, EmitList(groups[i].list, r.G))

EmitSwitch(s, G) ==
  LET n == Len(s.groups)
      defaults == {i \in 1 .. n : s.groups[i].default}
      target == IF \E i \in 1 .. n : i \notin defaults /\ GroupName[i] = s.on
                THEN {CHOOSE i \in 1 .. n : GroupName[i] = s.on} ELSE defaults
      in(H) == PushFrame(H, s, "switch")
      value == Put(G, "value", 0, {GroupName[i] : i \in (1 .. n) \ defaults})
      \* one case and no default
      H == EmitBranch(Const(NewLabel(value), GroupName[1]), "icmpne", Newest(G) + 1)
      single == EndBlock(EmitGroups(s.groups, <<>>, 1, Emitted(in(H), FALSE)))
      \* the general case: the last label is the one of the default
      label[i \in 0 .. n + 1] == IF i = 0 THEN Op(in(value), "switch") ELSE NewLabel(label[i - 1])
      first == Newest(label[0])
      none == first + n + 1
      key(i) == IF i = n + 1 THEN "default" ELSE GroupName[i]
      labels == [i \in 1 .. n |-> IF i \in defaults THEN none ELSE first + i]
      use[i \in 0 .. n + 1] ==
        IF i = 0 THEN label[n + 1] ELSE IF i \in defaults THEN use[i - 1]
        ELSE UseLabel(use[i - 1], first + i, key(i))
      all == EmitGroups(s.groups, labels, 1, Emitted(use[n + 1], FALSE))
      missing == defaults = {}
      ended == IF missing THEN DefineLabel(all.G, none) ELSE all.G
      complete[i \in 0 .. n + 1] ==
        IF i = 0 THEN ended ELSE CompleteLabel(complete[i - 1], first + i)
  IN  CASE s.on # "" ->
             IF target = {} THEN Emitted(G, FALSE)
             ELSE EndBlock(EmitFrom(s.groups, CHOOSE i \in target : TRUE, Emitted(in(G), FALSE)))
        [] s.on = "" /\ n = 0 -> Emitted(Op(value, "pop"), FALSE)
        [] s.on = "" /\ n = 1 /\ ~missing ->
             EndBlock(EmitList(s.groups[1].list, in(Op(value, "pop"))))
        [] s.on = "" /\ n = 1 /\ missing ->
             Emitted(PlaceLabel(single.G, Newest(G) + 1), FALSE)
        [] OTHER -> EndBlock(Emitted(complete[n + 1], all.abrupt /\ ~missing))
-----------------------------------------------------------------------------
(***************************************************************************)
(* The resources of a try, closed from the last to the first: an exception *)
(* of close() is suppressed by the primary one (in slot helper) or by an   *)
(* earlier one of a close (in helper + 2), or becomes that one.  At the    *)
(* end the first of them is thrown when there is no primary exception.     *)
(***************************************************************************)
CloseTested(G, helper, skip) ==
  LET after == skip + 1
      check == skip + 2
      first == skip + 3
      closed == Op(G, "close")
      primary == EmitBranch(Op(Load(WithDepth(EmitBranch(closed, "goto", after), 1), helper),
                               "dup"), "ifnull", check)
      suppress(K) == EmitBranch(Op(Op(K, "swap"), "suppress"), "goto", after)
      place(K, depth, l) == Op(PlaceLabel(WithDepth(K, depth), l), "pop")
      earlier == EmitBranch(Op(Load(place(suppress(primary), 2, check), helper + 2), "dup"),
                            "ifnull", first)
      kept == EmitBranch(Store(place(suppress(earlier), 2, first), helper + 2), "goto", after)
      done == PlaceLabel(WithDepth(place(kept, G.depth, skip), 0), after)
  IN  AddException(done, Pc(G), Pc(closed), Pc(closed) + 1, "Throwable")

CloseResource(G, slot, helper) ==
  LET H == NewLabel(NewLabel(NewLabel(NewLabel(G))))
      skip == Newest(G) + 1
  IN  CloseTested(EmitBranch(Op(Load(H, slot), "dup"), "ifnull", skip), helper, skip)

ThrowSuppressing(G, helper) ==
  LET done == Newest(G)
      asked == EmitBranch(Load(EmitBranch(Load(G, helper), "ifnonnull", done), helper + 2),
                          "ifnull", done)
  IN  PlaceLabel(WithDepth(Op(Load(asked, helper + 2), "athrow"), 0), done)

EmitResourceCleanup(G, s, helper) ==
  LET n == Len(s.resources)
      closed[i \in 0 .. n] ==
        IF i = 0 THEN G ELSE CloseResource(closed[i - 1], G.slot[s.resources[n + 1 - i]], helper)
  IN  ThrowSuppressing(NewLabel(closed[n]), helper)

\* The body of the finally of s, where it is not a subroutine.
FinallyBody(s, G) ==
  IF s.finally # <<>> /\ ~IsNop(s.finally[1]) THEN EmitBlock(s.finally[1], NoTag, G).G ELSE G

InlinedFinally(G, s, helper) ==
  FinallyBody(s, IF s.resources = <<>> THEN G ELSE EmitResourceCleanup(G, s, helper))

(***************************************************************************)
(* ProcessAbruptExit: what a break, continue or return does on its way     *)
(* through the blocks down to that level.                                  *)
(***************************************************************************)
LeavesTo(G, level) ==
  LET at == {i \in 2 .. Len(G.frames) : G.frames[i].lev = level} IN
    IF at = {} THEN 1 ELSE CHOOSE i \in at : \A j \in at : j =< i

Enclosing(G, i) == Frame(G, G.frames[i - 1].lev)

\* The blocks from the i-th down to the one after stop.
AbruptExit(G, i, stop, width) ==
  LET tag == G.frames[i].tag
      outer == Enclosing(G, i)
      left == CASE tag \in {"finally", "abrupt"} /\ InlineFinally /\ outer.try # <<>> ->
                     InlinedFinally(G, outer.try[1], outer.helper)
                [] tag \in {"finally", "abrupt"} /\ ~(InlineFinally /\ outer.try # <<>>) ->
                     EmitBranch(G, IF tag = "abrupt" THEN "goto" ELSE "jsr", outer.fin)
                [] tag = "sync" -> Op(Load(G, outer.helper), "monitorexit")
                [] OTHER -> G
      ended == IF tag \in {"finally", "abrupt", "sync", "catch"}
               THEN PushEnd(left, G.frames[i - 1].lev) ELSE left
      abrupt == tag = "abrupt"
  IN  IF i = stop THEN [G |-> G, width |-> width]
      ELSE AbruptExit(ended, IF abrupt THEN stop ELSE i - 1, stop, IF abrupt THEN 0 ELSE width)

\* The ranges of the frames from the i-th up to the size-th go on, from the top down.
RECURSIVE RestartRanges(_, _, _, _)
RestartRanges(G, i, last, width) ==
  LET tag == G.frames[i].tag IN
    IF i < last THEN G
    ELSE RestartRanges(IF tag \notin {"sync", "catch", "finally", "abrupt"} THEN G
                       ELSE PushStart(G, G.frames[i - 1].lev, IF tag = "abrupt" THEN 0 ELSE width),
                       i - 1, last, width)

\* Whether the exit goes on to its own jump, and the state.
ProcessAbruptExit(G, level, value) ==
  LET size == Len(G.frames)
      stop == LeavesTo(G, level)
      path == (stop + 1) .. size
      tagged(tag) == {i \in path : G.frames[i].tag = tag}
      hidden == tagged("abrupt") # {}
      outermost == CHOOSE i \in tagged("finally") : \A j \in tagged("finally") : i =< j
      saves == value /\ ~hidden /\ tagged("finally") # {}
      slot == Enclosing(G, outermost).helper + 2
      saved == IF saves THEN Store(G, slot) ELSE IF value /\ hidden THEN Op(G, "pop") ELSE G
      last == IF hidden THEN CHOOSE i \in tagged("abrupt") : \A j \in tagged("abrupt") : j =< i
              ELSE stop + 1
      loaded(exit) == [exit EXCEPT !.G = IF saves THEN Load(@, slot) ELSE @]
      restarted(exit) == RestartRanges(exit.G, size, last, exit.width)
  IN  [G |-> restarted(loaded(AbruptExit(saved, size, stop, 1))), goesOn |-> ~hidden]

EndJump(s, exit, to) ==
  IF exit.goesOn THEN EmitBranch(exit.G, "goto", IF s.k = "break" THEN to.brk ELSE to.cont)
  ELSE exit.G

\* The frame of the target is below those the exit leaves.
EmitJump(s, G) ==
  Emitted(EndJump(s, ProcessAbruptExit(G, s.lev, FALSE), Frame(G, s.lev)), TRUE)

EndReturn(exit, value) ==
  IF exit.goesOn THEN Op(exit.G, IF value THEN "vreturn" ELSE "return") ELSE exit.G

EmitReturn(s, G) ==
  LET value == s.what # ""
      loaded == IF ~value THEN G
                ELSE IF s.what \in Variables THEN Load(G, G.slot[s.what])
                ELSE Const(G, s.what)
  IN  Emitted(EndReturn(ProcessAbruptExit(loaded, G.frames[1].lev, value), value), TRUE)

-----------------------------------------------------------------------------
(***************************************************************************)
(* synchronized: the handler comes first, so that its range can be closed  *)
(* at every exit.                                                          *)
(***************************************************************************)
EmitSynchronized(s, G) ==
  LET helper == TopFrame(G).helper
      H == NewLabel(G)
      start == EmitBranch(H, "goto", Newest(H))
      handler == Pc(start)
      released == Op(Load(WithDepth(AtDepth0(start), 1), helper), "monitorexit")
      thrown == AddException(Op(released, "athrow"), handler, Pc(released), handler, "any")
      entered == Op(Store(Op(Op(PlaceLabel(thrown, Newest(H)), "lock"), "dup"), helper),
                    "monitorenter")
      body == EmitBlock(s.body, "sync", StartRange(entered))
      left == IF body.abrupt THEN body.G ELSE Op(Load(body.G, helper), "monitorexit")
  IN  Emitted(CloseRanges(left, Pc(left), handler), body.abrupt)

\* The test of $assertionsDisabled, then the condition; the message is left out.
EmitAssert(s, G) ==
  LET H == NewLabel(G)
      l == Newest(H)
      tested == BranchIf(EmitBranch(Op(H, "disabled"), "ifne", l), s.e, TRUE, l)
  IN  IF Constant(s.e) = "true" THEN G ELSE PlaceLabel(Op(Put(tested, "new", 0, "Error"), "athrow"), l)

(***************************************************************************)
(* try: the block, the handlers of the catch clauses, and the finally as a *)
(* subroutine behind a handler of its own (or in line).  t describes the   *)
(* try: the ranges of its block, the label of its end, the tag of its      *)
(* catch blocks, whether it emits a finally.                               *)
(***************************************************************************)
EmitCatches(s, i, r) ==
  LET t == r.t
      clause == s.catches[i]
      handler == Pc(r.G)
      thrown == WithDepth(AtDepth0(r.G), 1)
      caught == IF IsNop(clause.body) THEN Op(thrown, "pop")
                ELSE Store(thrown, thrown.slot[clause.v])
      ranged == AddExceptions(caught, t.starts, t.ends, handler, ParamType(clause))
      body == EmitBlock(clause.body, t.tag, ranged)
      onwards == IF ~body.abrupt /\ (t.emitFinally \/ i < Len(s.catches))
                 THEN EmitBranch(body.G, "goto", t.end) ELSE body.G
  IN  IF i > Len(s.catches) THEN r.G ELSE EmitCatches(s, i + 1, [r EXCEPT !.G = onwards])

(***************************************************************************)
(* The handler for any exception, in front of the finally: either the      *)
(* finally in line, a second time at the end of the try, ...               *)
(***************************************************************************)
Completes(s) == s.resources # <<>> \/ s.finally[1].done

\* The code of t up to the label of its end, and behind it.
AtEnd(t, G, s, helper) ==
  IF IsLabelUsed(G, t.end) THEN InlinedFinally(PlaceLabel(G, t.end), s, helper) ELSE G

\* The handler is thrown on; the ranges end where the finally was entered.
EndHandler(G, s, handler, entered) ==
  IF Completes(s)
  THEN CloseRanges(Op(Load(G, TopFrame(G).helper), "athrow"), entered, handler)
  ELSE CloseRanges(G, handler, handler)

FinallyInLine(s, t, handler, saved) ==
  LET helper == TopFrame(saved).helper
      handle(here) == EndHandler(here, s, handler, Pc(here))
  IN  AtEnd(t, handle(InlinedFinally(saved, s, helper)), s, helper)

\* ... or as a subroutine (a piece of code, if it does not complete).
EnterSubroutine(G, t, completes, helper) ==
  IF completes THEN Store(WithDepth(G, 1), helper + 1)
  ELSE IF IsLabelUsed(G, t.end) THEN PlaceLabel(G, t.end) ELSE G

CallSubroutine(G, t, fin, handler) ==
  LET ended == EmitBranch(PlaceLabel(G, t.end), "jsr", fin) IN
    IF IsLabelUsed(G, t.end) THEN AddException(ended, Pc(ended) - 1, Pc(ended), handler, "any")
    ELSE G

FinallySubroutine(s, t, handler, saved) ==
  LET helper == TopFrame(saved).helper
      fin == TopFrame(saved).fin
      completes == Completes(s)
      called == IF completes THEN EmitBranch(saved, "jsr", fin) ELSE saved
      entry == AtDepth0(DefineLabel(EndHandler(called, s, handler, Pc(called)), fin))
      body == InlinedFinally(EnterSubroutine(entry, t, completes, helper), s, helper)
      finished == IF completes THEN CallSubroutine(Put(body, "ret", helper + 1, ""), t, fin, handler)
                  ELSE body
  IN  CompleteLabel(finished, fin)

EmitFinally(s, t, G) ==
  LET thrown == WithDepth(AtDepth0(G), 1)
      saved == IF Completes(s) THEN Store(thrown, TopFrame(G).helper) ELSE Op(thrown, "pop")
  IN  IF InlineFinally THEN FinallyInLine(s, t, Pc(G), saved)
      ELSE FinallySubroutine(s, t, Pc(G), saved)

\* The resources, and the variables that tell their exceptions apart.
OpenResources(s, G) ==
  LET open[i \in 0 .. Len(s.resources)] ==
        IF i = 0 THEN G
        ELSE Store(Put(open[i - 1], "open", 0, s.resources[i]), G.slot[s.resources[i]])
      helper == TopFrame(G).helper
  IN  IF s.resources = <<>> THEN G
      ELSE Store(Op(Store(Op(open[Len(s.resources)], "null"), helper), "null"), helper + 2)

EmitTry(s, G) ==
  LET resources == s.resources # <<>>
      explicit == s.finally # <<>> /\ ~IsNop(s.finally[1])
      emitFinally == explicit \/ resources
      abrupt == s.finally # <<>> /\ ~s.finally[1].done
      tag == IF s.finally = <<>> THEN NoTag ELSE IF ~emitFinally THEN NoTag
             ELSE IF abrupt THEN "abrupt" ELSE "finally"
      blockTag == IF s.finally = <<>> /\ resources THEN "finally"
                  ELSE IF tag = NoTag /\ s.catches # <<>> THEN "catch" ELSE tag
      start == StartRange(OpenResources(s, G))
      body == EmitBlock(s.body, blockTag, start)
      empty == Pc(body.G) = Pc(start)
      H == NewLabel(body.G)
      noted == IF InlineFinally /\ emitFinally
               THEN [H EXCEPT !.frames[FindIndex(H, TopFrame(H).lev)].try = <<s>>] ELSE H
      t == [starts |-> TopFrame(body.G).starts, ends |-> Append(TopFrame(body.G).ends, Pc(body.G)),
            end |-> Newest(H), tag |-> tag, emitFinally |-> emitFinally]
      over == IF ~body.abrupt /\ (emitFinally \/ s.catches # <<>>)
              THEN EmitBranch(noted, "goto", t.end) ELSE noted
      caught == EmitCatches(s, 1, [G |-> over, t |-> t])
  IN  Emitted(IF empty THEN InlinedFinally(ResetRanges(body.G), s, TopFrame(G).helper)
              ELSE IF emitFinally THEN EmitFinally(s, t, caught)
              ELSE ResetRanges(PlaceLabel(caught, t.end)),
              ~s.done)

-----------------------------------------------------------------------------
\* EmitStatement.
Emit1(s, start) ==
  LET G == AtDepth0(start) IN
  CASE s.k = "block" -> EmitBlock(s, NoTag, G)
    [] s.k = "empty" -> Emitted(G, FALSE)
    [] s.k = "local" ->
         Emitted(IF s.init = "" THEN G ELSE Store(Const(G, s.init), G.slot[s.v]), FALSE)
    [] s.k = "assign" -> Emitted(Store(Const(G, s.site), G.slot[s.v]), FALSE)
    [] s.k = "inc" -> Emitted(Put(G, "iinc", G.slot[s.v], s.site), FALSE)
    [] s.k = "use" -> Emitted(Op(Load(G, G.slot[s.v]), "use"), FALSE)
    [] s.k = "call" -> Emitted(Put(G, "call", 0, s.throws), FALSE)
    [] s.k = "eval" -> Emitted(Effects(G, s.e), FALSE)
    [] s.k = "if" -> EmitIf(s, G)
    [] s.k = "switch" -> EmitSwitch(s, G)
    [] s.k \in {"while", "for"} -> EmitTested(s, G)
    [] s.k = "do" -> EmitDo(s, G)
    [] s.k = "foreach" -> Emitted(EmitForeach(s, G), FALSE)
    [] s.k \in {"break", "continue"} -> EmitJump(s, G)
    [] s.k = "return" -> EmitReturn(s, G)
    [] s.k = "throw" -> Emitted(Op(Put(G, "new", 0, s.c), "athrow"), TRUE)
    [] s.k = "rethrow" -> Emitted(Op(Load(G, G.slot[s.v]), "athrow"), TRUE)
    [] s.k = "sync" -> EmitSynchronized(s, G)
    [] s.k = "try" -> EmitTry(s, G)
    [] s.k = "assert" -> Emitted(EmitAssert(s, G), FALSE)

\* The code attribute of a checked method.
MethodCode(m, G) ==
  [code |-> G.code, table |-> G.table, err |-> G.err, locals |-> m.body.max,
   stack |-> G.deepest]

EmitMethod(m) ==
  LET start == [code |-> <<>>, table |-> <<>>, frames |-> <<>>, labels |-> <<>>, lastOp |-> 0,
                lastGoto |-> FALSE, lastLabel |-> 0, depth |-> 0, deepest |-> 0, err |-> {},
                slot |-> m.slot]
  IN  MethodCode(m, EmitBlock(m.body, NoTag, start).G)
=============================================================================
