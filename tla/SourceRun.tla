------------------------------ MODULE SourceRun ------------------------------
(***************************************************************************)
(* What a compiled method promises: whenever the program has a question    *)
(* for the outside (a condition the compiler cannot know, a call, a value  *)
(* switched on, a collection) it gets an answer, and what has been seen of *)
(* it so far, and how it ended, is what the Java language says of its      *)
(* source and these answers.                                               *)
(***************************************************************************)
EXTENDS JavaStatements

CONSTANT MaxAnswers      \* the number of answers a run gets

VARIABLES method,        \* whatever method runs
          tape,          \* the answers it has had
          seen,          \* the visible events so far
          end            \* how the run ended and with what; "" while it waits

Off == <<"off", "">>
Waiting == <<"", "">>
Endless == <<"busy", "">>

\* A void method may also end by completing normally.
End(o) ==
  CASE o.k = "normal" -> <<"return", "">>
    [] o.k = "cut" -> Waiting
    [] o.k = "busy" -> Endless
    [] OTHER -> <<o.k, o.what>>

\* The language gives no meaning to a run that reads a variable that was not
\* set: whether accepted methods have such runs is a question of its own.
Meaningless(o) == "read" \in o.st.bad

Show(answers) ==
  /\ tape' = answers
  /\ \E o \in Run(method.body, FALSE, answers) :
        \/ Meaningless(o)
        \/ /\ seen' = IF o.k = "busy" THEN <<>> ELSE o.st.ev
           /\ end' = End(o)
  /\ UNCHANGED method

Init == tape = <<>> /\ seen = <<>> /\ end = Off

Begin == end = Off /\ Show(<<>>)

Answer(a) == end = Waiting /\ Len(tape) < MaxAnswers /\ Show(Append(tape, a))

Next == Begin \/ \E a \in AllAnswers : Answer(a)

Spec == Init /\ [][Next]_<<method, tape, seen, end>>
=============================================================================
