------------------------------ MODULE TypeLife ------------------------------
(***************************************************************************)
(* What the driver promises for each top-level type, without files,        *)
(* semantic objects or syntax trees: once it is read it is either bad or   *)
(* waits; the bodies are processed one type at a time, each once, and all  *)
(* of them in the end, unless the compiler dies.                           *)
(***************************************************************************)
CONSTANT Types

VARIABLE life

Init == life = [t \in Types |-> "unread"]

Unread == {t \in Types : life[t] = "unread"}
Active == {t \in Types : life[t] = "active"}

\* The types in S are read, those in W without a syntax error in a header.
Read(S, W) ==
    /\ S \subseteq Unread /\ W \subseteq S
    /\ life' = [t \in Types |-> IF t \in W THEN "waiting"
                                ELSE IF t \in S THEN "over" ELSE life[t]]

Start(t) ==
    /\ Active = {} /\ life[t] = "waiting"
    /\ life' = [life EXCEPT ![t] = "active"]

Finish(t) ==
    /\ life[t] = "active"
    /\ life' = [life EXCEPT ![t] = "over"]

Abort == life' = [t \in Types |-> "over"]

Progress == \E t \in Types : Start(t) \/ Finish(t)
Next     == Progress \/ (\E S, W \in SUBSET Types : Read(S, W)) \/ Abort

Safety == Init /\ [][Next]_life
Spec   == Safety /\ WF_life(Progress)
=============================================================================
