--------------------------- MODULE MCCompilation ---------------------------
(***************************************************************************)
(* Two files on the command line, one with two types; a third that is only *)
(* found by a name and, after all, declares no such type.                  *)
(***************************************************************************)
EXTENDS Compilation

Declares == [F1 |-> "F", F2 |-> "F", G1 |-> "G"]
MCFile   == [t \in Types |-> Declares[t]]
=============================================================================
