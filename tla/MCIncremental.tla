--------------------------- MODULE MCIncremental ---------------------------
(***************************************************************************)
(* Three sources and four types.  A may declare S too, use C and so make a *)
(* cycle, or have a syntax error; B uses A or S, C uses B.  At the start   *)
(* there are no class files, or A has one that is not older than its       *)
(* source, and S one without a source.  The command line names B and C.    *)
(***************************************************************************)
EXTENDS Incremental

Good(uses)  == [good |-> TRUE, uses |-> uses]
Faulty(n)   == [good |-> FALSE, uses |-> [m \in {n} |-> {}]]
Using(n, S) == Good([m \in {n} |-> S])

MCNames == {"A", "B", "C", "S"}
MCTexts ==
    [A |-> {Using("A", {}), Using("A", {"C"}), Faulty("A"), Good([m \in {"A", "S"} |-> {}])},
     B |-> {Using("B", {"A"}), Using("B", {"S"})},
     C |-> {Using("C", {"B"})},
     S |-> {}]

Source(b) == [n \in MCNames |-> CASE n = "A" -> Using("A", {}) [] n = "B" -> Using("B", b)
                                     [] n = "C" -> Using("C", {"B"}) [] OTHER -> NoText]
MCDisks ==
    {[source |-> Source({"A"}), class |-> [n \in {} |-> {}]],
     [source |-> Source({"S"}), class |-> [A |-> {}, S |-> {"A"}]]}
=============================================================================
