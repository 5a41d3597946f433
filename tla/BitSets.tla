------------------------------ MODULE BitSets ------------------------------
(***************************************************************************)
(* The class BitSet of set.h, on which definite assignment keeps its sets: *)
(* a set_size, a max_set_size that it has had room for, and storage in     *)
(* cells of W bits.  The loops of the code run over whole cells, so that   *)
(* bits above set_size change too and hold anything; Resize takes such     *)
(* bits into the set, and moves the cells when they do not suffice.        *)
(* A bit is named by its distance from the start of the storage, and bits  *)
(* is the set of those that are 1.                                         *)
(***************************************************************************)
EXTENDS Naturals

CONSTANTS
    W,           \* cell_size
    Sets,        \* the sets there are
    MaxSize      \* bound: the largest set_size

ASSUME BitsAssumption == W \in Nat \ {0} /\ MaxSize \in Nat

VARIABLES
    live,        \* the sets that are constructed and not destroyed
    bits,        \* set -> the bits of its storage that are 1
    cells,       \* set -> the cells it has storage for
    set_size,    \* set -> the bits in use
    max_set_size,
    call,        \* the member called last
    reply        \* what it returned, FALSE if nothing

bitVars == <<live, bits, cells, set_size, max_set_size, call, reply>>

Cells(n)    == (n + W - 1) \div W
\* ((int) n - 1) / cell_size, which is 0 for n = 0.
LastCell(n) == IF n = 0 THEN 0 ELSE (n - 1) \div W
\* The bits of the first k cells; the bit that stands for i.
Span(k)     == 0 .. W * k - 1
BitOf(i)    == W * (i \div W) + (i % W)
\* The storage that new CELL[num_cells ? num_cells : 1] makes.
Storage(n)  == IF Cells(n) = 0 THEN 1 ELSE Cells(n)

BitsInit ==
    /\ live = {}
    /\ bits = [x \in Sets |-> {}]
    /\ cells = [x \in Sets |-> 0]
    /\ set_size = [x \in Sets |-> 0]
    /\ max_set_size = [x \in Sets |-> 0]
    /\ call = "none"
    /\ reply = FALSE

Write(x, B) == bits' = [bits EXCEPT ![x] = B]

SizesStay == UNCHANGED <<live, cells, set_size, max_set_size>> /\ reply' = FALSE

\* A set made anew: its size, and what is in its storage.
Make(x, n, B) ==
    /\ x \notin live
    /\ live' = live \cup {x}
    /\ Write(x, B)
    /\ cells' = [cells EXCEPT ![x] = Storage(n)]
    /\ set_size' = [set_size EXCEPT ![x] = n]
    /\ max_set_size' = [max_set_size EXCEPT ![x] = n]
    /\ reply' = FALSE

-----------------------------------------------------------------------------
(* Constructors and destructor. *)

Uninitialized(x, n) == \E B \in SUBSET Span(Storage(n)) : Make(x, n, B)

Initialized(x, n) ==
    \E init \in {"EMPTY", "UNIVERSE"}, junk \in SUBSET Span(Storage(n)) :
        LET used == Span(Cells(n))
        IN  Make(x, n, (junk \ used) \cup (IF init = "UNIVERSE" THEN used ELSE {}))

Clone(x, y) ==
    /\ y \in live
    /\ LET n    == set_size[y]
           used == Span(Cells(n))
       IN  \E junk \in SUBSET Span(Storage(n)) :
               Make(x, n, (junk \ used) \cup (bits[y] \cap used))

\* A set that is not there has no storage.
Destroy(x) ==
    /\ x \in live
    /\ live' = live \ {x}
    /\ Write(x, {})
    /\ cells' = [cells EXCEPT ![x] = 0]
    /\ set_size' = [set_size EXCEPT ![x] = 0]
    /\ max_set_size' = [max_set_size EXCEPT ![x] = 0]
    /\ reply' = FALSE

-----------------------------------------------------------------------------
(* Members that change the set. *)

EmptySet(x)    == x \in live /\ Write(x, bits[x] \ Span(Cells(set_size[x]))) /\ SizesStay
SetUniverse(x) == x \in live /\ Write(x, bits[x] \cup Span(Cells(set_size[x]))) /\ SizesStay

\* The assertion: both have the same size.
Assign(x, y) ==
    /\ x # y
    /\ {x, y} \subseteq live
    /\ set_size[x] = set_size[y]
    /\ LET used == Span(Cells(set_size[x]))
       IN  Write(x, (bits[x] \ used) \cup (bits[y] \cap used))
    /\ SizesStay

AddElement(x, i) ==
    /\ x \in live
    /\ i < set_size[x]
    /\ Write(x, bits[x] \cup {BitOf(i)})
    /\ SizesStay

RemoveElement(x, i) ==
    /\ x \in live
    /\ i < set_size[x]
    /\ Write(x, bits[x] \ {BitOf(i)})
    /\ SizesStay

\* The loops from the last cell down to 0.
Reached(x) == Span(LastCell(set_size[x]) + 1)

Union(x, y) ==
    /\ {x, y} \subseteq live
    /\ set_size[x] = set_size[y]
    /\ Write(x, bits[x] \cup (bits[y] \cap Reached(x)))
    /\ SizesStay

Intersection(x, y) ==
    /\ {x, y} \subseteq live
    /\ set_size[x] = set_size[y]
    /\ Write(x, bits[x] \ (Reached(x) \ bits[y]))
    /\ SizesStay

Difference(x, y) ==
    /\ {x, y} \subseteq live
    /\ set_size[x] = set_size[y]
    /\ Write(x, bits[x] \ (bits[y] \cap Reached(x)))
    /\ SizesStay

\* Storage is moved only if the size was never that large.
Grows(x, n) ==
    n > max_set_size[x] /\ Cells(n) > Cells(max_set_size[x]) /\ Cells(n) > 1

\* Mutant: what is not in use of the last cell is left as it is.
FreshCells(x, n) ==
    IF n <= set_size[x] THEN {} ELSE Span(LastCell(n) + 1) \ Span(Cells(set_size[x]))

\* What Resize initialises: the cells above those in use, and what is not in
\* use of the last one that is.
Fresh(x, n) ==
    LET m == set_size[x]
    IN  IF n <= m THEN {}
        ELSE (Span(LastCell(n) + 1) \ Span(Cells(m)))
             \cup (IF m # 0 /\ m % W # 0
                   THEN {b \in Span(Cells(m)) \ Span(Cells(m) - 1) :
                             b >= W * (Cells(m) - 1) + (m % W)}
                   ELSE {})

Resize(x, n) ==
    /\ x \in live
    /\ cells' = [cells EXCEPT ![x] = IF Grows(x, n) THEN Cells(n) ELSE @]
    /\ set_size' = [set_size EXCEPT ![x] = n]
    /\ max_set_size' = [max_set_size EXCEPT ![x] = IF n > @ THEN n ELSE @]
    /\ \E kept \in IF Grows(x, n)
                   THEN {(bits[x] \cap Span(Cells(max_set_size[x]))) \cup junk :
                             junk \in SUBSET (Span(Cells(n)) \ Span(Cells(max_set_size[x])))}
                   ELSE {bits[x]} :
       \E init \in {"EMPTY", "UNIVERSE"} :
           Write(x, IF init = "EMPTY" THEN kept \ Fresh(x, n) ELSE kept \cup Fresh(x, n))
    /\ UNCHANGED live
    /\ reply' = FALSE

-----------------------------------------------------------------------------
(* Questions. *)

HasElement(x, i) ==
    /\ x \in live
    /\ i < set_size[x]
    /\ reply' = (BitOf(i) \in bits[x])
    /\ UNCHANGED <<live, bits, cells, set_size, max_set_size>>

IsUniverse(x) ==
    LET n    == set_size[x]
        last == LastCell(n)
        mask == {b \in Span(last + 1) \ Span(last) : n % W # 0 => b < W * last + (n % W)}
    IN  /\ x \in live
        /\ reply' = (Span(last) \subseteq bits[x] /\ (n = 0 \/ mask \subseteq bits[x]))
        /\ UNCHANGED <<live, bits, cells, set_size, max_set_size>>

-----------------------------------------------------------------------------
BitsNext ==
    \E x \in Sets :
        \/ Destroy(x) /\ call' = "~BitSet"
        \/ EmptySet(x) /\ call' = "SetEmpty"
        \/ SetUniverse(x) /\ call' = "SetUniverse"
        \/ IsUniverse(x) /\ call' = "IsUniverse"
        \/ \E n \in 0 .. MaxSize :
               \/ Uninitialized(x, n) /\ call' = "BitSet(size)"
               \/ Initialized(x, n) /\ call' = "BitSet(size, init)"
               \/ Resize(x, n) /\ call' = "Resize"
        \/ \E i \in 0 .. MaxSize - 1 :
               \/ AddElement(x, i) /\ call' = "AddElement"
               \/ RemoveElement(x, i) /\ call' = "RemoveElement"
               \/ HasElement(x, i) /\ call' = "[]"
        \/ \E y \in Sets :
               \/ Clone(x, y) /\ call' = "BitSet(rhs)"
               \/ Assign(x, y) /\ call' = "="
               \/ Union(x, y) /\ call' = "+="
               \/ Intersection(x, y) /\ call' = "*="
               \/ Difference(x, y) /\ call' = "-="

BitsSpec == BitsInit /\ [][BitsNext]_bitVars

(***************************************************************************)
(* No bit is written outside of the storage, which has room for all bits   *)
(* in use (the constructors and Resize).                                   *)
(***************************************************************************)
WithinStorage ==
    \A x \in Sets : /\ bits[x] \subseteq Span(cells[x])
                    /\ Cells(set_size[x]) <= cells[x]

(***************************************************************************)
(* With the bits below set_size for its elements, a BitSet is the set of   *)
(* integers that IntegerSets describes: what whole cells do to the bits    *)
(* above, and what moved or reused storage holds, is never seen.           *)
(***************************************************************************)
elements == [x \in Sets |-> {i \in 0 .. set_size[x] - 1 : i \in bits[x]}]
Abstract == INSTANCE IntegerSets WITH size <- set_size
BitsAreSets == Abstract!SetsSpec
=============================================================================
