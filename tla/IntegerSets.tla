---------------------------- MODULE IntegerSets ----------------------------
(***************************************************************************)
(* What the class BitSet promises (set.h): sets of the integers below a    *)
(* size that can change.  Numbers that a larger size brings in are all in  *)
(* the set or all out of it, as the caller says; the others stay.          *)
(* Each call does what its name says, so call names the member.            *)
(***************************************************************************)
EXTENDS Naturals

CONSTANTS Sets, MaxSize
VARIABLES live, elements, size, call, reply

setVars == <<live, elements, size, call, reply>>

Below(n) == 0 .. n - 1
IsSet(x, E, n) == elements' = [elements EXCEPT ![x] = E] /\ size' = [size EXCEPT ![x] = n]

SetsInit ==
    /\ live = {}
    /\ elements = [x \in Sets |-> {}]
    /\ size = [x \in Sets |-> 0]
    /\ call = "none"
    /\ reply = FALSE

\* What is in a set that is not initialised is anyone's guess.
Construct(x) ==
    /\ x \notin live
    /\ live' = live \cup {x}
    /\ \/ /\ call' = "BitSet(size)"
          /\ \E n \in 0 .. MaxSize : \E E \in SUBSET Below(n) : IsSet(x, E, n)
       \/ /\ call' = "BitSet(size, init)"
          /\ \E n \in 0 .. MaxSize : \E E \in {{}, Below(n)} : IsSet(x, E, n)
       \/ /\ call' = "BitSet(rhs)"
          /\ \E y \in live : IsSet(x, elements[y], size[y])

Destroy(x) == call' = "~BitSet" /\ live' = live \ {x} /\ IsSet(x, {}, 0)

Empty(x)  == call' = "SetEmpty" /\ IsSet(x, {}, size[x])
Fill(x)   == call' = "SetUniverse" /\ IsSet(x, Below(size[x]), size[x])
Add(x)    == call' = "AddElement" /\ \E i \in Below(size[x]) : IsSet(x, elements[x] \cup {i}, size[x])
Remove(x) == call' = "RemoveElement" /\ \E i \in Below(size[x]) : IsSet(x, elements[x] \ {i}, size[x])

Combine(x, y) ==
    /\ size[x] = size[y]
    /\ \/ call' = "="  /\ IsSet(x, elements[y], size[x])
       \/ call' = "+=" /\ IsSet(x, elements[x] \cup elements[y], size[x])
       \/ call' = "*=" /\ IsSet(x, elements[x] \cap elements[y], size[x])
       \/ call' = "-=" /\ IsSet(x, elements[x] \ elements[y], size[x])

Resize(x) ==
    /\ call' = "Resize"
    /\ \E n \in 0 .. MaxSize :
           \/ IsSet(x, elements[x] \cap Below(n), n)
           \/ IsSet(x, (elements[x] \cap Below(n)) \cup (size[x] .. n - 1), n)

Change(x) ==
    \/ Empty(x) \/ Fill(x) \/ Add(x) \/ Remove(x) \/ Resize(x)
    \/ \E y \in live : Combine(x, y)

Ask(x) ==
    \/ call' = "[]" /\ \E i \in Below(size[x]) : reply' = (i \in elements[x])
    \/ call' = "IsUniverse" /\ reply' = (elements[x] = Below(size[x]))

SetsNext ==
    \E x \in Sets :
        \/ Construct(x) /\ reply' = FALSE
        \/ x \in live /\ Destroy(x) /\ reply' = FALSE
        \/ x \in live /\ Change(x) /\ UNCHANGED live /\ reply' = FALSE
        \/ x \in live /\ Ask(x) /\ UNCHANGED <<live, elements, size>>

SetsSpec == SetsInit /\ [][SetsNext]_setVars
=============================================================================
