----------------------------- MODULE SymbolSets -----------------------------
(***************************************************************************)
(* The class SymbolSet (set.h, set.cpp): a bucket of symbols per name, the *)
(* order in which the buckets were made, and two indices with which one    *)
(* loop at a time goes through the set.  Union and Intersection go through *)
(* an unordered_map of buckets, in any order.  Of the loops that change    *)
(* the set they go through, the pruning of exceptions is modelled          *)
(* (ProcessMethodName in expr_primary.cpp).                                *)
(***************************************************************************)
EXTENDS Naturals, FiniteSets, SequencesExt

CONSTANTS
    Symbols,      \* what a set can contain
    NoSymbol,     \* NULL
    Identity,     \* the name of each symbol
    SymbolSetIds, \* the sets there are
    Looped        \* the one that loops go through

Labels == {Identity[e] : e \in Symbols}

ASSUME SymbolSetsAssumption == NoSymbol \notin Symbols /\ Symbols \subseteq DOMAIN Identity

VARIABLES
    buckets,      \* set -> name -> its bucket, <<>>: none
    bucket_order, \* set -> the names of its buckets
    main_index,   \* set -> how many buckets its loop is through with
    sub_index,    \* set -> the place in the next one, from 0
    seen,         \* set -> the elements the loop under way has met, in order
    intact,       \* set -> it has not changed since FirstElement
    pruning       \* the loop that prunes: [ex, doomed, before]

setsVars == <<buckets, bucket_order, main_index, sub_index, seen, intact, pruning>>

NoPruning == [ex |-> NoSymbol, doomed |-> {}, before |-> {}]
Contents(x) == UNION {ToSet(buckets[x][n]) : n \in Labels}

SymbolSetsInit ==
    /\ buckets = [x \in SymbolSetIds |-> [n \in Labels |-> <<>>]]
    /\ bucket_order = [x \in SymbolSetIds |-> <<>>]
    /\ main_index = [x \in SymbolSetIds |-> 0]
    /\ sub_index = [x \in SymbolSetIds |-> 0]
    /\ seen = [x \in SymbolSetIds |-> <<>>]
    /\ intact = [x \in SymbolSetIds |-> FALSE]
    /\ pruning = NoPruning

Becomes(x, v) ==
    /\ buckets' = [buckets EXCEPT ![x] = v.buckets]
    /\ bucket_order' = [bucket_order EXCEPT ![x] = v.order]
    /\ main_index' = [main_index EXCEPT ![x] = v.main]
    /\ sub_index' = [sub_index EXCEPT ![x] = v.sub]

Record(x) == [buckets |-> buckets[x], order |-> bucket_order[x],
              main |-> main_index[x], sub |-> sub_index[x]]
NoRecord  == [buckets |-> [n \in Labels |-> <<>>], order |-> <<>>, main |-> 0, sub |-> 0]

\* A change ends what can be said of a loop that is under way.
Changes(x, v) ==
    /\ Becomes(x, v)
    /\ intact' = [intact EXCEPT ![x] = FALSE]
    /\ seen' = [seen EXCEPT ![x] = <<>>]
    /\ UNCHANGED pruning

-----------------------------------------------------------------------------
(* Elements. *)

EnsureBucket(v, n) == IF v.buckets[n] = <<>> THEN [v EXCEPT !.order = Append(@, n)] ELSE v

Added(v, e) ==
    IF Contains(v.buckets[Identity[e]], e) THEN v
    ELSE [EnsureBucket(v, Identity[e]) EXCEPT !.buckets[Identity[e]] = Append(@, e)]

\* Mutant: a loop goes on with the indices it had.
RemoveBucketOnly(v, n) ==
    IF v.buckets[n] # <<>> THEN v
    ELSE [v EXCEPT !.order = RemoveAt(@, CHOOSE i \in DOMAIN v.order : v.order[i] = n)]

\* The indices start again if the bucket that goes is not after the present one.
RemoveBucketIfEmpty(v, n) ==
    LET p == CHOOSE i \in DOMAIN v.order : v.order[i] = n
    IN  IF v.buckets[n] # <<>> THEN v
        ELSE IF v.main >= p - 1
        THEN [v EXCEPT !.order = RemoveAt(@, p), !.main = 0, !.sub = 0]
        ELSE [v EXCEPT !.order = RemoveAt(@, p)]

Removed(v, e) ==
    IF ~Contains(v.buckets[Identity[e]], e) THEN v
    ELSE RemoveBucketIfEmpty([v EXCEPT !.buckets[Identity[e]] = Remove(@, e)], Identity[e])

AddSymbol(x, e)    == Changes(x, Added(Record(x), e))
RemoveSymbol(x, e) == Changes(x, Removed(Record(x), e))

-----------------------------------------------------------------------------
(* Whole sets. *)

EmptySymbols(x) == Changes(x, NoRecord)

\* The names in the order of the unordered_map.
Orders(N) == SetToSeqs(N)
Filled(x) == {n \in Labels : buckets[x][n] # <<>>}

WithAll(v, y, order) ==
    FoldLeft(Added, v, FlattenSeq([i \in DOMAIN order |-> buckets[y][order[i]]]))

UnionOf(x, y)  == x # y /\ \E order \in Orders(Filled(y)) : Changes(x, WithAll(Record(x), y, order))
AssignSymbols(x, y) ==
    x # y /\ \E order \in Orders(Filled(y)) : Changes(x, WithAll(NoRecord, y, order))

IntersectionOf(x, y) ==
    LET Common(n) == SelectSeq(buckets[x][n], LAMBDA e : Contains(buckets[y][n], e))
    IN  /\ x # y
        /\ \E order \in Orders({n \in Labels : Common(n) # <<>>}) :
               Changes(x, [buckets |-> [n \in Labels |-> Common(n)], order |-> order,
                           main |-> 0, sub |-> 0])

-----------------------------------------------------------------------------
(* Questions. *)

SetSize(x)         == FoldSet(LAMBDA n, k : k + Len(buckets[x][n]), 0, Labels)
IsElement(x, e) == Contains(buckets[x][Identity[e]], e)
Intersects(x, y) ==
    \E n \in Filled(y) : \E e \in ToSet(buckets[y][n]) : Contains(buckets[x][n], e)
SameAs(x, y) ==
    /\ SetSize(x) = SetSize(y)
    /\ \A n \in Filled(x) : /\ Len(buckets[x][n]) = Len(buckets[y][n])
                            /\ \A e \in ToSet(buckets[x][n]) : Contains(buckets[y][n], e)

-----------------------------------------------------------------------------
(* Loops. *)

Bucket(v) == v.buckets[v.order[v.main + 1]]

AtFirst(v) == [v EXCEPT !.main = 0, !.sub = 0]
\* NextElement: the next of the bucket, or else the front of the next bucket.
AtNext(v) ==
    IF v.main >= Len(v.order) THEN v
    ELSE IF v.sub + 1 < Len(Bucket(v)) THEN [v EXCEPT !.sub = @ + 1]
    ELSE [v EXCEPT !.main = @ + 1, !.sub = 0]
Current(v) == IF v.main < Len(v.order) THEN Bucket(v)[v.sub + 1] ELSE NoSymbol

Returned(x, v, s) ==
    seen' = [seen EXCEPT ![x] = IF Current(v) = NoSymbol THEN s ELSE Append(s, Current(v))]

FirstElement(x) ==
    /\ Becomes(x, AtFirst(Record(x)))
    /\ Returned(x, AtFirst(Record(x)), <<>>)
    /\ intact' = [intact EXCEPT ![x] = TRUE]
    /\ UNCHANGED pruning

NextElement(x) ==
    /\ intact[x]
    /\ Current(Record(x)) # NoSymbol
    /\ Becomes(x, AtNext(Record(x)))
    /\ Returned(x, AtNext(Record(x)), seen[x])
    /\ UNCHANGED <<intact, pruning>>

\* Prunes the exceptions that are not thrown by all methods in conflict: the
\* next one is fetched before the present one is removed.
Prune(x) ==
    /\ \E doomed \in SUBSET Contents(x) :
           pruning' = [ex |-> Current(AtFirst(Record(x))), doomed |-> doomed, before |-> Contents(x)]
    /\ Becomes(x, AtFirst(Record(x)))
    /\ seen' = [seen EXCEPT ![x] = <<>>]
    /\ intact' = [intact EXCEPT ![x] = FALSE]

PruneStep(x) ==
    LET ex == pruning.ex
        v  == AtNext(Record(x))
    IN  /\ ex # NoSymbol
        /\ pruning' = [pruning EXCEPT !.ex = Current(v)]
        /\ IF ex \in pruning.doomed
           THEN Becomes(x, Removed(v, ex)) /\ UNCHANGED seen
           ELSE Becomes(x, v) /\ seen' = [seen EXCEPT ![x] = Append(@, ex)]
        /\ UNCHANGED intact

PruneEnds(x) ==
    /\ pruning # NoPruning
    /\ pruning.ex = NoSymbol
    /\ pruning' = NoPruning
    /\ seen' = [seen EXCEPT ![x] = <<>>]
    /\ UNCHANGED <<buckets, bucket_order, main_index, sub_index, intact>>

-----------------------------------------------------------------------------
SymbolSetsNext ==
    \/ /\ pruning = NoPruning
       /\ \E x \in SymbolSetIds :
              \/ EmptySymbols(x)
              \/ \E e \in Symbols : AddSymbol(x, e) \/ RemoveSymbol(x, e)
              \/ \E y \in SymbolSetIds : UnionOf(x, y) \/ IntersectionOf(x, y) \/ AssignSymbols(x, y)
    \/ pruning = NoPruning /\ (FirstElement(Looped) \/ NextElement(Looped) \/ Prune(Looped))
    \/ PruneStep(Looped)
    \/ PruneEnds(Looped)

SymbolSetsSpec == SymbolSetsInit /\ [][SymbolSetsNext]_setsVars

-----------------------------------------------------------------------------
(***************************************************************************)
(* The buckets stand for a set: they are those that the order lists, each  *)
(* once, none is empty, and a symbol is once in the bucket of its name     *)
(* (AddElement, Union, Intersection, RemoveElement).  So the questions,    *)
(* which look at single buckets, are answered for the whole set.           *)
(***************************************************************************)
BucketsAreSets ==
    \A x \in SymbolSetIds :
        /\ IsInjective(bucket_order[x]) /\ ToSet(bucket_order[x]) = Filled(x)
        /\ SetSize(x) = Cardinality(Contents(x))
        /\ \A e \in Symbols : IsElement(x, e) <=> e \in Contents(x)
        /\ \A y \in SymbolSetIds :
               /\ Intersects(x, y) <=> Contents(x) \cap Contents(y) # {}
               /\ SameAs(x, y) <=> Contents(x) = Contents(y)

(***************************************************************************)
(* A loop over a set that nobody changes meets every element once          *)
(* (FirstElement, NextElement).                                            *)
(***************************************************************************)
EachOnce ==
    \A x \in SymbolSetIds :
        intact[x] => /\ IsInjective(seen[x])
                     /\ Current(Record(x)) = NoSymbol => ToSet(seen[x]) = Contents(x)

(***************************************************************************)
(* Pruning leaves exactly the exceptions that all methods throw, and looks *)
(* at each of them for a handler: removing the last exception of a name    *)
(* makes the loop start again, which may repeat but loses none, as long as *)
(* no two of them share a name (ProcessMethodName in expr_primary.cpp).    *)
(***************************************************************************)
PrunedExactly ==
    (/\ pruning # NoPruning /\ pruning.ex = NoSymbol
     /\ \A d, e \in pruning.before : Identity[d] = Identity[e] => d = e) =>
        /\ Contents(Looped) = pruning.before \ pruning.doomed
        /\ ToSet(seen[Looped]) = pruning.before \ pruning.doomed

(***************************************************************************)
(* A SymbolSet is the set of what was added and not removed, whichever way *)
(* it is asked: by name, by element, in comparisons and in loops.          *)
(***************************************************************************)
SymbolSetsAreSets == BucketsAreSets /\ EachOnce /\ PrunedExactly
=============================================================================
