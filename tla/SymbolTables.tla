---------------------------- MODULE SymbolTables ----------------------------
(***************************************************************************)
(* The class SymbolTable (symbol.h, symbol.cpp): what a directory, package,*)
(* type or block contains.  Symbols are kept in five pools by kind and, if *)
(* they have a name, hashed into one set of chains for all kinds, the last *)
(* one in front.  Only the first method of a name is hashed; the others,   *)
(* marked by a next that is themselves, hang behind it.  A type can be     *)
(* deleted, and the last type of the pool then takes its place.  When two  *)
(* symbols per slot have come in, hashed or not, the next symbol that is   *)
(* hashed makes the table grow, and the chains are built anew from the     *)
(* pools.  A chain is the sequence of symbols that its next fields visit.  *)
(***************************************************************************)
EXTENDS Naturals, FiniteSets, SequencesExt

CONSTANTS
    Names,        \* the names of symbols
    IndexOf,      \* the index of a name, which is its hash
    HashPrimes,   \* primes[]
    Estimates,    \* the sizes a table is made with
    Holders,      \* whose tables are looked at
    MaxSymbols    \* bound: symbols that are ever entered

\* What is kept in the table of whom.
Kept == [path      |-> {"path"},
         directory |-> {"directory", "file"},
         package   |-> {"package", "type"},
         type      |-> {"type", "method", "variable", "anonymous"},
         block     |-> {"type", "variable", "label", "block"}]

ASSUME SymbolsAssumption ==
    /\ IndexOf \in [Names -> Nat]
    /\ Len(HashPrimes) > 0 /\ Estimates \subseteq Nat
    /\ Holders \subseteq DOMAIN Kept
    /\ MaxSymbols \in Nat

VARIABLES
    holder,       \* whose table it is
    symbols,      \* every symbol entered so far: [kind, name]
    types,        \* the pools, sequences of indices into symbols
    methods,
    variables,
    others,
    anonymous,
    chains,       \* slot -> the symbols in its chain
    size,         \* hash_size
    overloads     \* symbol -> the methods that its next_method fields visit

symbolVars == <<holder, symbols, types, methods, variables, others, anonymous,
                chains, size, overloads>>

KindOf(i)  == symbols[i].kind
NameOf(i)  == symbols[i].name
BySlot(x, n) == IndexOf[x] % n

SymbolsInit ==
    /\ holder \in Holders
    /\ \E n \in Estimates : size = IF n = 0 THEN 1 ELSE n
    /\ chains = [s \in 0 .. size - 1 |-> <<>>]
    /\ symbols = <<>> /\ overloads = <<>>
    /\ types = <<>> /\ methods = <<>> /\ variables = <<>> /\ others = <<>> /\ anonymous = <<>>

\* prime_index + 1: the constructor counts the primes that the size reaches.
GrownSize == HashPrimes[1 + Cardinality({i \in DOMAIN HashPrimes : HashPrimes[i] <= size})]
MaxHashSize == HashPrimes[Len(HashPrimes)]

-----------------------------------------------------------------------------
(* Entering a symbol: the pool has it already when it is hashed. *)

New       == Len(symbols) + 1
Pools     == <<types, methods, variables, others, anonymous>>
Size      == Len(types) + Len(methods) + Len(variables) + Len(others) + Len(anonymous)
Marked(o) == UNION {ToSet(o[i]) : i \in DOMAIN o}

\* Mutant: the loop over the variables is forgotten.
RehashedPools(n, syms, o, t, m, v, r) ==
    LET order == SelectSeq(t \o m \o r, LAMBDA i : i \notin Marked(o) /\ syms[i].kind # "block")
    IN  [s \in 0 .. n - 1 |->
            Reverse(SelectSeq(order, LAMBDA i : BySlot(syms[i].name, n) = s))]

\* The loops over the pools: types, methods that are no overloads, variables,
\* other symbols that have a name; each goes to the front of its chain.
Rehashed(n, syms, o, t, m, v, r) ==
    LET Hashes(i) == i \notin Marked(o) /\ syms[i].kind # "block"
        order     == SelectSeq(t \o m \o v \o r, Hashes)
    IN  [s \in 0 .. n - 1 |->
            Reverse(SelectSeq(order, LAMBDA i : BySlot(syms[i].name, n) = s))]

\* A symbol of the kind and name has been added to a pool; hash it.
Hash(x) ==
    IF Size + 1 > 2 * size /\ size < MaxHashSize
    THEN /\ size' = GrownSize
         /\ chains' = Rehashed(GrownSize, symbols', overloads', types', methods', variables', others')
    ELSE /\ chains' = [chains EXCEPT ![BySlot(x, size)] = <<New>> \o @]
         /\ UNCHANGED size

Enter(kind, x) ==
    /\ kind \in Kept[holder]
    /\ Len(symbols) < MaxSymbols
    /\ symbols' = Append(symbols, [kind |-> kind, name |-> x])
    /\ UNCHANGED holder

\* The first symbol of a kind and name in its chain, 0: none.
FindSymbol(kind, x) ==
    LET chain == chains[BySlot(x, size)]
        At    == {p \in DOMAIN chain : KindOf(chain[p]) = kind /\ NameOf(chain[p]) = x}
    IN  IF At = {} THEN 0 ELSE chain[CHOOSE p \in At : \A q \in At : p <= q]

FindPathSymbol(x)      == FindSymbol("path", x)
FindDirectorySymbol(x) == FindSymbol("directory", x)
FindFileSymbol(x)      == FindSymbol("file", x)
FindPackageSymbol(x)   == FindSymbol("package", x)
FindTypeSymbol(x)      == FindSymbol("type", x)
FindMethodSymbol(x)    == FindSymbol("method", x)
FindVariableSymbol(x)  == FindSymbol("variable", x)
FindLabelSymbol(x)     == FindSymbol("label", x)

InsertOtherSymbol(kind, x) ==
    /\ Enter(kind, x)
    /\ others' = Append(others, New)
    /\ overloads' = Append(overloads, <<>>)
    /\ UNCHANGED <<types, methods, variables, anonymous>>
    /\ Hash(x)

InsertPathSymbol(x)      == InsertOtherSymbol("path", x)
InsertDirectorySymbol(x) == InsertOtherSymbol("directory", x)
InsertFileSymbol(x)      == InsertOtherSymbol("file", x)
InsertPackageSymbol(x)   == InsertOtherSymbol("package", x)
InsertLabelSymbol(x)     == InsertOtherSymbol("label", x)

InsertTypeSymbol(x) ==
    /\ Enter("type", x)
    /\ types' = Append(types, New)
    /\ overloads' = Append(overloads, <<>>)
    /\ UNCHANGED <<methods, variables, others, anonymous>>
    /\ Hash(x)

InsertVariableSymbol(x) ==
    /\ Enter("variable", x)
    /\ variables' = Append(variables, New)
    /\ overloads' = Append(overloads, <<>>)
    /\ UNCHANGED <<types, methods, others, anonymous>>
    /\ Hash(x)

\* An overload goes right behind the method that is hashed.
InsertMethodSymbol(x) ==
    LET base_method == FindMethodSymbol(x)
    IN  /\ Enter("method", x)
        /\ methods' = Append(methods, New)
        /\ UNCHANGED <<types, variables, others, anonymous>>
        /\ \/ /\ base_method # 0
              /\ overloads' = Append([overloads EXCEPT ![base_method] = <<New>> \o @], <<>>)
              /\ UNCHANGED <<chains, size>>
           \/ /\ base_method = 0
              /\ overloads' = Append(overloads, <<>>)
              /\ Hash(x)

\* Neither is hashed, but both count for the growth of the table.
InsertBlockSymbol ==
    \E x \in Names :
        /\ Enter("block", x)
        /\ others' = Append(others, New)
        /\ overloads' = Append(overloads, <<>>)
        /\ UNCHANGED <<types, methods, variables, anonymous, chains, size>>

InsertAnonymousTypeSymbol(x) ==
    /\ Enter("anonymous", x)
    /\ anonymous' = Append(anonymous, New)
    /\ overloads' = Append(overloads, <<>>)
    /\ UNCHANGED <<types, methods, variables, others, chains, size>>

-----------------------------------------------------------------------------
(* Leaving. *)

\* Unlinked from its chain; the last type moves to its place in the pool.
DeleteTypeSymbol(i) ==
    LET p    == CHOOSE q \in DOMAIN types : types[q] = i
        last == Len(types)
    IN  /\ chains' = [chains EXCEPT ![BySlot(NameOf(i), size)] = Remove(@, i)]
        /\ types' = SubSeq([types EXCEPT ![p] = types[last]], 1, last - 1)
        /\ UNCHANGED <<holder, symbols, methods, variables, others, anonymous, size, overloads>>

DeleteAnonymousTypes ==
    /\ anonymous # <<>>
    /\ anonymous' = <<>>
    /\ UNCHANGED <<holder, symbols, types, methods, variables, others, chains, size, overloads>>

-----------------------------------------------------------------------------
SymbolsNext ==
    \/ \E x \in Names :
           \/ InsertPathSymbol(x) \/ InsertDirectorySymbol(x) \/ InsertFileSymbol(x)
           \/ InsertPackageSymbol(x) \/ InsertLabelSymbol(x)
           \/ InsertTypeSymbol(x) \/ InsertVariableSymbol(x) \/ InsertMethodSymbol(x)
           \/ InsertAnonymousTypeSymbol(x)
    \/ InsertBlockSymbol
    \/ holder = "package" /\ \E i \in ToSet(types) : DeleteTypeSymbol(i)
    \/ DeleteAnonymousTypes

SymbolsSpec == SymbolsInit /\ [][SymbolsNext]_symbolVars

-----------------------------------------------------------------------------
\* The symbols of a kind and name that the pools hold.
Of(kind, x) ==
    {i \in UNION {ToSet(Pools[p]) : p \in 1 .. 5} : KindOf(i) = kind /\ NameOf(i) = x}

(***************************************************************************)
(* A lookup finds what its pool holds, whatever was inserted, deleted and  *)
(* rehashed since: the newest directory, file, package, variable or label  *)
(* of a name, some type that was not deleted, and for methods the oldest,  *)
(* through which all others of the name are reached, each once             *)
(* (FindTypeSymbol, FindMethodSymbol, FindVariableSymbol and the others).  *)
(***************************************************************************)
SymbolsAreFound ==
    \A x \in Names :
        /\ \A f \in {<<FindPathSymbol(x), "path">>, <<FindDirectorySymbol(x), "directory">>,
                     <<FindFileSymbol(x), "file">>, <<FindPackageSymbol(x), "package">>,
                     <<FindVariableSymbol(x), "variable">>, <<FindLabelSymbol(x), "label">>} :
               f[1] = Max({0} \cup Of(f[2], x))
        /\ FindTypeSymbol(x) \in IF Of("type", x) = {} THEN {0} ELSE Of("type", x)
        /\ IF Of("method", x) = {} THEN FindMethodSymbol(x) = 0
           ELSE LET m    == FindMethodSymbol(x)
                    rest == overloads[m]
                IN  /\ m = Min(Of("method", x))
                    /\ {m} \cup ToSet(rest) = Of("method", x)
                    /\ Len(rest) + 1 = Cardinality(Of("method", x))
=============================================================================
