---------------------------- MODULE LookupTables ----------------------------
(***************************************************************************)
(* The hash tables of lookup.h and lookup.cpp: names, literals and their   *)
(* values are entered once and then known by their entry; types, known     *)
(* directories and the files of a directory are looked up by text.  Each   *)
(* table keeps its entries in the order they came in (the pool), a chain   *)
(* per slot through the next fields with the last entry in front, and      *)
(* grows to the next prime when it has more than two entries per slot.     *)
(* Ten classes share this shape; they differ in whether entry 0 is left    *)
(* unused, in whether an insertion looks first, and in what is hashed.     *)
(* A text stands for what a table compares: name, bits of a number, bytes, *)
(* device and inode.  The loops of the code are loops here: a search       *)
(* follows one next field per step, a rehash moves one entry per step.     *)
(***************************************************************************)
EXTENDS Naturals, Sequences

CONSTANTS
    Texts,       \* what is looked up
    NoText,      \* the NULL in the unused entry 0
    HashOf,      \* Hash::Function, before the remainder
    Primes,      \* the sizes a table goes through
    Kinds,       \* the tables that are looked at
    MaxEntries   \* bound: entries a table is filled with

\* The tables whose entry 0 is NULL, because index 0 means "no literal".
ValueKinds  == {"int", "long", "float", "double", "utf8"}
\* The tables that look for an entry before they make one.
UniqueKinds == ValueKinds \cup {"name", "literal", "directory"}
AllKinds    == UniqueKinds \cup {"type", "system"}

ASSUME TablesAssumption ==
    /\ NoText \notin Texts
    /\ HashOf \in [Texts -> Nat]
    /\ Primes \in Seq(Nat \ {0})
    /\ Len(Primes) > 0
    /\ Kinds \subseteq AllKinds
    /\ MaxEntries \in Nat

VARIABLES
    kind,         \* which of the classes this table is
    pool,         \* its entries, oldest first
    next,         \* entry -> the entry behind it in its chain, 0: none
    base,         \* slot -> the entry in front of its chain, 0: none
    prime_index,  \* which of the Primes is the size now
    step,         \* "idle", or the loop the table is in: "search", "rehash"
    sought,       \* [op, text] of the last call
    at,           \* the entry a search or a rehash looks at
    answer        \* the entry returned by the last call, 0: NULL

tableVars == <<kind, pool, next, base, prime_index, step, sought, at, answer>>

First        == IF kind \in ValueKinds THEN 2 ELSE 1
Length       == Len(pool)
hash_size    == Primes[prime_index]
Slot(x)      == HashOf[x] % hash_size
NoChains(p)  == [s \in 0 .. Primes[p] - 1 |-> 0]
NoCall       == [op |-> "none", text |-> NoText]

TablesInit ==
    /\ kind \in Kinds
    /\ pool = IF kind \in ValueKinds THEN <<NoText>> ELSE <<>>
    /\ next = IF kind \in ValueKinds THEN <<0>> ELSE <<>>
    /\ prime_index = 1
    /\ base = NoChains(1)
    /\ step = "idle"
    /\ sought = NoCall
    /\ at = 0
    /\ answer = 0

-----------------------------------------------------------------------------
\* A find, or the find of a find-or-insert: start at the chain's front.
Search(op, x) ==
    /\ step = "idle"
    /\ sought' = [op |-> op, text |-> x]
    /\ step' = "search"
    /\ at' = base[Slot(x)]
    /\ UNCHANGED <<kind, pool, next, base, prime_index, answer>>

Follow ==
    /\ step = "search"
    /\ at # 0
    /\ pool[at] # sought.text
    /\ at' = next[at]
    /\ UNCHANGED <<kind, pool, next, base, prime_index, step, sought, answer>>

Found ==
    /\ step = "search"
    /\ at # 0
    /\ pool[at] = sought.text
    /\ answer' = at
    /\ step' = "idle"
    /\ at' = 0
    /\ UNCHANGED <<kind, pool, next, base, prime_index, sought>>

NotFound ==
    /\ step = "search"
    /\ at = 0
    /\ sought.op = "find"
    /\ answer' = 0
    /\ step' = "idle"
    /\ UNCHANGED <<kind, pool, next, base, prime_index, sought, at>>

\* The table has two entries per slot, and there is a larger prime.
Crowded(n) == n > 2 * hash_size /\ prime_index < Len(Primes)

\* A new entry goes to the end of the pool and to the front of its chain;
\* a rehash that this calls for starts with empty chains.
AddEntry(x) ==
    LET s == Slot(x)
        n == Length + 1
    IN  /\ Length < MaxEntries
        /\ pool' = Append(pool, x)
        /\ next' = Append(next, base[s])
        /\ answer' = n
        /\ IF Crowded(n)
           THEN /\ prime_index' = prime_index + 1
                /\ base' = NoChains(prime_index + 1)
                /\ step' = "rehash"
                /\ at' = First
           ELSE /\ base' = [base EXCEPT ![s] = n]
                /\ step' = "idle"
                /\ at' = 0
                /\ UNCHANGED prime_index
        /\ UNCHANGED kind

InsertMissing ==
    /\ step = "search"
    /\ at = 0
    /\ sought.op = "insert"
    /\ AddEntry(sought.text)
    /\ UNCHANGED sought

\* The insertion of the two tables that do not look first.
Insert(x) ==
    /\ step = "idle"
    /\ sought' = [op |-> "insert", text |-> x]
    /\ AddEntry(x)

\* Mutant: an entry is moved without the ones that are in its slot by then.
MoveUnlinked ==
    /\ step = "rehash"
    /\ at <= Length
    /\ base' = [base EXCEPT ![Slot(pool[at])] = at]
    /\ at' = at + 1
    /\ UNCHANGED <<kind, pool, next, prime_index, step, sought, answer>>

\* The loop of Rehash over the pool.
Move ==
    /\ step = "rehash"
    /\ at <= Length
    /\ LET s == Slot(pool[at])
       IN  /\ next' = [next EXCEPT ![at] = base[s]]
           /\ base' = [base EXCEPT ![s] = at]
    /\ at' = at + 1
    /\ UNCHANGED <<kind, pool, prime_index, step, sought, answer>>

RehashEnds ==
    /\ step = "rehash"
    /\ at > Length
    /\ step' = "idle"
    /\ at' = 0
    /\ UNCHANGED <<kind, pool, next, base, prime_index, sought, answer>>

Rehash == Move \/ RehashEnds

\* The entries go, the size stays.
EmptyTable ==
    /\ step = "idle"
    /\ pool' = <<>>
    /\ next' = <<>>
    /\ base' = NoChains(prime_index)
    /\ sought' = NoCall
    /\ answer' = 0
    /\ UNCHANGED <<kind, prime_index, step, at>>

FindOrInsert == (\E x \in Texts : Search("insert", x)) \/ Follow \/ Found \/ InsertMissing
Find         == (\E x \in Texts : Search("find", x)) \/ Follow \/ Found \/ NotFound

-----------------------------------------------------------------------------
(* The ten tables. *)

NameLookupTable    == kind = "name" /\ (FindOrInsert \/ Rehash)
LiteralLookupTable == kind = "literal" /\ (FindOrInsert \/ Rehash)
IntLiteralTable    == kind = "int" /\ (FindOrInsert \/ Find \/ Rehash)
LongLiteralTable   == kind = "long" /\ (FindOrInsert \/ Rehash)
FloatLiteralTable  == kind = "float" /\ (FindOrInsert \/ Rehash)
DoubleLiteralTable == kind = "double" /\ (FindOrInsert \/ Rehash)
Utf8LiteralTable   == kind = "utf8" /\ (FindOrInsert \/ Rehash)
DirectoryTable     == kind = "directory" /\ (FindOrInsert \/ Find \/ Rehash)
SystemTable        == kind = "system" /\ (Find \/ (\E x \in Texts : Insert(x)) \/ Rehash)
TypeLookupTable    ==
    kind = "type" /\ (Find \/ (\E x \in Texts : Insert(x)) \/ Rehash \/ EmptyTable)

TablesNext ==
    \/ NameLookupTable \/ LiteralLookupTable
    \/ IntLiteralTable \/ LongLiteralTable \/ FloatLiteralTable \/ DoubleLiteralTable
    \/ Utf8LiteralTable
    \/ DirectoryTable \/ SystemTable \/ TypeLookupTable

TablesSpec == TablesInit /\ [][TablesNext]_tableVars

-----------------------------------------------------------------------------
\* The newest entry with text x, 0: none.
Latest(x) ==
    LET Of == {i \in 1 .. Length : pool[i] = x}
    IN  IF Of = {} THEN 0 ELSE CHOOSE i \in Of : \A j \in Of : j <= i

(***************************************************************************)
(* A call answers with the newest entry of its text, and with none only if *)
(* there is none: whatever the chains went through since it was entered,   *)
(* it is still found, and a type that was entered again hides the old one  *)
(* (FindType, FindEntry and each FindOrInsert).                                   *)
(***************************************************************************)
FindsLatest ==
    (step = "idle" /\ sought.op # "none") => answer = Latest(sought.text)

(***************************************************************************)
(* The compiler compares names, literals and constant pool entries by      *)
(* their address or index, so equal texts must be the same entry: a        *)
(* find-or-insert never makes a second one (FindOrInsertName,              *)
(* FindOrInsertLiteral, FindOrInsert, InsertEntry).                        *)
(***************************************************************************)
OneEntryEach ==
    kind \in UniqueKinds =>
        \A i, j \in First .. Length : pool[i] = pool[j] => i = j
=============================================================================
