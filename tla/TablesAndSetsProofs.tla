------------------------- MODULE TablesAndSetsProofs ------------------------
(***************************************************************************)
(* Proofs about LookupTables, for every set of texts, every hash function, *)
(* every list of sizes and every number of entries, and about BitSets, for *)
(* every number of sets, every size and every width of a word.             *)
(***************************************************************************)
EXTENDS LookupTables, BitSets, TLAPS, SequenceTheorems

(***************************************************************************)
(* The inductive invariant.                                                *)
(***************************************************************************)

TablesTyped ==
    /\ kind \in Kinds
    /\ pool \in Seq(Texts \cup {NoText})
    /\ next \in Seq(Nat)
    /\ Len(next) = Length
    /\ First - 1 <= Length
    /\ \A i \in First .. Length : pool[i] \in Texts
    /\ \A i \in 1 .. First - 1 : pool[i] = NoText
    /\ prime_index \in 1 .. Len(Primes)
    /\ base \in [0 .. hash_size - 1 -> Nat]
    /\ step \in {"idle", "search", "rehash"}
    /\ step = "search" => sought \in [op : {"find", "insert"}, text : Texts]
    /\ at \in Nat
    /\ answer \in Nat

\* What the chains hold: every entry, or those a rehash has moved.
Linked       == First .. (IF step = "rehash" THEN at - 1 ELSE Length)
InSlot(s)    == {i \in Linked : Slot(pool[i]) = s}
Greatest(i, S) == \/ i = 0 /\ S = {}
                  \/ i \in S /\ \A j \in S : j <= i

\* A chain starts with the newest entry of its slot and goes on to older
\* ones, leaving none out.
Heads == \A s \in 0 .. hash_size - 1 : Greatest(base[s], InSlot(s))
Links == \A i \in Linked : Greatest(next[i], {j \in InSlot(Slot(pool[i])) : j < i})

\* A search is still in the chain of its text, and has passed no entry of it.
Searching ==
    step = "search" =>
        /\ at = 0 \/ at \in InSlot(Slot(sought.text))
        /\ \A j \in Linked : pool[j] = sought.text => j <= at

Rehashing == step = "rehash" => at \in First .. Length + 1

\* The answer stands as soon as there is no search.
Answered ==
    (step # "search" /\ sought.op # "none") =>
        /\ sought.text \in Texts
        /\ answer = 0 \/ (answer \in First .. Length /\ pool[answer] = sought.text)
        /\ \A j \in First .. Length : pool[j] = sought.text => j <= answer

\* A find-or-insert that is about to insert found nothing; then no text is
\* there twice.
Unique == kind \in UniqueKinds => \A i, j \in First .. Length : pool[i] = pool[j] => i = j

TablesInv ==
    TablesTyped /\ Heads /\ Links /\ Searching /\ Rehashing /\ Answered /\ Unique

-----------------------------------------------------------------------------
LEMMA Remainder == ASSUME NEW h \in Nat, NEW n \in Nat \ {0} PROVE h % n \in 0 .. n - 1
  BY SMT

\* A text has a slot in a table of any of the sizes.
LEMMA SlotIsThere ==
    ASSUME prime_index \in 1 .. Len(Primes), NEW x \in Texts
    PROVE  /\ hash_size \in Nat \ {0}
           /\ Slot(x) \in 0 .. hash_size - 1
<1>1. /\ Primes[prime_index] \in Nat \ {0}
      /\ HashOf[x] \in Nat
  BY TablesAssumption
<1> QED BY <1>1, Remainder DEF hash_size, Slot

\* The first entry in use is 1 or 2.
LEMMA FirstIs == First \in {1, 2}
  BY DEF First

\* Nothing is chained after the chains are cleared.
LEMMA Cleared ==
    ASSUME NEW p \in 1 .. Len(Primes)
    PROVE  /\ NoChains(p) \in [0 .. Primes[p] - 1 -> Nat]
           /\ \A s \in 0 .. Primes[p] - 1 : NoChains(p)[s] = 0
  BY TablesAssumption DEF NoChains

\* What is left of a step, whichever table it is taken in.
LEMMA StepOfSomeTable ==
    ASSUME TablesNext
    PROVE  \/ \E x \in Texts : Search("find", x) \/ Search("insert", x)
           \/ Follow \/ Found \/ NotFound \/ InsertMissing
           \/ kind \notin UniqueKinds /\ \E x \in Texts : Insert(x)
           \/ Rehash
           \/ kind = "type" /\ EmptyTable
  BY DEF TablesNext, NameLookupTable, LiteralLookupTable, IntLiteralTable, LongLiteralTable,
         FloatLiteralTable, DoubleLiteralTable, Utf8LiteralTable, DirectoryTable, SystemTable,
         TypeLookupTable, FindOrInsert, Find, UniqueKinds, ValueKinds

-----------------------------------------------------------------------------
LEMMA TablesStart == TablesInit => TablesInv
<1> SUFFICES ASSUME TablesInit PROVE TablesInv
  OBVIOUS
<1> USE DEF TablesInit, Length
<1>1. 1 \in 1 .. Len(Primes) /\ Primes[1] \in Nat \ {0}
  BY TablesAssumption
<1>2. /\ First - 1 = Length /\ Linked = {} /\ First \in {1, 2}
  BY DEF First, Linked
<1>3. TablesTyped
  <2>1. base \in [0 .. hash_size - 1 -> Nat]
    BY <1>1, Cleared DEF hash_size
  <2>2. /\ pool \in Seq(Texts \cup {NoText}) /\ next \in Seq(Nat) /\ Len(next) = Len(pool)
    <3>1. CASE kind \in ValueKinds
      BY <3>1
    <3>2. CASE kind \notin ValueKinds
      BY <3>2
    <3> QED BY <3>1, <3>2
  <2> QED BY <1>1, <1>2, <2>1, <2>2 DEF TablesTyped
<1>4. Heads /\ Links
  BY <1>1, <1>2, Cleared DEF Heads, Links, InSlot, Greatest, hash_size
<1>5. Searching /\ Rehashing /\ Answered /\ Unique
  BY <1>2 DEF Searching, Rehashing, Answered, Unique, NoCall
<1> QED BY <1>3, <1>4, <1>5 DEF TablesInv

-----------------------------------------------------------------------------
\* A new entry.  Only a caller that looked first, or a table that allows an
\* entry twice, keeps Unique.
LEMMA EntryAdded ==
    ASSUME TablesInv, NEW x \in Texts, AddEntry(x),
           step = "idle" \/ (step = "search" /\ sought.text = x),
           sought' \in [op : {"insert"}, text : {x}],
           kind \in UniqueKinds => \A i \in First .. Length : pool[i] # x
    PROVE  TablesInv'
<1> USE DEF Length
<1>a. PICK n : n = Length + 1
  OBVIOUS
<1>b. PICK s : s = Slot(x)
  OBVIOUS
<1>1. /\ TablesTyped /\ Heads /\ Links /\ Unique
      /\ First \in {1, 2} /\ Length \in Nat /\ n \in Nat /\ First <= n
      /\ hash_size \in Nat \ {0} /\ s \in 0 .. hash_size - 1
      /\ Linked = First .. Length
      /\ step # "rehash"
  BY <1>a, <1>b, SlotIsThere, FirstIs DEF TablesInv, TablesTyped, Linked
<1>2. /\ pool' = Append(pool, x)
      /\ next' = Append(next, base[s])
      /\ answer' = n /\ kind' = kind /\ First' = First
  BY <1>a, <1>b DEF AddEntry, First
<1>3. /\ pool' \in Seq(Texts \cup {NoText}) /\ Length' = n
      /\ pool'[n] = x
      /\ \A i \in 1 .. Length : pool'[i] = pool[i]
      /\ \A i \in First .. n : pool'[i] \in Texts
      /\ \A i \in First .. Length : pool'[i] = pool[i] /\ pool[i] \in Texts
  BY <1>a, <1>1, <1>2 DEF TablesTyped
<1>4. /\ next' \in Seq(Nat) /\ Len(next') = n
      /\ next'[n] = base[s]
      /\ \A i \in 1 .. Length : next'[i] = next[i]
  BY <1>a, <1>1, <1>2 DEF TablesTyped
<1>5. Answered'
  BY <1>1, <1>2, <1>3 DEF Answered
<1>6. Unique'
  BY <1>1, <1>2, <1>3 DEF Unique
<1>7. CASE Crowded(n)
  <2>1. /\ prime_index' = prime_index + 1 /\ prime_index' \in 1 .. Len(Primes)
        /\ base' = NoChains(prime_index') /\ step' = "rehash" /\ at' = First
    BY <1>a, <1>1, <1>7, TablesAssumption DEF AddEntry, Crowded, TablesTyped
  <2>2. Linked' = {}
    BY <2>1, <1>2, <1>1 DEF Linked
  <2>3. TablesTyped'
    <3>1. base' \in [0 .. hash_size' - 1 -> Nat]
      BY <2>1, Cleared DEF hash_size
    <3>2. /\ \A i \in First' .. Len(pool') : pool'[i] \in Texts
          /\ \A i \in 1 .. First' - 1 : pool'[i] = NoText
      BY <1>a, <1>1, <1>2, <1>3 DEF TablesTyped
    <3>3. at' \in Nat /\ answer' \in Nat /\ First' - 1 <= Len(pool') /\ kind' \in Kinds
      BY <1>a, <1>1, <1>2, <1>3, <2>1 DEF TablesTyped
    <3>4. step' \in {"idle", "search", "rehash"} /\ step' # "search"
      BY <2>1
    <3> QED BY <3>3, <3>4, <1>a, <1>1, <1>2, <1>3, <1>4, <2>1, <3>1, <3>2 DEF TablesTyped
  <2>4. Heads' /\ Links'
    BY <2>1, <2>2, Cleared DEF Heads, Links, InSlot, Greatest, hash_size
  <2>5. Searching' /\ Rehashing'
    BY <1>1, <1>2, <1>3, <2>1 DEF Searching, Rehashing
  <2> QED BY <1>5, <1>6, <2>3, <2>4, <2>5 DEF TablesInv
<1>8. CASE ~ Crowded(n)
  <2>1. /\ prime_index' = prime_index /\ hash_size' = hash_size
        /\ base' = [base EXCEPT ![s] = n] /\ step' = "idle" /\ at' = 0
    BY <1>a, <1>b, <1>1, <1>8 DEF AddEntry, hash_size
  <2>2. Linked' = First .. n
    BY <2>1, <1>2, <1>3 DEF Linked
  <2>3. \A i \in First .. Length : Slot(pool[i])' = Slot(pool[i])
    BY <1>3, <2>1 DEF Slot
  <2>4. Slot(pool[n])' = s
    BY <1>b, <1>3, <2>1 DEF Slot
  <2>5. \A t \in 0 .. hash_size - 1 : InSlot(t)' = InSlot(t) \cup (IF t = s THEN {n} ELSE {})
    BY <1>a, <1>1, <2>2, <2>3, <2>4 DEF InSlot
  <2>6. TablesTyped'
    BY <1>1, <1>2, <1>3, <1>4, <2>1 DEF TablesTyped
  <2>7. Heads'
    <3> SUFFICES ASSUME NEW t \in 0 .. hash_size - 1 PROVE Greatest(base'[t], InSlot(t)')
      BY <2>1 DEF Heads, Greatest
    <3>1. Greatest(base[t], InSlot(t))
      BY <1>1 DEF Heads
    <3>2. InSlot(t) \subseteq First .. Length
      BY <1>1 DEF InSlot
    <3>3. base'[t] = IF t = s THEN n ELSE base[t]
      BY <1>1, <2>1 DEF TablesTyped
    <3>4. CASE t = s
      <4>1. InSlot(t)' = InSlot(t) \cup {n}
        BY <2>5, <3>4
      <4> QED BY <1>a, <1>1, <3>1, <3>2, <3>3, <3>4, <4>1 DEF Greatest
    <3>5. CASE t # s
      <4>1. InSlot(t)' = InSlot(t)
        BY <2>5, <3>5
      <4> QED BY <3>1, <3>3, <3>5, <4>1
    <3> QED BY <3>4, <3>5
  <2>8. Links'
    <3> SUFFICES ASSUME NEW i \in First .. n
                 PROVE Greatest(next'[i], {j \in InSlot(Slot(pool[i]))' : j < i})
      BY <2>2 DEF Links, Greatest
    <3>1. CASE i = n
      <4>1. {j \in InSlot(Slot(pool[i]))' : j < i} = InSlot(s)
        BY <1>a, <1>1, <2>4, <2>5, <3>1 DEF InSlot
      <4> QED BY <1>1, <1>4, <3>1, <4>1 DEF Heads
    <3>2. CASE i \in First .. Length
      <4>1. /\ Slot(pool[i])' = Slot(pool[i])
            /\ Slot(pool[i]) \in 0 .. hash_size - 1
        BY <1>1, <1>3, <2>3, <3>2, SlotIsThere DEF TablesTyped
      <4>2. {j \in InSlot(Slot(pool[i]))' : j < i} = {j \in InSlot(Slot(pool[i])) : j < i}
        BY <1>1, <2>5, <3>2, <4>1
      <4>3. next'[i] = next[i]
        BY <1>1, <1>4, <3>2
      <4> QED BY <1>1, <3>2, <4>2, <4>3 DEF Links
    <3> QED BY <1>a, <1>1, <3>1, <3>2
  <2>9. Searching' /\ Rehashing'
    BY <2>1 DEF Searching, Rehashing
  <2> QED BY <1>5, <1>6, <2>6, <2>7, <2>8, <2>9 DEF TablesInv
<1> QED BY <1>7, <1>8

-----------------------------------------------------------------------------
\* One entry of a rehash: it becomes the newest of its slot.
LEMMA EntryMoved == ASSUME TablesInv, Move PROVE TablesInv'
<1> USE DEF Length
<1>a. PICK s : s = Slot(pool[at])
  OBVIOUS
<1>b. PICK i : i = at
  OBVIOUS
<1>1. /\ TablesTyped /\ Heads /\ Links /\ Unique /\ step = "rehash"
      /\ First \in {1, 2} /\ i \in First .. Length /\ i \in Nat /\ pool[i] \in Texts
      /\ hash_size \in Nat \ {0} /\ s \in 0 .. hash_size - 1
      /\ Linked = First .. i - 1
      /\ Len(next) = Len(pool)
  BY <1>a, <1>b, SlotIsThere, FirstIs DEF TablesInv, TablesTyped, Linked, Rehashing, Move
<1>2. /\ next' = [next EXCEPT ![i] = base[s]]
      /\ base' = [base EXCEPT ![s] = i]
      /\ at' = i + 1 /\ step' = "rehash"
      /\ kind' = kind /\ pool' = pool /\ prime_index' = prime_index
      /\ sought' = sought /\ answer' = answer
      /\ First' = First /\ hash_size' = hash_size
  BY <1>a, <1>b, <1>1 DEF Move, First, hash_size
<1>3. Linked' = First .. i
  BY <1>1, <1>2 DEF Linked
<1>4. \A j \in First .. Length : Slot(pool[j])' = Slot(pool[j])
  BY <1>2 DEF Slot
<1>5. \A t \in 0 .. hash_size - 1 : InSlot(t)' = InSlot(t) \cup (IF t = s THEN {i} ELSE {})
  BY <1>a, <1>b, <1>1, <1>3, <1>4 DEF InSlot
<1>6. TablesTyped'
  <2>1. next' \in Seq(Nat) /\ Len(next') = Len(next)
    BY <1>1, <1>2 DEF TablesTyped
  <2>2. base' \in [0 .. hash_size' - 1 -> Nat]
    BY <1>1, <1>2 DEF TablesTyped
  <2> QED BY <1>1, <1>2, <2>1, <2>2 DEF TablesTyped
<1>7. Heads'
  <2> SUFFICES ASSUME NEW t \in 0 .. hash_size - 1 PROVE Greatest(base'[t], InSlot(t)')
    BY <1>2 DEF Heads, Greatest
  <2>1. Greatest(base[t], InSlot(t)) /\ InSlot(t) \subseteq First .. i - 1
    BY <1>1 DEF Heads, InSlot
  <2>2. base'[t] = IF t = s THEN i ELSE base[t]
    BY <1>1, <1>2 DEF TablesTyped
  <2>3. CASE t = s
    <3>1. InSlot(t)' = InSlot(t) \cup {i}
      BY <1>5, <2>3
    <3> QED BY <1>1, <2>1, <2>2, <2>3, <3>1 DEF Greatest
  <2>4. CASE t # s
    <3>1. InSlot(t)' = InSlot(t)
      BY <1>5, <2>4
    <3> QED BY <2>1, <2>2, <2>4, <3>1
  <2> QED BY <2>3, <2>4
<1>8. Links'
  <2> SUFFICES ASSUME NEW k \in First .. i
               PROVE Greatest(next'[k], {j \in InSlot(Slot(pool[k]))' : j < k})
    BY <1>3 DEF Links, Greatest
  <2>1. k \in Nat /\ Slot(pool[k])' = Slot(pool[k]) /\ Slot(pool[k]) \in 0 .. hash_size - 1
    BY <1>1, <1>4, SlotIsThere DEF TablesTyped
  <2>2. CASE k = i
    <3>1. {j \in InSlot(Slot(pool[k]))' : j < k} = InSlot(s)
      BY <1>a, <1>b, <1>1, <1>5, <2>1, <2>2 DEF InSlot
    <3>2. next'[k] = base[s]
      BY <1>1, <1>2, <2>2 DEF TablesTyped
    <3> QED BY <1>1, <3>1, <3>2 DEF Heads
  <2>3. CASE k # i
    <3>1. {j \in InSlot(Slot(pool[k]))' : j < k} = {j \in InSlot(Slot(pool[k])) : j < k}
      BY <1>1, <1>5, <2>1, <2>3
    <3>2. next'[k] = next[k] /\ k \in Linked
      BY <1>1, <1>2, <2>3 DEF TablesTyped
    <3> QED BY <1>1, <3>1, <3>2 DEF Links
  <2> QED BY <2>2, <2>3
<1>9. Searching' /\ Rehashing' /\ Unique' /\ Answered'
  BY <1>1, <1>2 DEF Searching, Rehashing, Unique, Answered, TablesInv
<1> QED BY <1>6, <1>7, <1>8, <1>9 DEF TablesInv

-----------------------------------------------------------------------------
\* A step that leaves the entries and their chains alone.
LEMMA ChainsUntouched ==
    ASSUME TablesInv, UNCHANGED <<kind, pool, next, base, prime_index>>,
           Linked' = Linked
    PROVE  Heads' /\ Links' /\ Unique' /\ First' = First /\ hash_size' = hash_size
<1>1. First' = First /\ hash_size' = hash_size
  BY DEF First, hash_size
<1>2. \A t : Slot(t)' = Slot(t)
  BY <1>1 DEF Slot
<1>3. \A t : InSlot(t)' = InSlot(t)
  BY <1>1 DEF InSlot, Slot
<1>4. Heads' /\ Unique'
  BY <1>1, <1>3 DEF TablesInv, Heads, Greatest, Unique, Length
<1>5. Links'
  <2> SUFFICES ASSUME NEW i \in Linked
               PROVE Greatest(next[i], {j \in InSlot(Slot(pool[i])) : j < i}')
    BY DEF Links, Greatest
  <2>1. InSlot(Slot(pool[i]))' = InSlot(Slot(pool[i]))
    BY <1>1 DEF InSlot, Slot
  <2> QED BY <2>1 DEF TablesInv, Links
<1> QED BY <1>1, <1>4, <1>5

-----------------------------------------------------------------------------
LEMMA TablesStep == TablesInv /\ [TablesNext]_tableVars => TablesInv'
<1> SUFFICES ASSUME TablesInv, [TablesNext]_tableVars PROVE TablesInv'
  OBVIOUS
<1> USE DEF Length
<1>0. TablesTyped /\ First \in {1, 2} /\ Length \in Nat
  BY FirstIs DEF TablesInv, TablesTyped
<1>1. ASSUME NEW op \in {"find", "insert"}, NEW x \in Texts, Search(op, x) PROVE TablesInv'
  <2>1. Linked' = Linked /\ Linked = First .. Length
    BY <1>1 DEF Search, Linked, First
  <2>2. Heads' /\ Links' /\ Unique' /\ First' = First /\ hash_size' = hash_size
    BY <1>1, <2>1, ChainsUntouched DEF Search
  <2>3. Slot(x) \in 0 .. hash_size - 1 /\ Greatest(base[Slot(x)], InSlot(Slot(x)))
    BY <1>0, SlotIsThere DEF TablesInv, TablesTyped, Heads
  <2>4. TablesTyped'
    BY <1>1, <1>0, <2>2, <2>3 DEF Search, TablesTyped
  <2>5. Searching'
    <3>1. InSlot(Slot(x))' = InSlot(Slot(x)) /\ Slot(x)' = Slot(x)
      BY <1>1, <2>1, <2>2 DEF Search, InSlot, Slot
    <3>2. \A j \in Linked : pool[j] = x => j \in InSlot(Slot(x)) /\ j >= 1
      BY <1>0, <2>1 DEF InSlot
    <3>3. \A j \in Linked : pool[j] = x => j <= base[Slot(x)]
      BY <1>0, <2>1, <2>3, <3>2 DEF Greatest, InSlot
    <3>4. at' = base[Slot(x)] /\ sought'.text = x /\ pool' = pool
      BY <1>1 DEF Search
    <3>5. InSlot(Slot(sought.text))' = InSlot(Slot(x))
      BY <1>1, <2>1, <2>2 DEF Search, InSlot, Slot
    <3> QED BY <2>1, <2>3, <3>3, <3>4, <3>5 DEF Searching, Greatest
  <2>6. Rehashing' /\ Answered'
    BY <1>1 DEF Search, Rehashing, Answered
  <2> QED BY <2>2, <2>4, <2>5, <2>6 DEF TablesInv
<1>2. CASE Follow
  <2>1. Linked' = Linked /\ Linked = First .. Length
    BY <1>2 DEF Follow, Linked, First
  <2>2. Heads' /\ Links' /\ Unique' /\ First' = First /\ hash_size' = hash_size
    BY <1>2, <2>1, ChainsUntouched DEF Follow
  <2>3. /\ at \in InSlot(Slot(sought.text)) /\ at \in Linked /\ pool[at] # sought.text
        /\ Slot(pool[at]) = Slot(sought.text)
        /\ sought.text \in Texts
    BY <1>2, <1>0 DEF Follow, TablesInv, Searching, InSlot, TablesTyped
  <2>4. Greatest(next[at], {j \in InSlot(Slot(sought.text)) : j < at})
    BY <2>3 DEF TablesInv, Links
  <2>5. TablesTyped'
    <3>1. next[at] \in Nat
      BY <1>0, <2>1, <2>3 DEF TablesTyped
    <3> QED BY <1>0, <1>2, <2>2, <3>1 DEF Follow, TablesTyped
  <2>6. Searching'
    <3>1. InSlot(Slot(sought.text))' = InSlot(Slot(sought.text))
      BY <1>2, <2>1, <2>2 DEF Follow, InSlot, Slot
    <3>2. \A j \in Linked : pool[j] = sought.text => j \in InSlot(Slot(sought.text)) /\ j < at /\ j >= 1
      BY <1>0, <1>2, <2>1, <2>3 DEF TablesInv, Searching, InSlot, Follow
    <3>3. \A j \in Linked : pool[j] = sought.text => j <= next[at]
      BY <2>4, <3>2 DEF Greatest
    <3> QED BY <1>2, <2>1, <2>4, <3>1, <3>3 DEF Searching, Greatest, Follow
  <2>7. Rehashing' /\ Answered'
    BY <1>2 DEF Follow, Rehashing, Answered
  <2> QED BY <2>2, <2>5, <2>6, <2>7 DEF TablesInv
<1>3. CASE Found \/ NotFound
  <2>1. Linked' = Linked /\ Linked = First .. Length
    BY <1>3 DEF Found, NotFound, Linked, First
  <2>2. Heads' /\ Links' /\ Unique' /\ First' = First /\ hash_size' = hash_size
    BY <1>3, <2>1, ChainsUntouched DEF Found, NotFound
  <2>3. TablesTyped'
    BY <1>3, <1>0, <2>2 DEF Found, NotFound, TablesTyped
  <2>4. Answered'
    BY <1>3, <1>0, <2>1, <2>2 DEF Found, NotFound, Answered, TablesInv, Searching, InSlot, TablesTyped
  <2>5. Searching' /\ Rehashing'
    BY <1>3 DEF Found, NotFound, Searching, Rehashing
  <2> QED BY <2>2, <2>3, <2>4, <2>5 DEF TablesInv
<1>4. CASE InsertMissing
  <2>1. /\ step = "search" /\ at = 0 /\ AddEntry(sought.text) /\ sought' = sought
        /\ sought.op = "insert" /\ sought.text \in Texts
        /\ sought \in [op : {"find", "insert"}, text : Texts]
    BY <1>4, <1>0 DEF InsertMissing, TablesTyped
  <2>2. \A i \in First .. Length : pool[i] # sought.text
    BY <1>0, <2>1 DEF TablesInv, Searching, Linked
  <2> QED BY <2>1, <2>2, EntryAdded
<1>5. ASSUME kind \notin UniqueKinds, NEW x \in Texts, Insert(x) PROVE TablesInv'
  <2>1. /\ step = "idle" /\ AddEntry(x)
        /\ sought' \in [op : {"insert"}, text : {x}]
    BY <1>5 DEF Insert
  <2> QED BY <1>5, <2>1, EntryAdded
<1>6. CASE Move
  BY <1>6, EntryMoved
<1>7. CASE RehashEnds
  <2>1. Linked' = Linked /\ Linked = First .. Length
    BY <1>7, <1>0 DEF RehashEnds, Linked, First, TablesInv, Rehashing
  <2>2. Heads' /\ Links' /\ Unique' /\ First' = First /\ hash_size' = hash_size
    BY <1>7, <2>1, ChainsUntouched DEF RehashEnds
  <2>3. TablesTyped'
    BY <1>7, <1>0, <2>2 DEF RehashEnds, TablesTyped
  <2>4. Searching' /\ Rehashing' /\ Answered'
    BY <1>7, <2>2 DEF RehashEnds, Searching, Rehashing, Answered, TablesInv
  <2> QED BY <2>2, <2>3, <2>4 DEF TablesInv
<1>8. CASE kind = "type" /\ EmptyTable
  <2>1. /\ First' = 1 /\ hash_size' = hash_size /\ Linked' = {} /\ kind' = kind
        /\ base' = NoChains(prime_index) /\ prime_index' = prime_index
        /\ pool' = <<>> /\ next' = <<>> /\ step' = "idle" /\ sought' = NoCall /\ answer' = 0
    BY <1>8 DEF EmptyTable, First, Linked, hash_size, ValueKinds
  <2>2. prime_index \in 1 .. Len(Primes)
    BY <1>0 DEF TablesTyped
  <2>3. TablesTyped'
    <3>1. base' \in [0 .. hash_size' - 1 -> Nat]
      BY <2>1, <2>2, Cleared DEF hash_size
    <3> QED BY <1>0, <1>8, <2>1, <3>1 DEF TablesTyped, EmptyTable
  <2>4. Heads' /\ Links'
    BY <2>1, <2>2, Cleared DEF Heads, Links, InSlot, Greatest, hash_size
  <2>5. Searching' /\ Rehashing' /\ Answered' /\ Unique'
    BY <2>1 DEF Searching, Rehashing, Answered, Unique, NoCall
  <2> QED BY <2>3, <2>4, <2>5 DEF TablesInv
<1>9. CASE UNCHANGED tableVars
  <2>1. /\ UNCHANGED <<kind, pool, next, base, prime_index>>
        /\ Linked' = Linked
        /\ UNCHANGED <<step, sought, at, answer>>
    BY <1>9 DEF tableVars, Linked, First
  <2>2. Heads' /\ Links' /\ Unique' /\ First' = First /\ hash_size' = hash_size
    BY <2>1, ChainsUntouched
  <2>3. InSlot(Slot(sought.text))' = InSlot(Slot(sought.text))
    BY <2>1, <2>2 DEF InSlot, Slot
  <2>4. TablesTyped' /\ Rehashing' /\ Answered'
    BY <2>1, <2>2 DEF TablesInv, TablesTyped, Rehashing, Answered
  <2>5. Searching'
    BY <2>1, <2>3 DEF TablesInv, Searching
  <2> QED BY <2>2, <2>4, <2>5 DEF TablesInv
<1> QED BY <1>1, <1>2, <1>3, <1>4, <1>5, <1>6, <1>7, <1>8, <1>9, StepOfSomeTable DEF Rehash

(***************************************************************************)
(* The chains of every table are complete and newest first, in the middle  *)
(* of a rehash too, and a search has passed no entry of its text.          *)
(***************************************************************************)
THEOREM TablesInvariant == TablesSpec => []TablesInv
  BY TablesStart, TablesStep, PTL DEF TablesSpec

(***************************************************************************)
(* Every call answers with the newest entry of its text, or with none if   *)
(* there is none, whatever the sizes, the hash function and the texts.     *)
(***************************************************************************)
THEOREM AnswersAreLatest == TablesSpec => []FindsLatest
<1>1. TablesInv => FindsLatest
  <2> SUFFICES ASSUME TablesInv, step = "idle", sought.op # "none"
               PROVE  answer = Latest(sought.text)
    BY DEF FindsLatest
  <2> USE DEF Length
  <2>1. /\ sought.text \in Texts /\ First \in {1, 2} /\ Len(pool) \in Nat
        /\ answer = 0 \/ (answer \in First .. Length /\ pool[answer] = sought.text)
        /\ \A j \in First .. Length : pool[j] = sought.text => j <= answer
    BY FirstIs DEF TablesInv, Answered, TablesTyped
  <2>2. \A i \in 1 .. Length : i < First => pool[i] \notin Texts
    BY <2>1, TablesAssumption DEF TablesInv, TablesTyped
  <2> DEFINE Of == {i \in 1 .. Length : pool[i] = sought.text}
  <2>3. \A i \in Of : i \in First .. Length /\ i <= answer
    BY <2>1, <2>2
  <2>4. CASE answer = 0
    BY <2>1, <2>3, <2>4 DEF Latest
  <2>5. CASE answer # 0
    <3>1. answer \in Of /\ \A i \in Of : i <= answer
      BY <2>1, <2>3, <2>5
    <3>2. \A i \in Of : (\A j \in Of : j <= i) => i = answer
      BY <2>1, <3>1
    <3> QED BY <3>1, <3>2 DEF Latest
  <2> QED BY <2>4, <2>5
<1> QED BY <1>1, TablesInvariant, PTL

(***************************************************************************)
(* A table that looks before it inserts has one entry per text.            *)
(***************************************************************************)
THEOREM TextsAreUnique == TablesSpec => []OneEntryEach
<1>1. TablesInv => OneEntryEach
  BY DEF TablesInv, Unique, OneEntryEach
<1> QED BY <1>1, TablesInvariant, PTL

-----------------------------------------------------------------------------
(***************************************************************************)
(* Proofs that every BitSet stays within its storage, and that it is the   *)
(* set of integers that IntegerSets describes, for every cell size, every  *)
(* number of sets and every bound on their sizes.                          *)
(***************************************************************************)
-----------------------------------------------------------------------------
(* Cells. *)

LEMMA Division ==
    ASSUME NEW n \in Nat
    PROVE  /\ n \div W \in Nat
           /\ n % W \in 0 .. W - 1
           /\ n = W * (n \div W) + (n % W)
BY BitsAssumption, SMT

LEMMA Quotient ==
    ASSUME NEW q \in Nat, NEW p \in Nat, NEW r \in 0 .. W - 1, NEW s \in 0 .. W - 1,
           W * q + r = W * p + s
    PROVE  q = p /\ r = s
<1>1. CASE q > p
  <2>1. PICK d \in Nat : q = p + 1 + d
    BY <1>1, SMT
  <2>2. W * q = W * p + W + W * d
    BY <2>1, BitsAssumption, SMT
  <2>3. W * d >= 0
    BY BitsAssumption, SMT
  <2>. QED
    BY <2>2, <2>3, BitsAssumption, SMT
<1>2. CASE p > q
  <2>1. PICK d \in Nat : p = q + 1 + d
    BY <1>2, SMT
  <2>2. W * p = W * q + W + W * d
    BY <2>1, BitsAssumption, SMT
  <2>3. W * d >= 0
    BY BitsAssumption, SMT
  <2>. QED
    BY <2>2, <2>3, BitsAssumption, SMT
<1>. QED
  BY <1>1, <1>2, BitsAssumption, SMT

\* n bits fill all cells but a last one, of which they need at least a bit.
LEMMA CellsBound ==
    ASSUME NEW n \in Nat
    PROVE  /\ Cells(n) \in Nat
           /\ n <= W * Cells(n)
           /\ W * Cells(n) < n + W
           /\ n = 0 => Cells(n) = 0
           /\ n > 0 => Cells(n) > 0
<1>1. n + W - 1 \in Nat
  BY BitsAssumption, SMT
<1>2. /\ (n + W - 1) \div W \in Nat
      /\ (n + W - 1) % W \in 0 .. W - 1
      /\ n + W - 1 = W * ((n + W - 1) \div W) + ((n + W - 1) % W)
  BY <1>1, Division
<1>3. /\ Cells(n) \in Nat
      /\ n <= W * Cells(n)
      /\ W * Cells(n) < n + W
  BY <1>2, BitsAssumption, SMT DEF Cells
<1>4. ASSUME n = 0 PROVE Cells(n) = 0
  <2>1. W * Cells(n) < W
    BY <1>3, <1>4, BitsAssumption, SMT
  <2>2. W - 1 = W * 0 + (W - 1)
    BY BitsAssumption, SMT
  <2>3. W - 1 \in 0 .. W - 1
    BY BitsAssumption, SMT
  <2>. QED
    BY <1>2, <1>4, <2>2, <2>3, Quotient, BitsAssumption, SMT DEF Cells
<1>5. ASSUME n > 0 PROVE Cells(n) > 0
  <2>1. Cells(n) = 0 => W * Cells(n) = 0
    BY BitsAssumption, SMT
  <2>. QED
    BY <1>3, <1>5, <2>1, SMT
<1>. QED
  BY <1>3, <1>4, <1>5

LEMMA CellsMonotone ==
    ASSUME NEW n \in Nat, NEW m \in Nat, n <= m
    PROVE  Cells(n) <= Cells(m)
<1>1. /\ Cells(n) \in Nat /\ Cells(m) \in Nat
      /\ W * Cells(n) < n + W
      /\ m <= W * Cells(m)
  BY CellsBound
<1>2. ASSUME Cells(n) > Cells(m) PROVE FALSE
  <2>0. /\ Cells(n) - Cells(m) - 1 \in Nat
        /\ Cells(n) = Cells(m) + 1 + (Cells(n) - Cells(m) - 1)
    BY <1>1, <1>2, SMT
  <2>1. PICK d \in Nat : Cells(n) = Cells(m) + 1 + d
    BY <2>0, Zenon
  <2>2. W * Cells(n) = W * Cells(m) + W + W * d
    BY <2>1, <1>1, BitsAssumption, SMT
  <2>3. W * d >= 0
    BY BitsAssumption, SMT
  <2>. QED
    BY <1>1, <2>2, <2>3, BitsAssumption, SMT
<1>. QED
  BY <1>1, <1>2, SMT

\* The loops that start with the last cell reach every cell in use.
LEMMA LastCellIsLast ==
    ASSUME NEW n \in Nat
    PROVE  /\ LastCell(n) \in Nat
           /\ n > 0 => LastCell(n) + 1 = Cells(n)
<1>1. CASE n = 0
  BY <1>1, SMT DEF LastCell
<1>2. CASE n > 0
  <2>1. n - 1 \in Nat /\ n + W - 1 \in Nat
    BY <1>2, BitsAssumption, SMT
  <2>2. /\ (n - 1) \div W \in Nat
        /\ (n - 1) % W \in 0 .. W - 1
        /\ n - 1 = W * ((n - 1) \div W) + ((n - 1) % W)
    BY <2>1, Division
  <2>3. /\ (n + W - 1) \div W \in Nat
        /\ (n + W - 1) % W \in 0 .. W - 1
        /\ n + W - 1 = W * ((n + W - 1) \div W) + ((n + W - 1) % W)
    BY <2>1, Division
  <2>4. W * ((n - 1) \div W + 1) = W * ((n - 1) \div W) + W
    BY <2>2, BitsAssumption, SMT
  <2>5. (n - 1) \div W + 1 = (n + W - 1) \div W
    <3>1. W * ((n - 1) \div W + 1) + ((n - 1) % W)
            = W * ((n + W - 1) \div W) + ((n + W - 1) % W)
      BY <2>2, <2>3, <2>4, BitsAssumption, SMT
    <3>2. (n - 1) \div W + 1 \in Nat
      BY <2>2, SMT
    <3>. QED
      BY <3>1, <3>2, <2>2, <2>3, Quotient
  <2>. QED
    BY <1>2, <2>2, <2>5, SMT DEF LastCell, Cells
<1>. QED
  BY <1>1, <1>2, SMT

\* The last cell in use holds what remains of n bits, or is full.
LEMMA LastCellFilled ==
    ASSUME NEW m \in Nat, m > 0
    PROVE  /\ m % W = 0 => W * Cells(m) = m
           /\ m % W # 0 => W * (Cells(m) - 1) + (m % W) = m
           /\ Cells(m) - 1 \in Nat
           /\ W * (Cells(m) - 1) = W * Cells(m) - W
           /\ W * Cells(m) - W \in Nat
<1>1. m \div W \in Nat /\ m % W \in 0 .. W - 1 /\ m = W * (m \div W) + (m % W)
  BY Division
<1>2. /\ Cells(m) \in Nat /\ Cells(m) > 0
      /\ m <= W * Cells(m)
      /\ W * Cells(m) < m + W
  BY CellsBound
<1>3. PICK v \in Nat : v = W * Cells(m)
  BY <1>2, BitsAssumption, SMT
<1>4. Cells(m) - 1 \in Nat /\ W * (Cells(m) - 1) = v - W /\ v - W \in Nat
  <2>1. Cells(m) - 1 \in Nat
    BY <1>2, SMT
  <2>2. W * (Cells(m) - 1) \in Nat
    BY <2>1, BitsAssumption, SMT
  <2>. QED
    BY <2>1, <2>2, <1>2, <1>3, BitsAssumption, SMT
<1>5. PICK d \in Nat : d = W * (m \div W)
  BY <1>1, BitsAssumption, SMT
<1>6. ASSUME m % W = 0 PROVE v = m
  <2>1. v - m \in 0 .. W - 1
    BY <1>2, <1>3, BitsAssumption, SMT
  <2>2. v + 0 = d + (v - m)
    BY <1>1, <1>5, <1>6, SMT
  <2>3. 0 \in 0 .. W - 1
    BY BitsAssumption, SMT
  <2>4. v - m = 0
    BY <2>1, <2>2, <2>3, <1>1, <1>2, <1>3, <1>5, Quotient
  <2>. QED
    BY <2>4, SMT
<1>7. ASSUME m % W # 0 PROVE W * (Cells(m) - 1) + (m % W) = m
  <2>1. PICK a \in Nat : a = W * (Cells(m) - 1)
    BY <1>4
  <2>2. a + W = v /\ m <= v /\ v < m + W /\ m = d + (m % W)
    BY <1>1, <1>2, <1>3, <1>4, <1>5, <2>1, BitsAssumption, SMT
  <2>3. CASE m - a \in 0 .. W - 1
    <3>1. a + (m - a) = d + (m % W)
      BY <2>2, SMT
    <3>. QED
      BY <3>1, <2>1, <2>3, <1>1, <1>4, <1>5, Quotient
  <2>4. CASE m - a = W
    <3>1. v + 0 = d + (m % W)
      BY <2>2, <2>4, <1>1, SMT
    <3>2. 0 \in 0 .. W - 1
      BY BitsAssumption, SMT
    <3>. QED
      BY <3>1, <3>2, <1>1, <1>2, <1>3, <1>5, <1>7, Quotient
  <2>. QED
    BY <2>2, <2>3, <2>4, BitsAssumption, SMT
<1>. QED
  BY <1>3, <1>4, <1>6, <1>7

LEMMA SpanHolds ==
    ASSUME NEW n \in Nat
    PROVE  /\ 0 .. n - 1 \subseteq Span(Cells(n))
           /\ 0 .. n - 1 \subseteq Span(LastCell(n) + 1)
           /\ Span(Cells(n)) \subseteq Nat
<1>1. Cells(n) \in Nat /\ n <= W * Cells(n)
  BY CellsBound
<1>2. W * Cells(n) \in Nat
  BY <1>1, BitsAssumption, SMT
<1>3. 0 .. n - 1 \subseteq Span(Cells(n)) /\ Span(Cells(n)) \subseteq Nat
  BY <1>1, <1>2, SMT DEF Span
<1>4. n > 0 => Span(LastCell(n) + 1) = Span(Cells(n))
  BY LastCellIsLast
<1>5. n = 0 => 0 .. n - 1 = {}
  BY SMT
<1>. QED
  BY <1>3, <1>4, <1>5, SMT

LEMMA SpanMonotone ==
    ASSUME NEW j \in Nat, NEW k \in Nat, j <= k
    PROVE  Span(j) \subseteq Span(k)
<1>1. PICK d \in Nat : k = j + d
  BY SMT
<1>2. W * k = W * j + W * d /\ W * j \in Nat /\ W * d \in Nat
  BY <1>1, BitsAssumption, SMT
<1>. QED
  BY <1>2, SMT DEF Span

LEMMA BitStands ==
    ASSUME NEW i \in Nat
    PROVE  BitOf(i) = i
BY Division DEF BitOf

-----------------------------------------------------------------------------
(* What the invariant adds to WithinStorage: the storage suffices for every *)
(* size that the set has had, which is why Resize need not move it.         *)

SetsTyped ==
    /\ live \subseteq Sets
    /\ bits \in [Sets -> SUBSET Nat]
    /\ cells \in [Sets -> Nat]
    /\ set_size \in [Sets -> Nat]
    /\ max_set_size \in [Sets -> Nat]

RoomForAll ==
    \A x \in Sets : /\ set_size[x] <= max_set_size[x]
                    /\ Cells(max_set_size[x]) <= cells[x]
                    /\ x \in live => cells[x] >= 1

BitsInv == SetsTyped /\ RoomForAll /\ WithinStorage

\* A write of bits within the storage.
LEMMA WriteWithin ==
    ASSUME BitsInv, NEW x \in Sets, NEW B, Write(x, B), SizesStay, B \subseteq Span(cells[x])
    PROVE  BitsInv'
<1>1. B \subseteq Nat
  BY SMT DEF Span
<1>2. bits' = [bits EXCEPT ![x] = B] /\ UNCHANGED <<live, cells, set_size, max_set_size>>
  BY DEF Write, SizesStay
<1>3. SetsTyped'
  BY <1>1, <1>2 DEF BitsInv, SetsTyped
<1>4. RoomForAll'
  BY <1>2 DEF BitsInv, RoomForAll
<1>5. \A z \in Sets : bits'[z] = IF z = x THEN B ELSE bits[z]
  BY <1>2 DEF BitsInv, SetsTyped
<1>6. WithinStorage'
  BY <1>2, <1>5, Zenon DEF BitsInv, WithinStorage
<1>. QED
  BY <1>3, <1>4, <1>6 DEF BitsInv

\* A set made anew with bits within its new storage.
LEMMA MakeWithin ==
    ASSUME BitsInv, NEW x \in Sets, NEW n \in Nat, NEW B, Make(x, n, B),
           B \subseteq Span(Storage(n))
    PROVE  BitsInv'
<1>1. B \subseteq Nat
  BY SMT DEF Span
<1>2. Cells(n) \in Nat
  BY CellsBound
<1>3. Storage(n) \in Nat /\ Cells(n) <= Storage(n) /\ Storage(n) >= 1
  BY <1>2, SMT DEF Storage
<1>4. /\ live' = live \cup {x}
      /\ bits' = [bits EXCEPT ![x] = B]
      /\ cells' = [cells EXCEPT ![x] = Storage(n)]
      /\ set_size' = [set_size EXCEPT ![x] = n]
      /\ max_set_size' = [max_set_size EXCEPT ![x] = n]
  BY DEF Make, Write
<1>5. SetsTyped'
  BY <1>1, <1>3, <1>4 DEF BitsInv, SetsTyped
<1>6. \A z \in Sets : /\ bits'[z] = IF z = x THEN B ELSE bits[z]
                      /\ cells'[z] = IF z = x THEN Storage(n) ELSE cells[z]
                      /\ set_size'[z] = IF z = x THEN n ELSE set_size[z]
                      /\ max_set_size'[z] = IF z = x THEN n ELSE max_set_size[z]
  BY <1>4 DEF BitsInv, SetsTyped
<1>7. \A z \in Sets : /\ set_size'[z] <= max_set_size'[z]
                      /\ Cells(max_set_size'[z]) <= cells'[z]
                      /\ z \in live' => cells'[z] >= 1
  <2>1. ASSUME NEW z \in Sets, z = x
        PROVE  /\ set_size'[z] <= max_set_size'[z]
               /\ Cells(max_set_size'[z]) <= cells'[z]
               /\ z \in live' => cells'[z] >= 1
    BY <1>3, <1>6, <2>1, SMT
  <2>2. ASSUME NEW z \in Sets, z # x
        PROVE  /\ set_size'[z] <= max_set_size'[z]
               /\ Cells(max_set_size'[z]) <= cells'[z]
               /\ z \in live' => cells'[z] >= 1
    BY <1>4, <1>6, <2>2 DEF BitsInv, RoomForAll
  <2>. QED
    BY <2>1, <2>2
<1>8. RoomForAll'
  BY <1>7 DEF RoomForAll
<1>9. WithinStorage'
  BY <1>3, <1>6, Zenon DEF BitsInv, WithinStorage
<1>. QED
  BY <1>5, <1>8, <1>9 DEF BitsInv

\* A set that goes.
LEMMA DestroyWithin ==
    ASSUME BitsInv, NEW x \in Sets, Destroy(x)
    PROVE  BitsInv'
<1>1. /\ live' = live \ {x}
      /\ bits' = [bits EXCEPT ![x] = {}]
      /\ cells' = [cells EXCEPT ![x] = 0]
      /\ set_size' = [set_size EXCEPT ![x] = 0]
      /\ max_set_size' = [max_set_size EXCEPT ![x] = 0]
  BY DEF Destroy, Write
<1>2. SetsTyped'
  BY <1>1 DEF BitsInv, SetsTyped
<1>3. \A z \in Sets : /\ bits'[z] = IF z = x THEN {} ELSE bits[z]
                      /\ cells'[z] = IF z = x THEN 0 ELSE cells[z]
                      /\ set_size'[z] = IF z = x THEN 0 ELSE set_size[z]
                      /\ max_set_size'[z] = IF z = x THEN 0 ELSE max_set_size[z]
  BY <1>1 DEF BitsInv, SetsTyped
<1>4. Cells(0) = 0
  BY CellsBound
<1>5. ASSUME NEW z \in Sets, z = x
      PROVE  /\ set_size'[z] <= max_set_size'[z]
             /\ Cells(max_set_size'[z]) <= cells'[z]
             /\ Cells(set_size'[z]) <= cells'[z]
  BY <1>3, <1>4, <1>5, SMT
<1>6. RoomForAll'
  <2>1. ASSUME NEW z \in Sets, z # x
        PROVE  /\ set_size'[z] <= max_set_size'[z]
               /\ Cells(max_set_size'[z]) <= cells'[z]
               /\ z \in live' => cells'[z] >= 1
    BY <1>1, <1>3, <2>1 DEF BitsInv, RoomForAll
  <2>2. x \notin live'
    BY <1>1
  <2>. QED
    BY <1>5, <2>1, <2>2 DEF RoomForAll
<1>7. WithinStorage'
  BY <1>3, <1>5, Zenon DEF BitsInv, WithinStorage
<1>. QED
  BY <1>2, <1>6, <1>7 DEF BitsInv

\* What Resize initialises lies in the cells of the larger size, and holds
\* exactly the numbers that are new.
LEMMA FreshIsNew ==
    ASSUME SetsTyped, NEW x \in Sets, NEW n \in Nat
    PROVE  /\ Fresh(x, n) \subseteq Span(Cells(n))
           /\ \A i \in 0 .. n - 1 : i \in Fresh(x, n) <=> i >= set_size[x]
<1>1. PICK m \in Nat : m = set_size[x]
  BY DEF SetsTyped
<1>2. CASE n <= m
  <2>1. Fresh(x, n) = {}
    BY <1>1, <1>2 DEF Fresh
  <2>. QED
    BY <2>1, <1>1, <1>2, SMT
<1>3. CASE n > m
  <2>1. /\ Cells(n) \in Nat /\ Cells(m) \in Nat
        /\ n <= W * Cells(n) /\ m <= W * Cells(m)
        /\ W * Cells(m) < m + W
        /\ m = 0 => Cells(m) = 0
        /\ m > 0 => Cells(m) > 0
    BY CellsBound
  <2>2. Cells(m) <= Cells(n) /\ LastCell(n) + 1 = Cells(n)
    BY <1>3, CellsMonotone, LastCellIsLast, SMT
  <2>3. PICK u \in Nat : u = W * Cells(n)
    BY <2>1, BitsAssumption, SMT
  <2>4. PICK v \in Nat : v = W * Cells(m)
    BY <2>1, BitsAssumption, SMT
  <2>5. v <= u /\ Span(Cells(n)) = 0 .. u - 1 /\ Span(Cells(m)) = 0 .. v - 1
    <3>1. Span(Cells(m)) \subseteq Span(Cells(n))
      BY <2>1, <2>2, SpanMonotone
    <3>2. Span(Cells(n)) = 0 .. u - 1 /\ Span(Cells(m)) = 0 .. v - 1
      BY <2>3, <2>4 DEF Span
    <3>. QED
      BY <3>1, <3>2, SMT
  <2>6. PICK F : F = IF m # 0 /\ m % W # 0
                     THEN {b \in Span(Cells(m)) \ Span(Cells(m) - 1) :
                               b >= W * (Cells(m) - 1) + (m % W)}
                     ELSE {}
    OBVIOUS
  <2>7. Fresh(x, n) = ((0 .. u - 1) \ (0 .. v - 1)) \cup F
    BY <1>1, <1>3, <2>1, <2>2, <2>5, <2>6, SMT DEF Fresh
  <2>8. F = m .. v - 1
    <3>1. m % W \in 0 .. W - 1
      BY Division
    <3>2. CASE m = 0
      <4>1. F = {}
        BY <2>6, <3>2
      <4>2. v = 0
        BY <2>1, <2>4, <3>2, BitsAssumption, SMT
      <4>. QED
        BY <4>1, <4>2, <3>2, SMT
    <3>3. CASE m # 0 /\ m % W = 0
      <4>1. F = {}
        BY <2>6, <3>3
      <4>2. v = m
        BY <2>4, <3>3, LastCellFilled, SMT
      <4>. QED
        BY <4>1, <4>2, SMT
    <3>4. CASE m # 0 /\ m % W # 0
      <4>1. Cells(m) - 1 \in Nat /\ W * (Cells(m) - 1) = v - W /\ v - W \in Nat
        BY <2>4, <3>4, LastCellFilled, SMT
      <4>2. W * (Cells(m) - 1) + (m % W) = m
        BY <3>4, LastCellFilled, SMT
      <4>3. Span(Cells(m) - 1) = 0 .. v - W - 1
        BY <4>1 DEF Span
      <4>4. F = {b \in (0 .. v - 1) \ (0 .. v - W - 1) : b >= m}
        BY <2>5, <2>6, <3>4, <4>2, <4>3
      <4>5. m >= v - W
        <5>1. m = (v - W) + (m % W)
          BY <4>1, <4>2
        <5>. QED
          BY <5>1, <4>1, <3>1, SMT
      <4>. QED
        BY <4>4, <4>5, BitsAssumption, SMT
    <3>. QED
      BY <3>2, <3>3, <3>4
  <2>9. n <= u /\ m <= v
    BY <2>1, <2>3, <2>4
  <2>. QED
    BY <1>1, <1>3, <2>5, <2>7, <2>8, <2>9, SMT
<1>. QED
  BY <1>1, <1>2, <1>3, SMT

\* Resize keeps what it had, and has room for the new size.
LEMMA ResizeStep ==
    ASSUME BitsInv, NEW x \in Sets, NEW n \in Nat, Resize(x, n)
    PROVE  /\ BitsInv'
           /\ \E B : /\ Write(x, B)
                     /\ \A i \in 0 .. set_size[x] - 1 : i < n => (i \in B <=> i \in bits[x])
                     /\ \/ \A i \in 0 .. n - 1 : i >= set_size[x] => i \notin B
                        \/ \A i \in 0 .. n - 1 : i >= set_size[x] => i \in B
<1>1. PICK kept, B :
          /\ \/ /\ Grows(x, n)
                /\ \E junk \in SUBSET (Span(Cells(n)) \ Span(Cells(max_set_size[x]))) :
                       kept = (bits[x] \cap Span(Cells(max_set_size[x]))) \cup junk
             \/ ~Grows(x, n) /\ kept = bits[x]
          /\ B = kept \ Fresh(x, n) \/ B = kept \cup Fresh(x, n)
          /\ Write(x, B)
  BY Zenon DEF Resize
<1>2. PICK m \in Nat, p \in Nat, k \in Nat :
          m = set_size[x] /\ p = max_set_size[x] /\ k = cells[x]
  BY DEF BitsInv, SetsTyped
<1>3. m <= p /\ Cells(p) <= k /\ k >= 1 /\ bits[x] \subseteq Span(k)
  BY <1>2 DEF BitsInv, RoomForAll, WithinStorage, Resize
<1>4. Cells(p) \in Nat /\ Cells(n) \in Nat /\ Cells(m) \in Nat
  BY CellsBound
<1>5. PICK c : c = IF Grows(x, n) THEN Cells(n) ELSE k
  OBVIOUS
<1>6. c \in Nat /\ c >= 1 /\ Cells(n) <= c /\ Cells(p) <= c
  <2>1. CASE Grows(x, n)
    BY <2>1, <1>2, <1>4, <1>5, SMT DEF Grows
  <2>2. CASE ~Grows(x, n)
    <3>1. n <= p => Cells(n) <= Cells(p)
      BY CellsMonotone
    <3>. QED
      BY <2>2, <3>1, <1>2, <1>3, <1>4, <1>5, SMT DEF Grows
  <2>. QED
    BY <2>1, <2>2
<1>7. Span(Cells(n)) \subseteq Span(c)
  BY <1>4, <1>6, SpanMonotone
<1>8. kept \subseteq Span(c)
  <2>1. CASE Grows(x, n)
    <3>1. Span(Cells(p)) \subseteq Span(c)
      BY <1>4, <1>6, SpanMonotone
    <3>. QED
      BY <2>1, <3>1, <1>1, <1>2, <1>7
  <2>2. CASE ~Grows(x, n)
    BY <2>2, <1>1, <1>3, <1>5
  <2>. QED
    BY <2>1, <2>2
<1>9. /\ Fresh(x, n) \subseteq Span(Cells(n))
      /\ \A i \in 0 .. n - 1 : i \in Fresh(x, n) <=> i >= set_size[x]
  BY FreshIsNew DEF BitsInv
<1>10. B \subseteq Span(c)
  BY <1>1, <1>7, <1>8, <1>9
<1>11. \A i \in 0 .. m - 1 : i \in kept <=> i \in bits[x]
  <2>1. 0 .. p - 1 \subseteq Span(Cells(p))
    BY SpanHolds
  <2>2. 0 .. m - 1 \subseteq 0 .. p - 1
    BY <1>3, SMT
  <2>. QED
    BY <2>1, <2>2, <1>1, <1>2
<1>12. \A i \in 0 .. m - 1 : i < n => (i \in B <=> i \in bits[x])
  <2>1. ASSUME NEW i \in 0 .. m - 1, i < n PROVE i \notin Fresh(x, n)
    BY <2>1, <1>2, <1>9, SMT
  <2>. QED
    BY <2>1, <1>1, <1>11
<1>13. \/ \A i \in 0 .. n - 1 : i >= set_size[x] => i \notin B
       \/ \A i \in 0 .. n - 1 : i >= set_size[x] => i \in B
  BY <1>1, <1>9
<1>14. PICK q \in Nat : q = IF n > p THEN n ELSE p
  OBVIOUS
<1>15. n <= q /\ Cells(q) <= c
  BY <1>6, <1>14, SMT
<1>16. /\ UNCHANGED live
       /\ bits' = [bits EXCEPT ![x] = B]
       /\ cells' = [cells EXCEPT ![x] = c]
       /\ set_size' = [set_size EXCEPT ![x] = n]
       /\ max_set_size' = [max_set_size EXCEPT ![x] = q]
  BY <1>1, <1>2, <1>5, <1>14 DEF Resize, Write
<1>17. B \subseteq Nat
  BY <1>10, SMT DEF Span
<1>18. SetsTyped'
  BY <1>6, <1>16, <1>17 DEF BitsInv, SetsTyped
<1>19. \A z \in Sets : /\ bits'[z] = IF z = x THEN B ELSE bits[z]
                       /\ cells'[z] = IF z = x THEN c ELSE cells[z]
                       /\ set_size'[z] = IF z = x THEN n ELSE set_size[z]
                       /\ max_set_size'[z] = IF z = x THEN q ELSE max_set_size[z]
  BY <1>16 DEF BitsInv, SetsTyped
<1>20. RoomForAll'
  <2>1. \A z \in Sets : /\ set_size'[z] <= max_set_size'[z]
                        /\ Cells(max_set_size'[z]) <= cells'[z]
                        /\ z \in live' => cells'[z] >= 1
    BY <1>6, <1>15, <1>16, <1>19, Zenon DEF BitsInv, RoomForAll
  <2>. QED
    BY <2>1 DEF RoomForAll
<1>21. WithinStorage'
  BY <1>6, <1>10, <1>19, Zenon DEF BitsInv, WithinStorage
<1>. QED
  BY <1>1, <1>2, <1>12, <1>13, <1>18, <1>20, <1>21, Zenon DEF BitsInv

-----------------------------------------------------------------------------
(* What a step is to the abstract sets. *)

LEMMA MakeIsSet ==
    ASSUME SetsTyped, NEW x \in Sets, NEW n \in Nat, NEW B, Make(x, n, B)
    PROVE  /\ x \notin live /\ live' = live \cup {x}
           /\ Abstract!IsSet(x, {i \in 0 .. n - 1 : i \in B}, n)
           /\ reply' = FALSE
<1>1. \A z \in Sets : /\ bits'[z] = IF z = x THEN B ELSE bits[z]
                      /\ set_size'[z] = IF z = x THEN n ELSE set_size[z]
  BY DEF Make, Write, SetsTyped
<1>2. elements' = [elements EXCEPT ![x] = {i \in 0 .. n - 1 : i \in B}]
  BY <1>1, Zenon DEF elements
<1>. QED
  BY <1>2 DEF Make, Abstract!IsSet

LEMMA WriteIsSet ==
    ASSUME SetsTyped, NEW x \in Sets, NEW B, Write(x, B), SizesStay
    PROVE  /\ Abstract!IsSet(x, {i \in 0 .. set_size[x] - 1 : i \in B}, set_size[x])
           /\ UNCHANGED live /\ reply' = FALSE
<1>1. \A z \in Sets : /\ bits'[z] = IF z = x THEN B ELSE bits[z]
                      /\ set_size'[z] = set_size[z]
  BY DEF Write, SizesStay, SetsTyped
<1>2. elements' = [elements EXCEPT ![x] = {i \in 0 .. set_size[x] - 1 : i \in B}]
  BY <1>1, Zenon DEF elements
<1>3. set_size' = [set_size EXCEPT ![x] = set_size[x]]
  BY DEF SizesStay, SetsTyped
<1>. QED
  BY <1>2, <1>3 DEF SizesStay, Abstract!IsSet

LEMMA StorageSuffices ==
    ASSUME NEW n \in Nat
    PROVE  Span(Cells(n)) \subseteq Span(Storage(n))
<1>1. Cells(n) \in Nat
  BY CellsBound
<1>2. Storage(n) \in Nat /\ Cells(n) <= Storage(n)
  BY <1>1, SMT DEF Storage
<1>. QED
  BY <1>1, <1>2, SpanMonotone

LEMMA SizeIsNatural ==
    ASSUME NEW n \in 0 .. MaxSize
    PROVE  n \in Nat
BY BitsAssumption, SMT

LEMMA ConstructStep ==
    ASSUME BitsInv, NEW x \in Sets, NEW n \in 0 .. MaxSize,
           \/ Uninitialized(x, n) /\ call' = "BitSet(size)"
           \/ Initialized(x, n) /\ call' = "BitSet(size, init)"
    PROVE  BitsInv' /\ Abstract!SetsNext
<1>1. n \in Nat
  BY SizeIsNatural
<1>2. Span(Cells(n)) \subseteq Span(Storage(n)) /\ 0 .. n - 1 \subseteq Span(Cells(n))
  BY <1>1, StorageSuffices, SpanHolds
<1>3. PICK B :
          /\ Make(x, n, B) /\ B \subseteq Span(Storage(n))
          /\ \/ call' = "BitSet(size)"
             \/ /\ call' = "BitSet(size, init)"
                /\ B \cap Span(Cells(n)) \in {{}, Span(Cells(n))}
  <2>1. CASE Uninitialized(x, n) /\ call' = "BitSet(size)"
    BY <2>1, Zenon DEF Uninitialized
  <2>2. CASE Initialized(x, n) /\ call' = "BitSet(size, init)"
    <3>1. PICK init \in {"EMPTY", "UNIVERSE"}, junk \in SUBSET Span(Storage(n)) :
              Make(x, n, (junk \ Span(Cells(n)))
                         \cup (IF init = "UNIVERSE" THEN Span(Cells(n)) ELSE {}))
      BY <2>2, Zenon DEF Initialized
    <3>2. PICK B : B = (junk \ Span(Cells(n)))
                       \cup (IF init = "UNIVERSE" THEN Span(Cells(n)) ELSE {})
      OBVIOUS
    <3>3. Make(x, n, B)
      BY <3>1, <3>2
    <3>4. B \subseteq Span(Storage(n)) /\ B \cap Span(Cells(n)) \in {{}, Span(Cells(n))}
      BY <1>2, <3>2
    <3>. QED
      BY <2>2, <3>3, <3>4
  <2>. QED
    BY <2>1, <2>2
<1>4. BitsInv'
  BY <1>1, <1>3, MakeWithin
<1>5. PICK E : E = {i \in 0 .. n - 1 : i \in B}
  OBVIOUS
<1>6. /\ x \notin live /\ live' = live \cup {x}
      /\ Abstract!IsSet(x, E, n) /\ reply' = FALSE
  BY <1>1, <1>3, <1>5, MakeIsSet DEF BitsInv
<1>7. E \in SUBSET Abstract!Below(n)
  BY <1>5 DEF Abstract!Below
<1>8. B \cap Span(Cells(n)) \in {{}, Span(Cells(n))} => E \in {{}, Abstract!Below(n)}
  BY <1>2, <1>5 DEF Abstract!Below
<1>9. Abstract!Construct(x)
  BY <1>3, <1>6, <1>7, <1>8, Zenon DEF Abstract!Construct
<1>. QED
  BY <1>4, <1>6, <1>9 DEF Abstract!SetsNext

LEMMA CloneStep ==
    ASSUME BitsInv, NEW x \in Sets, NEW y \in Sets, Clone(x, y), call' = "BitSet(rhs)"
    PROVE  BitsInv' /\ Abstract!SetsNext
<1>1. PICK n \in Nat : n = set_size[y]
  BY DEF BitsInv, SetsTyped
<1>2. PICK junk \in SUBSET Span(Storage(n)) :
          Make(x, n, (junk \ Span(Cells(n))) \cup (bits[y] \cap Span(Cells(n))))
  BY <1>1, Zenon DEF Clone
<1>3. PICK B : B = (junk \ Span(Cells(n))) \cup (bits[y] \cap Span(Cells(n)))
  OBVIOUS
<1>4. B \subseteq Span(Storage(n))
  BY <1>3, StorageSuffices
<1>5. Make(x, n, B)
  BY <1>2, <1>3
<1>6. BitsInv'
  BY <1>4, <1>5, MakeWithin
<1>7. {i \in 0 .. n - 1 : i \in B} = elements[y]
  <2>1. 0 .. n - 1 \subseteq Span(Cells(n))
    BY SpanHolds
  <2>. QED
    BY <2>1, <1>1, <1>3 DEF elements
<1>8. /\ x \notin live /\ live' = live \cup {x}
      /\ Abstract!IsSet(x, {i \in 0 .. n - 1 : i \in B}, n) /\ reply' = FALSE
  BY <1>5, MakeIsSet DEF BitsInv
<1>9. y \in live /\ Abstract!IsSet(x, elements[y], set_size[y])
  BY <1>1, <1>7, <1>8 DEF Clone
<1>10. Abstract!Construct(x)
  BY <1>8, <1>9 DEF Abstract!Construct
<1>. QED
  BY <1>6, <1>8, <1>10 DEF Abstract!SetsNext

LEMMA DestroyStep ==
    ASSUME BitsInv, NEW x \in Sets, Destroy(x), call' = "~BitSet"
    PROVE  BitsInv' /\ Abstract!SetsNext
<1>1. BitsInv'
  BY DestroyWithin
<1>2. \A z \in Sets : /\ bits'[z] = IF z = x THEN {} ELSE bits[z]
                      /\ set_size'[z] = IF z = x THEN 0 ELSE set_size[z]
  BY DEF Destroy, Write, BitsInv, SetsTyped
<1>3. elements' = [elements EXCEPT ![x] = {}]
  BY <1>2, Zenon DEF elements
<1>4. Abstract!Destroy(x)
  BY <1>3 DEF Destroy, Abstract!Destroy, Abstract!IsSet
<1>. QED
  BY <1>1, <1>4 DEF Destroy, Abstract!SetsNext

\* The members that change a set without changing its size.
LEMMA WholeSetStep ==
    ASSUME BitsInv, NEW x \in Sets,
           \/ EmptySet(x) /\ call' = "SetEmpty"
           \/ SetUniverse(x) /\ call' = "SetUniverse"
    PROVE  BitsInv' /\ Abstract!SetsNext
<1>1. PICK n \in Nat : n = set_size[x]
  BY DEF BitsInv, SetsTyped
<1>2. 0 .. n - 1 \subseteq Span(Cells(n))
  BY SpanHolds
<1>3. Span(Cells(n)) \subseteq Span(cells[x])
  BY <1>1, CellsBound, SpanMonotone DEF BitsInv, SetsTyped, WithinStorage
<1>4. CASE EmptySet(x) /\ call' = "SetEmpty"
  <2>1. PICK B : B = bits[x] \ Span(Cells(n))
    OBVIOUS
  <2>2. Write(x, B) /\ SizesStay /\ B \subseteq Span(cells[x])
    BY <1>1, <1>4, <2>1 DEF EmptySet, BitsInv, WithinStorage
  <2>3. BitsInv'
    BY <2>2, WriteWithin
  <2>4. Abstract!IsSet(x, {i \in 0 .. n - 1 : i \in B}, n) /\ UNCHANGED live /\ reply' = FALSE
    BY <1>1, <2>2, WriteIsSet DEF BitsInv
  <2>5. {i \in 0 .. n - 1 : i \in B} = {}
    BY <1>2, <2>1
  <2>6. Abstract!Empty(x)
    BY <1>1, <1>4, <2>4, <2>5 DEF Abstract!Empty
  <2>. QED
    BY <1>4, <2>3, <2>4, <2>6 DEF EmptySet, Abstract!Change, Abstract!SetsNext
<1>5. CASE SetUniverse(x) /\ call' = "SetUniverse"
  <2>1. PICK B : B = bits[x] \cup Span(Cells(n))
    OBVIOUS
  <2>2. Write(x, B) /\ SizesStay /\ B \subseteq Span(cells[x])
    BY <1>1, <1>3, <1>5, <2>1 DEF SetUniverse, BitsInv, WithinStorage
  <2>3. BitsInv'
    BY <2>2, WriteWithin
  <2>4. Abstract!IsSet(x, {i \in 0 .. n - 1 : i \in B}, n) /\ UNCHANGED live /\ reply' = FALSE
    BY <1>1, <2>2, WriteIsSet DEF BitsInv
  <2>5. {i \in 0 .. n - 1 : i \in B} = Abstract!Below(n)
    BY <1>2, <2>1 DEF Abstract!Below
  <2>6. Abstract!Fill(x)
    BY <1>1, <1>5, <2>4, <2>5 DEF Abstract!Fill
  <2>. QED
    BY <1>5, <2>3, <2>4, <2>6 DEF SetUniverse, Abstract!Change, Abstract!SetsNext
<1>. QED
  BY <1>4, <1>5

LEMMA ElementStep ==
    ASSUME BitsInv, NEW x \in Sets, NEW i \in Nat,
           \/ AddElement(x, i) /\ call' = "AddElement"
           \/ RemoveElement(x, i) /\ call' = "RemoveElement"
    PROVE  BitsInv' /\ Abstract!SetsNext
<1>1. PICK n \in Nat : n = set_size[x]
  BY DEF BitsInv, SetsTyped
<1>2. i \in 0 .. n - 1 /\ BitOf(i) = i
  BY <1>1, BitStands, SMT DEF AddElement, RemoveElement
<1>3. i \in Span(cells[x])
  BY <1>1, <1>2, SpanHolds, CellsBound, SpanMonotone DEF BitsInv, SetsTyped, WithinStorage
<1>4. i \in Abstract!Below(n)
  BY <1>2 DEF Abstract!Below
<1>5. CASE AddElement(x, i) /\ call' = "AddElement"
  <2>1. PICK B : B = bits[x] \cup {i}
    OBVIOUS
  <2>2. Write(x, B) /\ SizesStay /\ B \subseteq Span(cells[x])
    BY <1>2, <1>3, <1>5, <2>1 DEF AddElement, BitsInv, WithinStorage
  <2>3. BitsInv'
    BY <2>2, WriteWithin
  <2>4. Abstract!IsSet(x, {j \in 0 .. n - 1 : j \in B}, n) /\ UNCHANGED live /\ reply' = FALSE
    BY <1>1, <2>2, WriteIsSet DEF BitsInv
  <2>5. {j \in 0 .. n - 1 : j \in B} = elements[x] \cup {i}
    BY <1>1, <1>2, <2>1 DEF elements
  <2>6. Abstract!Add(x)
    BY <1>1, <1>4, <1>5, <2>4, <2>5 DEF Abstract!Add
  <2>. QED
    BY <1>5, <2>3, <2>4, <2>6 DEF AddElement, Abstract!Change, Abstract!SetsNext
<1>6. CASE RemoveElement(x, i) /\ call' = "RemoveElement"
  <2>1. PICK B : B = bits[x] \ {i}
    OBVIOUS
  <2>2. Write(x, B) /\ SizesStay /\ B \subseteq Span(cells[x])
    BY <1>2, <1>6, <2>1 DEF RemoveElement, BitsInv, WithinStorage
  <2>3. BitsInv'
    BY <2>2, WriteWithin
  <2>4. Abstract!IsSet(x, {j \in 0 .. n - 1 : j \in B}, n) /\ UNCHANGED live /\ reply' = FALSE
    BY <1>1, <2>2, WriteIsSet DEF BitsInv
  <2>5. {j \in 0 .. n - 1 : j \in B} = elements[x] \ {i}
    BY <1>1, <1>2, <2>1 DEF elements
  <2>6. Abstract!Remove(x)
    BY <1>1, <1>4, <1>6, <2>4, <2>5 DEF Abstract!Remove
  <2>. QED
    BY <1>6, <2>3, <2>4, <2>6 DEF RemoveElement, Abstract!Change, Abstract!SetsNext
<1>. QED
  BY <1>5, <1>6

LEMMA TwoSetsStep ==
    ASSUME BitsInv, NEW x \in Sets, NEW y \in Sets,
           \/ Assign(x, y) /\ call' = "="
           \/ Union(x, y) /\ call' = "+="
           \/ Intersection(x, y) /\ call' = "*="
           \/ Difference(x, y) /\ call' = "-="
    PROVE  BitsInv' /\ Abstract!SetsNext
<1>1. PICK n \in Nat : {x, y} \subseteq live /\ n = set_size[x] /\ n = set_size[y]
  BY DEF BitsInv, SetsTyped, Assign, Union, Intersection, Difference
<1>2. PICK B :
          /\ Write(x, B) /\ SizesStay
          /\ \/ /\ call' = "="
                /\ B = (bits[x] \ Span(Cells(n))) \cup (bits[y] \cap Span(Cells(n)))
             \/ call' = "+=" /\ B = bits[x] \cup (bits[y] \cap Reached(x))
             \/ call' = "*=" /\ B = bits[x] \ (Reached(x) \ bits[y])
             \/ call' = "-=" /\ B = bits[x] \ (bits[y] \cap Reached(x))
  BY <1>1 DEF Assign, Union, Intersection, Difference
<1>3. 0 .. n - 1 \subseteq Span(Cells(n)) /\ 0 .. n - 1 \subseteq Reached(x)
  BY <1>1, SpanHolds DEF Reached
<1>4. Span(Cells(n)) \subseteq Span(cells[x])
  BY <1>1, CellsBound, SpanMonotone DEF BitsInv, SetsTyped, WithinStorage
<1>5. Reached(x) \subseteq Span(cells[x])
  <2>1. LastCell(n) + 1 <= cells[x] /\ LastCell(n) \in Nat /\ cells[x] \in Nat
    <3>1. /\ Cells(n) <= cells[x] /\ cells[x] >= 1 /\ cells[x] \in Nat
      BY <1>1 DEF BitsInv, SetsTyped, RoomForAll, WithinStorage
    <3>2. CASE n = 0
      BY <3>1, <3>2, LastCellIsLast, SMT DEF LastCell
    <3>3. CASE n > 0
      BY <3>1, <3>3, LastCellIsLast
    <3>. QED
      BY <3>2, <3>3, SMT
  <2>. QED
    BY <2>1, <1>1, SpanMonotone, SMT DEF Reached
<1>6. B \subseteq Span(cells[x])
  BY <1>2, <1>4, <1>5 DEF BitsInv, WithinStorage
<1>7. BitsInv'
  BY <1>2, <1>6, WriteWithin
<1>8. Abstract!IsSet(x, {i \in 0 .. n - 1 : i \in B}, n) /\ UNCHANGED live /\ reply' = FALSE
  BY <1>1, <1>2, WriteIsSet DEF BitsInv
<1>9. /\ elements[x] = {i \in 0 .. n - 1 : i \in bits[x]}
      /\ elements[y] = {i \in 0 .. n - 1 : i \in bits[y]}
  BY <1>1 DEF elements
<1>10. \/ call' = "=" /\ {i \in 0 .. n - 1 : i \in B} = elements[y]
       \/ call' = "+=" /\ {i \in 0 .. n - 1 : i \in B} = elements[x] \cup elements[y]
       \/ call' = "*=" /\ {i \in 0 .. n - 1 : i \in B} = elements[x] \cap elements[y]
       \/ call' = "-=" /\ {i \in 0 .. n - 1 : i \in B} = elements[x] \ elements[y]
  BY <1>2, <1>3, <1>9
<1>11. Abstract!Combine(x, y)
  BY <1>1, <1>8, <1>10 DEF Abstract!Combine
<1>. QED
  BY <1>1, <1>7, <1>8, <1>11 DEF Abstract!Change, Abstract!SetsNext

LEMMA NewSizeStep ==
    ASSUME BitsInv, NEW x \in Sets, NEW n \in 0 .. MaxSize, Resize(x, n), call' = "Resize"
    PROVE  BitsInv' /\ Abstract!SetsNext
<1>1. n \in Nat
  BY BitsAssumption, SMT
<1>2. PICK m \in Nat : m = set_size[x]
  BY DEF BitsInv, SetsTyped
<1>3. BitsInv' /\ \E B :
          /\ Write(x, B)
          /\ \A i \in 0 .. m - 1 : i < n => (i \in B <=> i \in bits[x])
          /\ \/ \A i \in 0 .. n - 1 : i >= m => i \notin B
             \/ \A i \in 0 .. n - 1 : i >= m => i \in B
  BY <1>1, <1>2, ResizeStep
<1>4. PICK B :
          /\ Write(x, B)
          /\ \A i \in 0 .. m - 1 : i < n => (i \in B <=> i \in bits[x])
          /\ \/ \A i \in 0 .. n - 1 : i >= m => i \notin B
             \/ \A i \in 0 .. n - 1 : i >= m => i \in B
  BY <1>3
<1>5. PICK E : E = {i \in 0 .. n - 1 : i \in B}
  OBVIOUS
<1>6. /\ elements' = [elements EXCEPT ![x] = E]
      /\ set_size' = [set_size EXCEPT ![x] = n]
      /\ x \in live /\ UNCHANGED live /\ reply' = FALSE
  <2>1. \A z \in Sets : /\ bits'[z] = IF z = x THEN B ELSE bits[z]
                        /\ set_size'[z] = IF z = x THEN n ELSE set_size[z]
    BY <1>4 DEF Resize, Write, BitsInv, SetsTyped
  <2>2. elements' = [elements EXCEPT ![x] = {i \in 0 .. n - 1 : i \in B}]
    BY <2>1, Zenon DEF elements
  <2>. QED
    BY <2>2, <1>5 DEF Resize
<1>7. elements[x] = {i \in 0 .. m - 1 : i \in bits[x]}
  BY <1>2 DEF elements
<1>8. \/ E = elements[x] \cap (0 .. n - 1)
      \/ E = (elements[x] \cap (0 .. n - 1)) \cup (m .. n - 1)
  <2>1. CASE \A i \in 0 .. n - 1 : i >= m => i \notin B
    <3>1. E = elements[x] \cap (0 .. n - 1)
      BY <1>1, <1>4, <1>5, <1>7, <2>1, SMT
    <3>. QED
      BY <3>1
  <2>2. CASE \A i \in 0 .. n - 1 : i >= m => i \in B
    <3>1. E = (elements[x] \cap (0 .. n - 1)) \cup (m .. n - 1)
      BY <1>1, <1>4, <1>5, <1>7, <2>2, SMT
    <3>. QED
      BY <3>1
  <2>. QED
    BY <1>4, <2>1, <2>2
<1>9. Abstract!Resize(x)
  BY <1>2, <1>6, <1>8 DEF Abstract!Resize, Abstract!IsSet, Abstract!Below
<1>. QED
  BY <1>3, <1>6, <1>9 DEF Abstract!Change, Abstract!SetsNext

LEMMA QuestionStep ==
    ASSUME BitsInv, NEW x \in Sets,
           \/ IsUniverse(x) /\ call' = "IsUniverse"
           \/ (\E i \in Nat : HasElement(x, i)) /\ call' = "[]"
    PROVE  BitsInv' /\ Abstract!SetsNext
<1>1. PICK n \in Nat : n = set_size[x]
  BY DEF BitsInv, SetsTyped
<1>2. x \in live /\ UNCHANGED <<live, bits, cells, set_size, max_set_size>>
  BY DEF IsUniverse, HasElement
<1>3. BitsInv'
  BY <1>2 DEF BitsInv, SetsTyped, RoomForAll, WithinStorage
<1>4. UNCHANGED <<elements, set_size>>
  BY <1>2 DEF elements
<1>5. elements[x] = {i \in 0 .. n - 1 : i \in bits[x]}
  BY <1>1 DEF elements
<1>6. ASSUME IsUniverse(x), call' = "IsUniverse" PROVE Abstract!Ask(x)
  <2>1. PICK last \in Nat : last = LastCell(n)
    BY LastCellIsLast
  <2>2. PICK mask :
            mask = {b \in Span(last + 1) \ Span(last) :
                        n % W # 0 => b < W * last + (n % W)}
    OBVIOUS
  <2>3. reply' = (Span(last) \subseteq bits[x] /\ (n = 0 \/ mask \subseteq bits[x]))
    BY <1>1, <1>6, <2>1, <2>2 DEF IsUniverse
  <2>4. CASE n = 0
    <3>1. Span(last) = {}
      BY <2>1, <2>4, BitsAssumption, SMT DEF LastCell, Span
    <3>2. reply' = TRUE
      BY <2>3, <2>4, <3>1
    <3>3. elements[x] = Abstract!Below(n)
      BY <1>5, <2>4, SMT DEF Abstract!Below
    <3>. QED
      BY <3>2, <3>3, <1>1, <1>4, <1>6 DEF Abstract!Ask
  <2>5. CASE n > 0
    <3>1. Span(last) \cup mask = 0 .. n - 1
      <4>1. last + 1 = Cells(n) /\ Cells(n) \in Nat
        BY <2>1, <2>5, LastCellIsLast, CellsBound
      <4>2. PICK v \in Nat : v = W * Cells(n)
        BY <4>1, BitsAssumption, SMT
      <4>3. W * last = v - W /\ v - W \in Nat
        <5>1. last = Cells(n) - 1
          BY <4>1, SMT
        <5>. QED
          BY <5>1, <4>2, <2>5, LastCellFilled
      <4>4. Span(last + 1) = 0 .. v - 1 /\ Span(last) = 0 .. v - W - 1
        BY <4>1, <4>2, <4>3 DEF Span
      <4>5. CASE n % W = 0
        <5>1. v = n
          BY <4>2, <4>5, <2>5, LastCellFilled
        <5>2. mask = (0 .. v - 1) \ (0 .. v - W - 1)
          BY <2>2, <4>4, <4>5
        <5>. QED
          BY <5>1, <5>2, <4>3, <4>4, BitsAssumption, SMT
      <4>6. CASE n % W # 0
        <5>1. W * last + (n % W) = n /\ n <= v
          <6>1. last = Cells(n) - 1
            BY <4>1, SMT
          <6>. QED
            BY <6>1, <4>2, <4>6, <2>5, LastCellFilled, CellsBound
        <5>2. n >= v - W
          BY <5>1, <4>3, Division, SMT
        <5>3. mask = {b \in (0 .. v - 1) \ (0 .. v - W - 1) : b < n}
          BY <2>2, <4>4, <4>6, <5>1
        <5>. QED
          BY <5>1, <5>2, <5>3, <4>3, <4>4, BitsAssumption, SMT
      <4>. QED
        BY <4>5, <4>6
    <3>2. reply' = (0 .. n - 1 \subseteq bits[x])
      BY <2>3, <2>5, <3>1
    <3>3. 0 .. n - 1 \subseteq bits[x] <=> elements[x] = Abstract!Below(n)
      BY <1>5 DEF Abstract!Below
    <3>. QED
      BY <3>2, <3>3, <1>1, <1>4, <1>6 DEF Abstract!Ask
  <2>. QED
    BY <2>4, <2>5
<1>7. ASSUME \E i \in Nat : HasElement(x, i), call' = "[]" PROVE Abstract!Ask(x)
  <2>1. PICK i \in Nat : i < n /\ reply' = (i \in bits[x])
    BY <1>1, <1>7, BitStands DEF HasElement
  <2>2. i \in Abstract!Below(n) /\ reply' = (i \in elements[x])
    BY <2>1, <1>5, SMT DEF Abstract!Below
  <2>. QED
    BY <2>2, <1>1, <1>4, <1>7 DEF Abstract!Ask
<1>. QED
  BY <1>2, <1>3, <1>4, <1>6, <1>7 DEF Abstract!SetsNext

-----------------------------------------------------------------------------
LEMMA BitsStart == BitsInit => BitsInv /\ Abstract!SetsInit
<1>. SUFFICES ASSUME BitsInit PROVE BitsInv /\ Abstract!SetsInit
  OBVIOUS
<1>1. SetsTyped
  BY SMT DEF BitsInit, SetsTyped, Span
<1>2. Cells(0) = 0
  BY CellsBound
<1>3. \A x \in Sets : set_size[x] = 0 /\ max_set_size[x] = 0 /\ cells[x] = 0
  BY DEF BitsInit
<1>4. RoomForAll
  <2>1. live = {}
    BY DEF BitsInit
  <2>. QED
    BY <1>2, <1>3, <2>1, SMT DEF RoomForAll
<1>5. WithinStorage
  <2>1. \A x \in Sets : bits[x] = {}
    BY DEF BitsInit
  <2>2. \A x \in Sets : Cells(set_size[x]) <= cells[x]
    BY <1>2, <1>3, SMT
  <2>. QED
    BY <2>1, <2>2, <1>3 DEF WithinStorage
<1>6. elements = [x \in Sets |-> {}]
  <2>1. 0 .. 0 - 1 = {}
    BY SMT
  <2>2. \A x \in Sets : {i \in 0 .. set_size[x] - 1 : i \in bits[x]} = {}
    BY <2>1, <1>3
  <2>. QED
    BY <2>2 DEF elements
<1>. QED
  BY <1>1, <1>4, <1>5, <1>6 DEF BitsInit, BitsInv, Abstract!SetsInit

LEMMA BitsStep ==
    BitsInv /\ [BitsNext]_bitVars => BitsInv' /\ [Abstract!SetsNext]_Abstract!setVars
<1>. SUFFICES ASSUME BitsInv, [BitsNext]_bitVars
              PROVE  BitsInv' /\ [Abstract!SetsNext]_Abstract!setVars
  OBVIOUS
<1>1. CASE UNCHANGED bitVars
  <2>1. UNCHANGED <<live, bits, cells, set_size, max_set_size, call, reply>>
    BY <1>1 DEF bitVars
  <2>2. BitsInv'
    BY <2>1 DEF BitsInv, SetsTyped, RoomForAll, WithinStorage
  <2>3. UNCHANGED Abstract!setVars
    BY <2>1 DEF Abstract!setVars, elements
  <2>. QED
    BY <2>2, <2>3
<1>2. CASE BitsNext
  <2>1. PICK x \in Sets :
            \/ Destroy(x) /\ call' = "~BitSet"
            \/ EmptySet(x) /\ call' = "SetEmpty"
            \/ SetUniverse(x) /\ call' = "SetUniverse"
            \/ IsUniverse(x) /\ call' = "IsUniverse"
            \/ \E n \in 0 .. MaxSize :
                   \/ Uninitialized(x, n) /\ call' = "BitSet(size)"
                   \/ Initialized(x, n) /\ call' = "BitSet(size, init)"
                   \/ Resize(x, n) /\ call' = "Resize"
            \/ \E i \in 0 .. MaxSize - 1 :
                   \/ AddElement(x, i) /\ call' = "AddElement"
                   \/ RemoveElement(x, i) /\ call' = "RemoveElement"
                   \/ HasElement(x, i) /\ call' = "[]"
            \/ \E y \in Sets :
                   \/ Clone(x, y) /\ call' = "BitSet(rhs)"
                   \/ Assign(x, y) /\ call' = "="
                   \/ Union(x, y) /\ call' = "+="
                   \/ Intersection(x, y) /\ call' = "*="
                   \/ Difference(x, y) /\ call' = "-="
    BY <1>2 DEF BitsNext
  <2>2. CASE Destroy(x) /\ call' = "~BitSet"
    BY <2>2, DestroyStep
  <2>3. CASE \/ EmptySet(x) /\ call' = "SetEmpty"
             \/ SetUniverse(x) /\ call' = "SetUniverse"
    BY <2>3, WholeSetStep
  <2>4. CASE IsUniverse(x) /\ call' = "IsUniverse"
    BY <2>4, QuestionStep
  <2>5. ASSUME NEW n \in 0 .. MaxSize,
               \/ Uninitialized(x, n) /\ call' = "BitSet(size)"
               \/ Initialized(x, n) /\ call' = "BitSet(size, init)"
               \/ Resize(x, n) /\ call' = "Resize"
        PROVE  BitsInv' /\ Abstract!SetsNext
    BY <2>5, ConstructStep, NewSizeStep
  <2>6. ASSUME NEW i \in 0 .. MaxSize - 1,
               \/ AddElement(x, i) /\ call' = "AddElement"
               \/ RemoveElement(x, i) /\ call' = "RemoveElement"
               \/ HasElement(x, i) /\ call' = "[]"
        PROVE  BitsInv' /\ Abstract!SetsNext
    <3>1. i \in Nat
      BY BitsAssumption, SMT
    <3>. QED
      BY <3>1, <2>6, ElementStep, QuestionStep
  <2>7. ASSUME NEW y \in Sets,
               \/ Clone(x, y) /\ call' = "BitSet(rhs)"
               \/ Assign(x, y) /\ call' = "="
               \/ Union(x, y) /\ call' = "+="
               \/ Intersection(x, y) /\ call' = "*="
               \/ Difference(x, y) /\ call' = "-="
        PROVE  BitsInv' /\ Abstract!SetsNext
    BY <2>7, CloneStep, TwoSetsStep
  <2>. QED
    BY <2>1, <2>2, <2>3, <2>4, <2>5, <2>6, <2>7
<1>. QED
  BY <1>1, <1>2

(***************************************************************************)
(* Every bit that a set writes lies in the storage it has, and the storage *)
(* has room for its size (the constructors and Resize of BitSet).          *)
(***************************************************************************)
THEOREM SetsStayWithin == BitsSpec => []WithinStorage
<1>1. BitsInit => BitsInv
  BY BitsStart
<1>2. BitsInv /\ [BitsNext]_bitVars => BitsInv'
  BY BitsStep
<1>3. BitsInv => WithinStorage
  BY DEF BitsInv
<1>. QED
  BY <1>1, <1>2, <1>3, PTL DEF BitsSpec

(***************************************************************************)
(* The sets that definite assignment computes with are sets: whole-cell    *)
(* loops, masks, clones and resizes implement the operations of            *)
(* IntegerSets, step by step (the class BitSet).                           *)
(***************************************************************************)
THEOREM BitsImplementSets == BitsSpec => BitsAreSets
<1>1. BitsInit => BitsInv /\ Abstract!SetsInit
  BY BitsStart
<1>2. BitsInv /\ [BitsNext]_bitVars => BitsInv' /\ [Abstract!SetsNext]_Abstract!setVars
  BY BitsStep
<1>. QED
  BY <1>1, <1>2, PTL DEF BitsSpec, BitsAreSets, Abstract!SetsSpec
=============================================================================
