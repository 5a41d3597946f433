------------------------------ MODULE Literals ------------------------------
(***************************************************************************)
(* What literals mean (lookup.cpp, and the Process...Literal functions of  *)
(* expr_primary.cpp and ProcessMINUS of expr_ops.cpp).  All uses of a      *)
(* literal share one LiteralSymbol, which caches the value once a use that *)
(* is not negated has computed it.  A negated literal is read as a whole,  *)
(* from the cached value if there is one and else from its text.           *)
(* A character of a number is its distance from '0', or its value if it is *)
(* a hexadecimal digit; int and long have IntBits and LongBits instead of  *)
(* 32 and 64 bits, so that the same limits are met with short texts.       *)
(***************************************************************************)
EXTENDS Integers, FiniteSets, SequencesExt

CONSTANTS
    IntBits, LongBits,
    LiteralTexts,   \* [type, radix, text] for numbers, [type, text] for others
    Negated(_)      \* whether one has a minus in front somewhere

ASSUME LiteralsAssumption == IntBits \in Nat \ {0} /\ LongBits \in Nat \ {0}

VARIABLES
    literal,        \* the LiteralSymbol: its text
    value,          \* its cached value: None, Bad or Value(v)
    use             \* the last use: [negated, value]

literalVars == <<literal, value, use>>

None     == [status |-> "none"]
Bad      == [status |-> "bad"]
Value(v) == [status |-> "good", is |-> v]

Underscore == 47    \* '_' - '0'
LetterB    == 50    \* 'b' - '0'

Bits       == IF literal.type = "long" THEN LongBits ELSE IntBits
Wrap(v)    == LET m == v % 2^Bits IN IF m >= 2^(Bits - 1) THEN m - 2^Bits ELSE m
\* Mutant: rounded up.
LimitAbove == (2^(Bits - 1) - 1) \div 10 + 1
Limit      == (2^(Bits - 1) - 1) \div 10

LiteralsInit ==
    /\ literal \in LiteralTexts
    /\ value = None
    /\ use = [negated |-> FALSE, value |-> None]

-----------------------------------------------------------------------------
(* Numbers. *)

\* Leading zeros and underscores are skipped, the last character never.
Significant(t) ==
    LET Starts == {p \in DOMAIN t : p = Len(t) \/ t[p] \notin {0, Underscore}}
    IN  IF Starts = {} THEN <<>> ELSE SubSeq(t, Min(Starts), Len(t))

DigitsOf(t) == SelectSeq(t, LAMBDA c : c # Underscore)
\* The value of digits of so many bits each.
Shifted(d, bits) == FoldLeft(LAMBDA v, c : (v * 2^bits + c) % 2^Bits, 0, d)

\* Digits are taken from the end while there are bits left.
Aligned(t, bits) ==
    LET d == DigitsOf(Significant(t))
    IN  IF Len(d) > Bits \div bits THEN Bad ELSE Value(Wrap(Shifted(d, bits)))

FindOrInsertHex(t)    == Aligned(t, 4)
FindOrInsertBinary(t) == Aligned(t, 1)

\* The bits that are left when no digit of three fits: for one more digit,
\* which has at most one underscore behind it.
FindOrInsertOctal(t) ==
    LET s    == Significant(t)
        most == Bits \div 3
        At   == {p \in DOMAIN s : s[p] # Underscore}
        \* What the loop does not reach.
        left == IF Cardinality(At) <= most THEN 0
                ELSE (CHOOSE p \in At : Cardinality({q \in At : q >= p}) = most) - 1
        top  == IF left > 0 /\ s[left] = Underscore THEN left - 1 ELSE left
        low  == Shifted(DigitsOf(SubSeq(s, left + 1, Len(s))), 3)
    IN  IF top = 0 THEN Value(Wrap(low))
        ELSE IF top = 1 /\ s[1] < 2^(Bits - 3 * most) THEN Value(Wrap(low + s[1] * 2^(3 * most)))
        ELSE Bad

\* The loop over decimal digits stops at the first that is too much.
Decimal(t, skipped, last) ==
    LET Step(r, c) ==
            IF r.stopped \/ c \in skipped THEN r
            ELSE IF r.v > Limit \/ (r.v = Limit /\ c > last)
                    \/ (last = 8 /\ literal.type = "long" /\ r.v < 0)
            THEN [r EXCEPT !.stopped = TRUE]
            ELSE [r EXCEPT !.v = Wrap(@ * 10 + c)]
    IN  FoldLeft(Step, [v |-> 0, stopped |-> FALSE], t)

FindOrInsertPositive ==
    LET t == literal.text
        r == Decimal(t, {Underscore}, 7)
    IN  CASE literal.radix = "hex" -> FindOrInsertHex(t)
          [] literal.radix = "bin" -> FindOrInsertBinary(t)
          [] literal.radix = "oct" -> FindOrInsertOctal(t)
          [] OTHER                 -> IF r.stopped THEN Bad ELSE Value(r.v)

\* From the text: a binary literal is read as an octal one, underscores are
\* not skipped, and a bad value is used as if it were one.
FindOrInsertNegative ==
    LET t   == literal.text
        r   == Decimal(t, {}, 8)
        pos == CASE value.status = "good" -> value
                 [] OTHER -> CASE literal.radix = "hex" -> FindOrInsertHex(t)
                               [] literal.radix = "oct" -> FindOrInsertOctal(t)
                               [] literal.radix = "bin" -> FindOrInsertOctal(<<LetterB>> \o t)
                               [] OTHER                 -> None
    IN  CASE pos = None -> {IF r.stopped THEN Bad ELSE Value(Wrap(-r.v))}
          [] pos = Bad  -> {Value(v) : v \in -(2^(Bits - 1)) .. 2^(Bits - 1) - 1}
          [] OTHER      -> {Value(Wrap(-pos.is))}

-----------------------------------------------------------------------------
(* Characters and strings, by their code points. *)

Backslash == 92
Escapes   == [c \in {98, 102, 110, 114, 116, 34, 39, 92} |->
                 CASE c = 98 -> 8 [] c = 102 -> 12 [] c = 110 -> 10 [] c = 114 -> 13 [] c = 116 -> 9
                   [] OTHER -> c]
OctalDigits == 48 .. 55
Newlines    == {10, 13}

FindOrInsertChar ==
    LET t == literal.text
        v == IF t[1] # Backslash THEN -1
             ELSE IF t[2] \in DOMAIN Escapes THEN Escapes[t[2]]
             ELSE IF t[2] \in OctalDigits
             THEN FoldLeft(LAMBDA r, c : r * 8 + c - 48, 0, Tail(t))
             ELSE -1
    IN  IF t = <<>> THEN Bad
        ELSE IF Len(t) = 1 THEN Value(t[1])
        ELSE IF v \in 0 .. 65535 THEN Value(v) ELSE Bad

\* One round of the loop at i: the character, -1 if there is none, and the
\* characters used up.
Unescaped(t, i) ==
    LET OctalAt(j) == j <= Len(t) /\ t[j] \in OctalDigits
        d(j)       == t[j] - 48
    IN  IF t[i] # Backslash
        THEN [ch |-> IF t[i] \in Newlines THEN -1 ELSE t[i], len |-> 1]
        ELSE IF t[i + 1] \in DOMAIN Escapes THEN [ch |-> Escapes[t[i + 1]], len |-> 2]
        ELSE IF ~OctalAt(i + 1) THEN [ch |-> -1, len |-> 2]
        ELSE IF ~OctalAt(i + 2) THEN [ch |-> d(i + 1), len |-> 2]
        ELSE IF d(i + 1) > 3 \/ ~OctalAt(i + 3) THEN [ch |-> d(i + 1) * 8 + d(i + 2), len |-> 3]
        ELSE [ch |-> d(i + 1) * 64 + d(i + 2) * 8 + d(i + 3), len |-> 4]

Utf8(ch) ==
    IF ch = 0 THEN <<192, 128>>
    ELSE IF ch <= 127 THEN <<ch>>
    ELSE IF ch <= 2047 THEN <<192 + ((ch \div 64) % 32), 128 + (ch % 64)>>
    ELSE <<224 + ((ch \div 4096) % 16), 128 + ((ch \div 64) % 64), 128 + (ch % 64)>>

FindOrInsertString ==
    LET t == literal.text
        \* The bytes from i on, with a -1 where the loop breaks off.
        From[i \in 1 .. Len(t) + 1] ==
            IF i > Len(t) THEN <<>>
            ELSE LET u == Unescaped(t, i)
                 IN  IF u.ch < 0 THEN <<-1>> ELSE Utf8(u.ch) \o From[i + u.len]
    IN  IF Contains(From[1], -1) THEN Bad ELSE Value(From[1])

-----------------------------------------------------------------------------
(* Uses of a literal. *)

\* The value is computed once.
Process(types, v) ==
    /\ literal.type \in types
    /\ value' = IF value = None THEN v ELSE value
    /\ use' = [negated |-> FALSE, value |-> value']
    /\ UNCHANGED literal

ProcessIntegerLiteral   == Process({"int"}, FindOrInsertPositive)
ProcessLongLiteral      == Process({"long"}, FindOrInsertPositive)
ProcessCharacterLiteral == Process({"char"}, FindOrInsertChar)
ProcessStringLiteral    == Process({"string"}, FindOrInsertString)

ProcessMINUS ==
    /\ Negated(literal)
    /\ \E v \in FindOrInsertNegative : use' = [negated |-> TRUE, value |-> v]
    /\ UNCHANGED <<literal, value>>

LiteralsNext ==
    \/ ProcessIntegerLiteral \/ ProcessLongLiteral \/ ProcessCharacterLiteral
    \/ ProcessStringLiteral \/ ProcessMINUS

LiteralsSpec == LiteralsInit /\ [][LiteralsNext]_literalVars

-----------------------------------------------------------------------------
(* The Java language (chapter 3.10). *)

Radix     == CASE literal.radix = "hex" -> 16 [] literal.radix = "oct" -> 8
               [] literal.radix = "bin" -> 2 [] OTHER -> 10
Magnitude == FoldLeft(LAMBDA v, c : v * Radix + c, 0, DigitsOf(literal.text))
Highest   == IF literal.radix # "dec" THEN 2^Bits - 1
             ELSE 2^(Bits - 1) - (IF use.negated THEN 0 ELSE 1)
NumberMeant ==
    IF Magnitude > Highest THEN Bad
    ELSE Value(Wrap(IF use.negated THEN -Wrap(Magnitude) ELSE Magnitude))

\* What the Java machine makes of bytes in a class file.
Decoded(b) ==
    LET From[i \in 1 .. Len(b) + 1] ==
            IF i > Len(b) THEN <<>>
            ELSE IF b[i] < 128 THEN <<b[i]>> \o From[i + 1]
            ELSE IF b[i] < 224 THEN <<(b[i] - 192) * 64 + b[i + 1] - 128>> \o From[i + 2]
            ELSE <<(b[i] - 224) * 4096 + (b[i + 1] - 128) * 64 + b[i + 2] - 128>> \o From[i + 3]
    IN  From[1]

\* The characters of a string, by a split of its text into escapes as long as
\* they can be.
Octals(s) == \A j \in 2 .. Len(s) : s[j] \in OctalDigits
IsEscape(s) ==
    /\ s[1] = Backslash
    /\ \/ Len(s) = 2 /\ (s[2] \in DOMAIN Escapes \/ Octals(s))
       \/ Len(s) = 3 /\ Octals(s)
       \/ Len(s) = 4 /\ Octals(s) /\ s[2] <= 51
Split(t) ==
    LET From[i \in 1 .. Len(t) + 1] ==
            IF i > Len(t) THEN <<>>
            ELSE LET Lens == {n \in 2 .. 4 : i + n - 1 <= Len(t) /\ IsEscape(SubSeq(t, i, i + n - 1))}
                     n    == IF Lens = {} THEN 1 ELSE Max(Lens)
                 IN  <<SubSeq(t, i, i + n - 1)>> \o From[i + n]
    IN  From[1]
CharacterMeant(s) ==
    IF Len(s) = 1 THEN s[1]
    ELSE IF s[2] \in DOMAIN Escapes THEN Escapes[s[2]]
    ELSE FoldLeft(LAMBDA v, c : v * 8 + c - 48, 0, Tail(s))

(***************************************************************************)
(* Whatever uses came before, a literal has the value that the language    *)
(* gives its text, and none if that is out of range (FindOrInsertInt,      *)
(* FindOrInsertNegativeInt, their long versions, FindOrInsertChar and      *)
(* FindOrInsertString).                                                    *)
(***************************************************************************)
LiteralsMeanJava ==
    use.value # None =>
        CASE literal.type \in {"int", "long"} -> use.value = NumberMeant
          [] literal.type = "char" -> use.value = Value(CharacterMeant(literal.text))
          [] OTHER -> IF \E i \in DOMAIN literal.text : literal.text[i] \in Newlines
                      THEN use.value = Bad
                      ELSE /\ use.value # Bad
                           /\ Decoded(use.value.is)
                                = [i \in DOMAIN Split(literal.text) |->
                                      CharacterMeant(Split(literal.text)[i])]
=============================================================================
