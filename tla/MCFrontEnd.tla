----------------------------- MODULE MCFrontEnd -----------------------------
(***************************************************************************)
(* Instances of the parts that the whole compiler rests on: the text of a  *)
(* file, its tokens, literals, and the tables and sets that everything is  *)
(* kept in.  They do not interact, so each behavior is one of one part,    *)
(* while the others stay in one of their initial states.                   *)
(***************************************************************************)
EXTENDS LookupTables, BitSets, SymbolTables, SymbolSets, Literals, InputText, Tokens

VARIABLE part

AtMost(n, S) == UNION {[1 .. k -> S] : k \in 0 .. n}

-----------------------------------------------------------------------------
(* Tables: four texts, two that share a slot in all sizes, and one that     *)
(* joins one of them only when the table has grown twice.                   *)

TextHash   == [x \in Texts |-> CASE x = "t1" -> 0 [] x = "t2" -> 1 [] x = "t3" -> 6 [] OTHER -> 3]
TablePrimes == <<1, 2, 3>>
NameIndex  == [x \in Names |-> IF x = "a" THEN 2 ELSE 4]
SlotPrimes == <<2, 3, 4>>

\* Two of the symbols have the same name, as overloads have.
SymbolNames == [a1 |-> "a", a2 |-> "a", b |-> "b", c |-> "c"]

-----------------------------------------------------------------------------
(* Texts of files: up to three pieces, among them escapes that give a      *)
(* backslash, both line ends and ^Z.                                       *)

EscapeOf(us, digits) == <<BACKSLASH>> \o [i \in 1 .. us |-> LETTER_U] \o <<48, 48>> \o digits
InputPieces == {<<BACKSLASH>>, <<LETTER_U>>, <<CR>>, <<LF>>, <<CTL_Z>>, <<48>>,
                EscapeOf(1, <<53, 99>>), EscapeOf(1, <<48, 100>>), EscapeOf(2, <<48, 65>>), EscapeOf(1, <<49, 97>>)}
InputTexts ==
    {FlattenSeq(p) : p \in AtMost(4, InputPieces)} \cup {<<65279>> \o FlattenSeq(p) : p \in AtMost(2, InputPieces)}

-----------------------------------------------------------------------------
(* Source files for the scanner: numbers, operators, comments, quotes and  *)
(* names, each in all arrangements of a few characters.  No underscore is  *)
(* at an end of digits, no b or x comes behind more than a 0, no comment   *)
(* between default and a colon, and no file ends with a deprecated tag.    *)

Figures == {"0", "1", "octal", "8"}
WellPlaced(t) ==
    /\ \A i \in DOMAIN t : t[i] = "_" =>
          /\ i \in 2 .. Len(t) - 1
          /\ t[i - 1] \in Figures /\ t[i + 1] \in Figures
    /\ ~\E i, j \in DOMAIN t : /\ i + 1 < j /\ t[i] = "0" /\ t[j] \in {"b", "x"}
                               /\ \A k \in i .. j - 1 : t[k] \in Figures \cup {"_"}
NumberTexts ==
    {t \in AtMost(3, {"0", "1", "8", "x", "b", "e", "p", "l", ".", "-"})
              \cup [1 .. 5 -> {"0", "x", ".", "p", "1"}] \cup AtMost(5, {"0", "1", "_", "f"}) : WellPlaced(t)}
OperatorTexts ==
    AtMost(4, {"<", ">", "=", "-", ":"}) \cup AtMost(3, {"+", "&", "|", "^", "!", "%", "*", "=", "~"})
        \cup AtMost(3, {"-", ".", "?"})
CommentOf(w) == <<"/", "*", "*">> \o w \o <<"*", "/">>
Tagged       == CommentOf(<<"@", "deprecated">>)
CommentTexts ==
    AtMost(5, {"/", "*", "a"}) \cup {<<"/", "*">> \o t : t \in AtMost(4, {"/", "*", "nl"})}
        \cup {CommentOf(w) \o <<"class">> : w \in AtMost(3, {"*", "/", "@", "deprecated", " ", "nl"})}
        \cup {Tagged \o c \o <<"class", "A">> :
                c \in {CommentOf(<<"a">>), CommentOf(<<>>), <<"/", "*", "a", "*", "/">>, <<"/", "/", "a", "nl">>,
                       <<" ">>, <<"nl">>}}
QuoteTexts ==
    {t \in AtMost(3, {"'", "\"", "\\", "b", "0", "octal", "nl"}) : WellPlaced(t)}
        \cup {<<"'", "\\">> \o t : t \in AtMost(4, {"0", "octal", "8", "'"})}
        \cup {<<"\"">> \o t \o <<"\"", "a">> : t \in AtMost(3, {"\\", "\"", "b", "A", "1"})}
NameTexts ==
    AtMost(4, {"class", "a", "$", " ", "bad"}) \cup AtMost(5, {"{", "}", "class"}) \cup AtMost(3, {"A", "a", "x", "1"})
LevelTexts ==
    AtMost(3, {"default", " ", ":", "nl", "a"}) \cup AtMost(2, {"assert", "enum", "package", "if", "interface", " "})
        \cup {<<"package", "nl">> \o t : t \in {<<"package">>, <<"{", "class", "}">>}}
FilePairs ==
    {<<s, t>> : s \in AtMost(2, {"$", "{", "bad"}) \cup {Tagged \o <<"A">>}, t \in AtMost(2, {"$", "}", "class"})}

JavaCompilations ==
    {[source |-> 5, files |-> <<t>>] : t \in NumberTexts \cup CommentTexts \cup QuoteTexts \cup NameTexts}
        \cup {[source |-> l, files |-> <<t>>] : l \in {3, 5}, t \in OperatorTexts}
        \cup {[source |-> l, files |-> <<t>>] : l \in {3, 5, 8}, t \in LevelTexts}
        \cup {[source |-> 5, files |-> p] : p \in FilePairs}
NameSynonyms == [w \in {<<"A">>, <<"a", "A">>} |-> "int"]

-----------------------------------------------------------------------------
(* Literals of 8 and 16 bits around their limits. *)

AnyTexts(S, n) == AtMost(n, S) \ {<<>>}
Together(t)    == \E i \in 2 .. Len(t) : t[i - 1] = Underscore /\ t[i] = Underscore
Numerals(type, radix, T) == {[type |-> type, radix |-> radix, text |-> t] : t \in T}
NumberLiterals ==
    Numerals("int", "dec", {t \in AnyTexts({1, 2, 7, 8, Underscore}, 4) : t[1] # Underscore})
        \cup Numerals("int", "hex", AnyTexts({0, 7, 15, Underscore}, 4))
        \cup Numerals("int", "bin", AnyTexts({0, 1}, 9) \cup AnyTexts({1, Underscore}, 4))
        \cup Numerals("int", "oct", {t \in AnyTexts({0, 1, 3, 4, Underscore}, 5) : ~Together(t)})
        \cup Numerals("long", "dec", [1 .. 5 -> {2, 3, 6, 7, 8}] \cup [1 .. 6 -> {2, 3, 8}] \cup AnyTexts({3, Underscore}, 4))
        \cup Numerals("long", "hex", AnyTexts({0, 8, 15}, 5))
        \cup Numerals("long", "oct", {t \in [1 .. 6 -> {0, 1, 7}] \cup AnyTexts({1, Underscore}, 8) : ~Together(t)})
        \cup Numerals("long", "bin", {[i \in 1 .. n |-> IF i = k THEN 0 ELSE 1] : n \in 1 .. 17, k \in 1 .. 17})
CharacterTexts ==
    {<<c>> : c \in {0, 97, 955, 65535}} \cup {<<Backslash, c>> : c \in DOMAIN Escapes}
        \cup {<<Backslash>> \o o : o \in AnyTexts({48, 51, 55}, 2)}
        \cup {t \in [1 .. 4 -> {Backslash, 51, 55}] : IsEscape(t)}
StringTexts ==
    {t \in AnyTexts({Backslash, 98, 48, 51, 55, 10, 233, 0, 2047, 2048}, 3) \cup [1 .. 5 -> {Backslash, 51, 55}] :
        \A i \in DOMAIN Split(t) : Split(t)[i] # <<Backslash>>}
JavaLiterals ==
    {l \in NumberLiterals : Last(l.text) # Underscore /\ (l.radix # "oct" => l.text[1] # Underscore)}
        \cup {[type |-> "char", text |-> t] : t \in CharacterTexts}
        \cup {[type |-> "string", text |-> t] : t \in StringTexts}

\* A minus in front of a number without underscores and not binary, that is
\* in range if it is octal, hexadecimal or long enough to be out of it.
PlainNegated(l) ==
    /\ l.type \in {"int", "long"}
    /\ \A i \in DOMAIN l.text : l.text[i] # Underscore
    /\ CASE l.radix = "dec" -> Len(l.text) <= IF l.type = "int" THEN 3 ELSE 5
         [] l.radix = "hex" -> Len(l.text) <= 2
         [] l.radix = "oct" -> \A k \in 1 .. Len(l.text) - 2 : l.text[k] = 0
         [] OTHER -> FALSE

-----------------------------------------------------------------------------
(* Literals in range of each notation, of which any may follow a minus, and *)
(* nothing else to do.                                                      *)

DocumentedLiterals ==
    Numerals("int", "dec", {<<1>>, <<1, Underscore, 0>>, <<1, 2>>})
        \cup Numerals("int", "bin", AnyTexts({0, 1}, 3)) \cup Numerals("int", "oct", {<<0, 7>>})
        \cup Numerals("int", "hex", {<<7, Underscore, 15>>, <<15>>})
AnyNegated(l)      == l.type = "int"
NoInput            == {<<>>}
EmptyFile          == [source |-> 5, files |-> << <<>> >>]
NoCompilations     == {EmptyFile}

-----------------------------------------------------------------------------
(* One part at a time. *)

IdleTables   == kind = "name" /\ TablesInit
IdleBits     == BitsInit
IdleSymbols  == holder = "block" /\ size = 1 /\ SymbolsInit
IdleSets     == SymbolSetsInit
IdleLiterals == literal = [type |-> "int", radix |-> "dec", text |-> <<1>>] /\ LiteralsInit
IdleInput    == source = <<>> /\ encoding = FALSE /\ InputInit
IdleTokens   == compilation = EmptyFile /\ TokensInit

FrontEndInit ==
    \/ /\ part = "tables"
       /\ IdleBits /\ IdleSymbols /\ IdleSets /\ IdleLiterals /\ IdleInput /\ IdleTokens /\ TablesInit
    \/ /\ part = "bits"
       /\ IdleTables /\ IdleSymbols /\ IdleSets /\ IdleLiterals /\ IdleInput /\ IdleTokens /\ BitsInit
    \/ /\ part = "symbols"
       /\ IdleTables /\ IdleBits /\ IdleSets /\ IdleLiterals /\ IdleInput /\ IdleTokens /\ SymbolsInit
    \/ /\ part = "sets"
       /\ IdleTables /\ IdleBits /\ IdleSymbols /\ IdleLiterals /\ IdleInput /\ IdleTokens /\ SymbolSetsInit
    \/ /\ part = "literals"
       /\ IdleTables /\ IdleBits /\ IdleSymbols /\ IdleSets /\ IdleInput /\ IdleTokens /\ LiteralsInit
    \/ /\ part = "input"
       /\ IdleTables /\ IdleBits /\ IdleSymbols /\ IdleSets /\ IdleLiterals /\ IdleTokens /\ InputInit
    \/ /\ part = "tokens"
       /\ IdleTables /\ IdleBits /\ IdleSymbols /\ IdleSets /\ IdleLiterals /\ IdleInput /\ TokensInit

FrontEndNext ==
    \/ /\ part = "tables" /\ TablesNext
       /\ UNCHANGED <<part, bitVars, symbolVars, setsVars, literalVars, inputVars, tokenVars>>
    \/ /\ part = "bits" /\ BitsNext
       /\ UNCHANGED <<part, tableVars, symbolVars, setsVars, literalVars, inputVars, tokenVars>>
    \/ /\ part = "symbols" /\ SymbolsNext
       /\ UNCHANGED <<part, tableVars, bitVars, setsVars, literalVars, inputVars, tokenVars>>
    \/ /\ part = "sets" /\ SymbolSetsNext
       /\ UNCHANGED <<part, tableVars, bitVars, symbolVars, literalVars, inputVars, tokenVars>>
    \/ /\ part = "literals" /\ LiteralsNext
       /\ UNCHANGED <<part, tableVars, bitVars, symbolVars, setsVars, inputVars, tokenVars>>
    \/ /\ part = "input" /\ InputNext
       /\ UNCHANGED <<part, tableVars, bitVars, symbolVars, setsVars, literalVars, tokenVars>>
    \/ /\ part = "tokens" /\ TokensNext
       /\ UNCHANGED <<part, tableVars, bitVars, symbolVars, setsVars, literalVars, inputVars>>

frontEndVars == <<part, tableVars, bitVars, symbolVars, setsVars, literalVars, inputVars, tokenVars>>
FrontEndSpec == FrontEndInit /\ [][FrontEndNext]_frontEndVars
=============================================================================
