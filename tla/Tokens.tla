------------------------------- MODULE Tokens -------------------------------
(***************************************************************************)
(* The scanner (parser/scanner.cpp): one Scanner makes the tokens of every *)
(* source file, one after the other.  A character is a string: itself, or  *)
(* "nl", "cr" (the end of the buffer), "octal" (4 to 7), "bad" (one that   *)
(* starts no token), "A" (a letter that starts no keyword), or a word of   *)
(* letters (a keyword, "deprecated").  The digits are 0, 1, "octal" and 8, *)
(* the hexadecimal letters b, d, e and f.  The kind of an operator, and    *)
(* the symbol of a name or a literal, are given by the text of a token.    *)
(***************************************************************************)
EXTENDS Integers, SequencesExt

CONSTANTS
    Compilations,   \* [source, files]: the -source level and the texts
    Synonyms        \* keyword_map: names and the keywords they stand for

VARIABLES
    compilation,
    file,           \* the file that is scanned
    cursor,
    tokens,         \* token_stream
    braces,         \* brace_stack
    deprecated,     \* what the next token inherits
    dollar_warning_given,
    messages,       \* bad_tokens
    lines,          \* line_location
    type_index,     \* the types at the top level
    package,
    diamonds,       \* diamond_tokens
    defaults        \* default_method_tokens

tokenVars == <<compilation, file, cursor, tokens, braces, deprecated, dollar_warning_given,
               messages, lines, type_index, package, diamonds, defaults>>
found     == <<type_index, package, diamonds, defaults>>

Text    == <<"nl">> \o compilation.files[file] \o <<"cr">>
Level   == compilation.source
Char(i) == IF i <= Len(Text) THEN Text[i] ELSE "null"

Newline  == {"nl", "cr"}
Space    == {" "} \cup Newline
Octal    == {"0", "1", "octal"}
Decimals == Octal \cup {"8"}
Hex      == Decimals \cup {"b", "d", "e", "f"}
Sign     == {"+", "-"}
ShortKeywords == {"if", "enum", "class"}
LongKeywords  == {"assert", "default", "package", "interface"}
Keywords      == ShortKeywords \cup LongKeywords
KeywordStart  == Keywords \cup {"deprecated", "a", "b", "d", "e", "f", "l", "p"}
NameStart     == {"$", "_", "A", "x"}
Alnum         == KeywordStart \cup NameStart \cup Decimals

\* The first place from i on with a character that is not one of S.
Skip(i, S) == CHOOSE j \in i .. Len(Text) + 1 :
                 /\ Char(j) \notin S
                 /\ \A k \in i .. j - 1 : Char(k) \in S

-----------------------------------------------------------------------------
(* A token under construction stands at the end of the stream.  While it   *)
(* is white (kind 0), the next one takes its place.                        *)

Reused == Len(tokens) > 1 /\ Last(tokens).kind = "white"
Others == IF Reused THEN Front(tokens) ELSE tokens
Here   == Len(Others) + 1

Token(kind, to) == [kind |-> kind, from |-> cursor, to |-> to, deprecated |-> deprecated, right |-> 0]

Emit(kind, to) ==
    /\ tokens' = Append(Others, Token(kind, to))
    /\ cursor' = to + 1
    /\ deprecated' = FALSE

\* What carries is the deprecation of the token that comes next.
EmitWhite(to, carries) ==
    /\ tokens' = Append(Others, Token("white", to))
    /\ cursor' = to + 1
    /\ deprecated' = carries

Report(kinds) == messages' = messages \o kinds
ErrorIf(bad)  == Report(IF bad THEN <<"error">> ELSE <<>>)

\* The starts of lines behind newlines from the cursor on.
NewLines(to) ==
    LET Starts == {i \in cursor .. to : Char(i) \in Newline}
    IN  lines' = lines \o [k \in 1 .. Cardinality(Starts) |->
                    (CHOOSE i \in Starts : Cardinality({j \in Starts : j <= i}) = k) + 1]

Constant == UNCHANGED <<compilation, file, braces, dollar_warning_given, found>>

Initialize(f) ==
    /\ file' = f
    /\ cursor' = 1
    /\ tokens' = <<[kind |-> "white", from |-> 1, to |-> 0, deprecated |-> FALSE, right |-> 0]>>
    /\ lines' = <<1>>
    /\ messages' = <<>> /\ type_index' = <<>> /\ package' = 0
    /\ diamonds' = {} /\ defaults' = {}

TokensInit ==
    /\ compilation \in Compilations
    /\ file = 1
    /\ cursor = 1
    /\ tokens = <<[kind |-> "white", from |-> 1, to |-> 0, deprecated |-> FALSE, right |-> 0]>>
    /\ lines = <<1>>
    /\ messages = <<>> /\ type_index = <<>> /\ package = 0
    /\ diamonds = {} /\ defaults = {}
    /\ braces = <<>>
    /\ deprecated = FALSE
    /\ dollar_warning_given = FALSE

-----------------------------------------------------------------------------
(* White space and comments. *)

SkipSpaces ==
    LET to == Skip(cursor, Space) - 1
    IN  /\ Char(cursor) \in Space
        /\ EmitWhite(to, deprecated)
        /\ NewLines(to)
        /\ Constant /\ UNCHANGED messages

ScanSlashComment ==
    /\ Char(cursor) = "/" /\ Char(cursor + 1) = "/"
    /\ EmitWhite((CHOOSE i \in cursor .. Len(Text) : Char(i) \in Newline
                     /\ \A k \in cursor .. i - 1 : Char(k) \notin Newline) - 1, deprecated)
    /\ Constant /\ UNCHANGED <<lines, messages>>

\* A comment that starts like a document comment: one character.
DocumentStep(r, i) ==
    IF r.end # 0 THEN r
    ELSE CASE Char(i) = "cr" -> [r EXCEPT !.end = i - 1, !.open = TRUE]
           [] Char(i) = "nl" -> [r EXCEPT !.state = "HEADER"]
           [] Char(i) = " "  -> [r EXCEPT !.state = IF @ = "REMAINDER" THEN @ ELSE "HEADER"]
           [] Char(i) = "*"  -> [r EXCEPT !.state = IF @ # "REMAINDER" \/ Char(i + 1) = "/" THEN "STAR" ELSE @]
           [] Char(i) = "/" /\ r.state = "STAR" -> [r EXCEPT !.end = i]
           [] OTHER -> [r EXCEPT !.state = "REMAINDER",
                                 !.deprecated = \/ @
                                                \/ /\ r.state # "REMAINDER"
                                                   /\ Char(i) = "@" /\ Char(i + 1) = "deprecated"
                                                   /\ Char(i + 2) \in Space \cup {"*"}]
DocumentComment ==
    FoldLeft(DocumentStep, [state |-> "HEADER", end |-> 0, open |-> FALSE, deprecated |-> FALSE],
             [k \in 1 .. Len(Text) - cursor - 1 |-> cursor + 1 + k])

\* Mutant: the star of the beginning is taken for one of the end.
NormalCommentShort ==
    LET Closing == {i \in cursor + 2 .. Len(Text) : Char(i - 1) = "*" /\ Char(i) = "/"}
    IN  [end |-> IF Closing = {} THEN Len(Text) - 1 ELSE Min(Closing),
         open |-> Closing = {}, deprecated |-> deprecated]

NormalComment ==
    LET Closing == {i \in cursor + 3 .. Len(Text) : Char(i - 1) = "*" /\ Char(i) = "/"}
    IN  [end |-> IF Closing = {} THEN Len(Text) - 1 ELSE Min(Closing),
         open |-> Closing = {}, deprecated |-> deprecated]

ScanStarComment ==
    LET r == IF Char(cursor + 2) = "*" THEN DocumentComment ELSE NormalComment
    IN  /\ Char(cursor) = "/" /\ Char(cursor + 1) = "*"
        /\ EmitWhite(r.end, r.deprecated)
        /\ NewLines(r.end)
        /\ ErrorIf(r.open)
        /\ Constant

\* All characters up to one that can start a token.
ClassifyBadToken ==
    LET to == Skip(cursor, {"bad", "\\"}) - 1
    IN  /\ Char(cursor) \in {"bad", "\\"}
        /\ EmitWhite(to, FALSE)
        /\ Report(<<"error">>)
        /\ Constant /\ UNCHANGED lines

-----------------------------------------------------------------------------
(* Names and keywords. *)

\* A word of letters is a keyword if nothing else belongs to the name.
ScanKeyword(word) == IF Len(word) = 1 /\ word[1] \in Keywords THEN word[1] ELSE "name"
Synonym(word)     == IF word \in DOMAIN Synonyms THEN Synonyms[word] ELSE "name"

Dollar(word) == Contains(word, "$") /\ ~dollar_warning_given

ClassifyIdOrKeyword ==
    LET to      == Skip(cursor, Alnum) - 1
        word    == SubSeq(Text, cursor, to)
        scanned == ScanKeyword(word)
        warned  == (scanned = "assert" /\ Level < 4) \/ (scanned = "enum" /\ Level < 5)
        method  == scanned = "default" /\ Level >= 8 /\ Char(Skip(to + 1, Space)) # ":"
        kind    == IF warned THEN "name" ELSE IF method THEN "abstract" ELSE scanned
    IN  /\ Char(cursor) \in KeywordStart
        /\ Emit(IF kind = "name" THEN Synonym(word) ELSE kind, to)
        /\ Report((IF warned THEN <<"warning">> ELSE <<>>) \o (IF Dollar(word) THEN <<"dollar">> ELSE <<>>))
        /\ dollar_warning_given' = (dollar_warning_given \/ Dollar(word))
        /\ defaults' = IF method THEN defaults \cup {Here} ELSE defaults
        /\ type_index' = IF kind \in {"class", "enum", "interface"} /\ braces = <<>>
                    THEN Append(type_index, Here) ELSE type_index
        /\ package' = IF kind = "package" /\ package = 0 THEN Here ELSE package
        /\ UNCHANGED <<compilation, file, braces, lines, diamonds>>

ClassifyId ==
    LET to   == Skip(cursor, Alnum) - 1
        word == SubSeq(Text, cursor, to)
    IN  /\ Char(cursor) \in NameStart
        /\ Emit(Synonym(word), to)
        /\ Report(IF Dollar(word) THEN <<"dollar">> ELSE <<>>)
        /\ dollar_warning_given' = (dollar_warning_given \/ Dollar(word))
        /\ UNCHANGED <<compilation, file, braces, lines, found>>

-----------------------------------------------------------------------------
(* Numbers.  Each part has the place behind it, the kind so far and        *)
(* whether something was reported.                                         *)

Under(S) == S \cup {"_"}
Part(end, kind, bad) == [end |-> end, kind |-> kind, bad |-> bad]

HexPart(x) ==
    LET int  == Skip(x + 1, Under(Hex))
        frac == Skip(int + 1, Under(Hex))
    IN  IF Char(int) = "."
        THEN Part(frac, "double", Char(frac) # "p" \/ frac = cursor + 3)
        ELSE Part(int, "int", int = cursor + 2)

\* Octal digits may yet be the start of a floating point number.
Mantissa ==
    LET p == Skip(cursor, Under(Decimals))
    IN  IF Char(p) = "." THEN Part(Skip(p + 1, Under(Decimals)), "double", FALSE)
        ELSE IF Char(cursor) # "0" THEN Part(p, "int", FALSE)
        ELSE IF Char(p) = "b"
        THEN LET q == Skip(p + 1, {"0", "1", "_"}) IN Part(q, "int", q = cursor + 2)
        ELSE IF Char(p) = "x" THEN HexPart(p)
        ELSE Part(p, "int", Char(p) \notin {"e", "d", "f"} /\ Skip(cursor + 1, Under(Octal)) # p)

Exponent(m) ==
    LET signed == IF Char(m.end + 1) \in Sign THEN m.end + 2 ELSE m.end + 1
    IN  IF Char(m.end) \notin {"e", "p"} THEN m
        ELSE Part(IF Char(signed) \in Decimals THEN Skip(signed, Under(Decimals)) ELSE signed, "double",
                  m.bad \/ (Char(m.end) = "p" /\ Char(cursor + 1) # "x") \/ Char(signed) \notin Decimals)

Suffixed(m) ==
    CASE Char(m.end) = "f" -> Part(m.end, "float", m.bad)
      [] Char(m.end) = "d" -> Part(m.end, "double", m.bad)
      [] Char(m.end) = "l" /\ m.kind = "int" -> Part(m.end, "long", m.bad)
      [] OTHER -> Part(m.end - 1, m.kind, m.bad)

ClassifyNumericLiteral ==
    LET n == Suffixed(Exponent(Mantissa))
    IN  /\ Char(cursor) \in Decimals \/ (Char(cursor) = "." /\ Char(cursor + 1) \in Decimals)
        /\ Emit(n.kind, n.end)
        /\ ErrorIf(n.bad)
        /\ Constant /\ UNCHANGED lines

-----------------------------------------------------------------------------
(* Characters and strings. *)

Simple == {"b", "f", "\"", "\\"}

\* The last place of the character behind the first quote.
CharBody ==
    LET p   == cursor + 1
        q   == p + 1
        oct == IF Char(q) \in {"0", "1"} /\ Char(q + 1) \in Octal THEN q + 1 ELSE q
        Body(end, bad) == [end |-> end, bad |-> bad]
    IN  CASE Char(p) = "'" -> Body(IF Char(q) = "'" THEN p ELSE cursor, TRUE)
          [] Char(p) \in Newline -> Body(cursor, FALSE)
          [] Char(p) # "\\" -> Body(p, FALSE)
          [] Char(q) \in Simple -> Body(q, FALSE)
          [] Char(q) = "'" -> IF Char(q + 1) = "'" THEN Body(q, FALSE) ELSE Body(p, TRUE)
          [] Char(q) \in Octal -> Body(IF (Char(q) = "octal" \/ oct > q) /\ Char(oct + 1) \in Octal
                                       THEN oct + 1 ELSE oct, FALSE)
          [] Char(q) \in Newline -> Body(p, TRUE)
          [] OTHER -> Body(q, TRUE)

\* More letters and digits before the last quote are taken along.
ClassifyCharLiteral ==
    LET b    == CharBody
        far  == Skip(b.end + 1, Alnum)
        open == Char(b.end + 1) # "'"
        to   == IF ~open THEN b.end + 1 ELSE IF Char(far) \in Newline THEN far - 1 ELSE far
    IN  /\ Char(cursor) = "'"
        /\ Emit("char", to)
        /\ ErrorIf(b.bad \/ open)
        /\ Constant /\ UNCHANGED lines

\* An escaped character does not end a string, unless it is a bad one.
StringEnd ==
    LET From[i \in cursor + 1 .. Len(Text)] ==
            IF Char(i) = "\"" THEN [end |-> i, bad |-> FALSE]
            ELSE IF Char(i) \in Newline THEN [end |-> i - 1, bad |-> TRUE]
            ELSE IF Char(i) # "\\" THEN From[i + 1]
            ELSE IF Char(i + 1) \in Simple \cup Octal \cup {"'"} THEN From[i + 2]
            ELSE [From[i + 1] EXCEPT !.bad = TRUE]
    IN  From[cursor + 1]

ClassifyStringLiteral ==
    /\ Char(cursor) = "\""
    /\ Emit("string", StringEnd.end)
    /\ ErrorIf(StringEnd.bad)
    /\ Constant /\ UNCHANGED lines

-----------------------------------------------------------------------------
(* Operators and separators. *)

\* The longest of the operators, found one character at a time.
Longest(ops) ==
    LET Fits(n) == SubSeq(Text, cursor, cursor + n - 1) \in ops
    IN  CHOOSE n \in 1 .. 4 : /\ \A k \in 1 .. n : Fits(k)
                              /\ ~Fits(n + 1)

SumOperators ==
    {<<"+">>, <<"+", "+">>, <<"+", "=">>, <<"-">>, <<"-", "-">>, <<"-", "=">>, <<":">>}
        \cup (IF Level >= 5 THEN {<<"-", ">">>, <<":", ":">>} ELSE {})
ProductOperators  == {<<"*">>, <<"*", "=">>, <<"/">>, <<"/", "=">>}
GreaterOperators  == {<<">">>, <<">", "=">>, <<">", ">">>, <<">", ">", "=">>,
                      <<">", ">", ">">>, <<">", ">", ">", "=">>}
LogicalOperators  == {<<"&">>, <<"&", "&">>, <<"&", "=">>, <<"|">>, <<"|", "|">>, <<"|", "=">>,
                      <<"^">>, <<"^", "=">>, <<"!">>, <<"!", "=">>}
OtherOperators    == {<<"=">>, <<"=", "=">>, <<"%">>, <<"%", "=">>}
Separators        == {<<c>> : c \in {";", ",", "(", ")", "[", "]", "~", "@", "?"}}
Operators == SumOperators \cup ProductOperators \cup GreaterOperators \cup LogicalOperators
                \cup OtherOperators \cup Separators

ClassifyOperator ==
    /\ <<Char(cursor)>> \in Operators
    /\ ~(Char(cursor) = "/" /\ Char(cursor + 1) \in {"/", "*"})
    /\ Emit("operator", cursor + Longest(Operators) - 1)
    /\ Constant /\ UNCHANGED <<lines, messages>>

LessOperators == {<<"<">>, <<"<", "=">>, <<"<", "<">>, <<"<", "<", "=">>}

\* A ? of its own goes between < and >.
ClassifyLess ==
    LET diamond == Char(cursor + 1) = ">" /\ Level >= 5
        less    == Token("operator", cursor)
    IN  /\ Char(cursor) = "<"
        /\ IF diamond
           THEN /\ tokens' = Others \o <<less, [less EXCEPT !.deprecated = FALSE]>>
                /\ diamonds' = diamonds \cup {Here + 1}
                /\ cursor' = cursor + 1
                /\ deprecated' = FALSE
           ELSE /\ Emit("operator", cursor + Longest(LessOperators) - 1)
                /\ UNCHANGED diamonds
        /\ UNCHANGED <<compilation, file, braces, dollar_warning_given, lines, messages,
                       type_index, package, defaults>>

ClassifyPeriod ==
    /\ Char(cursor) = "." /\ Char(cursor + 1) \notin Decimals
    /\ Emit("operator", IF Char(cursor + 1) = "." /\ Char(cursor + 2) = "." THEN cursor + 2 ELSE cursor)
    /\ Constant /\ UNCHANGED <<lines, messages>>

ClassifyLbrace ==
    /\ Char(cursor) = "{"
    /\ Emit("operator", cursor)
    /\ braces' = Append(braces, Here)
    /\ UNCHANGED <<compilation, file, dollar_warning_given, messages, lines, found>>

ClassifyRbrace ==
    /\ Char(cursor) = "}"
    /\ cursor' = cursor + 1
    /\ deprecated' = FALSE
    /\ tokens' = LET all == Append(Others, Token("operator", cursor))
                 IN  IF braces = <<>> THEN all ELSE [all EXCEPT ![Last(braces)].right = Here]
    /\ braces' = IF braces = <<>> THEN braces ELSE Front(braces)
    /\ UNCHANGED <<compilation, file, dollar_warning_given, messages, lines, found>>

-----------------------------------------------------------------------------
(* All files. *)

Scanned == Last(tokens).kind = "EOF"

EndOfFile ==
    /\ cursor > Len(Text) /\ ~Scanned
    /\ lines' = Append(lines, Len(Text) + 1)
    /\ tokens' = [i \in DOMAIN tokens |->
                    IF i = Len(tokens) THEN [tokens[i] EXCEPT !.kind = "EOF"]
                    ELSE IF Contains(braces, i) THEN [tokens[i] EXCEPT !.right = Len(tokens)]
                    ELSE tokens[i]]
    /\ braces' = <<>>
    /\ UNCHANGED <<compilation, file, cursor, deprecated, dollar_warning_given, messages, found>>

\* The next file: deprecated and dollar_warning_given stay.
ScanNext ==
    /\ Scanned
    /\ file < Len(compilation.files)
    /\ Initialize(file + 1)
    /\ UNCHANGED <<compilation, braces, deprecated, dollar_warning_given>>

TokensNext ==
    \/ SkipSpaces \/ ScanSlashComment \/ ScanStarComment \/ ClassifyBadToken
    \/ ClassifyIdOrKeyword \/ ClassifyId \/ ClassifyNumericLiteral
    \/ ClassifyCharLiteral \/ ClassifyStringLiteral
    \/ ClassifyOperator \/ ClassifyLess \/ ClassifyPeriod \/ ClassifyLbrace \/ ClassifyRbrace
    \/ EndOfFile \/ ScanNext

TokensSpec == TokensInit /\ [][TokensNext]_tokenVars

\* The line of a place in the text (stream.cpp), by bisection.
FindLine(place) ==
    LET Search[lo \in 1 .. Len(lines), hi \in 0 .. Len(lines)] ==
            LET mid   == (lo + hi - 2) \div 2 + 1
                above == lines[mid] < place
                low   == IF above THEN mid + 1 ELSE lo
                high  == IF above THEN hi ELSE mid - 1
            IN  IF lines[mid] = place THEN mid
                ELSE IF low < high THEN Search[low, high]
                ELSE IF lines[low] > place THEN low - 1 ELSE low
    IN  Search[1, Len(lines)]

-----------------------------------------------------------------------------
(* The Java language (chapter 3): what a sequence of characters is. *)

Digits(s, S) == s # <<>> /\ Range(s) \subseteq Under(S) /\ s[1] \in S /\ Last(s) \in S

IsInteger(s) ==
    LET rest == SubSeq(s, 3, Len(s))
    IN  \/ s = <<"0">>
        \/ s[1] # "0" /\ Digits(s, Decimals)
        \/ s[1] = "0" /\ Len(s) > 1 /\ Range(s) \subseteq Under(Octal) /\ Last(s) \in Octal
        \/ Len(s) > 2 /\ s[1] = "0" /\ s[2] = "x" /\ Digits(rest, Hex)
        \/ Len(s) > 2 /\ s[1] = "0" /\ s[2] = "b" /\ Digits(rest, {"0", "1"})

\* Digits with at most one period.
IsMantissa(s, S) ==
    \/ Digits(s, S)
    \/ \E i \in DOMAIN s :
          LET whole == SubSeq(s, 1, i - 1)
              part  == SubSeq(s, i + 1, Len(s))
          IN  /\ s[i] = "."
              /\ whole = <<>> \/ Digits(whole, S)
              /\ part = <<>> \/ Digits(part, S)
              /\ Len(s) > 1
IsExponent(s, letter) ==
    /\ Len(s) > 1 /\ s[1] = letter
    /\ Digits(SubSeq(s, IF s[2] \in Sign THEN 3 ELSE 2, Len(s)), Decimals)

\* A mantissa up to i, an exponent up to j, and a suffix.
IsFloating(s, suffix) ==
    \E i, j \in 1 .. Len(s) :
        LET exponent == SubSeq(s, i + 1, j)
            rest     == SubSeq(s, j + 1, Len(s))
        IN  /\ i <= j
            /\ rest = suffix
            /\ \/ /\ IsMantissa(SubSeq(s, 1, i), Decimals)
                  /\ exponent = <<>> \/ IsExponent(exponent, "e")
                  /\ exponent # <<>> \/ rest # <<>> \/ Contains(s, ".")
               \/ /\ i > 2 /\ s[1] = "0" /\ s[2] = "x"
                  /\ IsMantissa(SubSeq(s, 3, i), Hex)
                  /\ IsExponent(exponent, "p")

IsEscaped(s) ==
    /\ Len(s) > 1 /\ s[1] = "\\"
    /\ \/ Len(s) = 2 /\ s[2] \in Simple \cup Octal \cup {"'"}
       \/ Len(s) = 3 /\ Range(Tail(s)) \subseteq Octal
       \/ Len(s) = 4 /\ Range(Tail(s)) \subseteq Octal /\ s[2] # "octal"

Inner(s) == SubSeq(s, 2, Len(s) - 1)
IsCharacter(s) ==
    /\ Len(s) > 2 /\ s[1] = "'" /\ Last(s) = "'"
    /\ \/ IsEscaped(Inner(s))
       \/ Len(s) = 3 /\ s[2] \notin Newline \cup {"'", "\\"}
IsString(s) ==
    /\ Len(s) > 1 /\ s[1] = "\"" /\ Last(s) = "\""
    /\ LET body == Inner(s)
           Whole[i \in 1 .. Len(body) + 2] ==
               \/ i = Len(body) + 1
               \/ /\ i <= Len(body)
                  /\ IF body[i] = "\\"
                     THEN i < Len(body) /\ IsEscaped(SubSeq(body, i, i + 1)) /\ Whole[i + 2]
                     ELSE body[i] \notin Newline \cup {"\""} /\ Whole[i + 1]
       IN  Whole[1]

IsComment(s) ==
    /\ Len(s) > 1 /\ s[1] = "/"
    /\ \/ s[2] = "/" /\ Range(s) \cap Newline = {}
       \/ /\ s[2] = "*"
          /\ {i \in 4 .. Len(s) : s[i - 1] = "*" /\ s[i] = "/"} = {Len(s)}

JavaOperators ==
    {<<c>> : c \in {"(", ")", "{", "}", "[", "]", ";", ",", ".", "@", "=", ">", "<", "!", "~",
                    "?", ":", "+", "-", "*", "/", "&", "|", "^", "%"}}
    \cup {<<c, "=">> : c \in {"=", "<", ">", "!", "+", "-", "*", "/", "&", "|", "^", "%"}}
    \cup {<<c, c>> : c \in {"&", "|", "+", "-", "<", ">"}}
    \cup {<<"<", "<", "=">>, <<">", ">", "=">>, <<">", ">", ">">>, <<">", ">", ">", "=">>, <<".", ".", ".">>}
    \cup (IF Level >= 5 THEN {<<"-", ">">>, <<":", ":">>} ELSE {})

JavaKeyword(c) ==
    c \in Keywords /\ (c = "assert" => Level >= 4) /\ (c = "enum" => Level >= 5)

PieceKind(s) ==
    LET c == s[1]
    IN  CASE c \in Space -> IF Range(s) \subseteq Space THEN "white" ELSE "none"
          [] c \in Alnum \ Decimals ->
                IF ~(Range(s) \subseteq Alnum) THEN "none"
                ELSE IF Len(s) = 1 /\ JavaKeyword(c) THEN c
                ELSE Synonym(s)
          [] c = "'"  -> IF IsCharacter(s) THEN "char" ELSE "none"
          [] c = "\"" -> IF IsString(s) THEN "string" ELSE "none"
          [] c \in Decimals \cup {"."} /\ s # <<".">> /\ s \notin JavaOperators ->
                IF IsInteger(s) THEN "int"
                ELSE IF Last(s) = "l" /\ Len(s) > 1 /\ IsInteger(Front(s)) THEN "long"
                ELSE IF IsFloating(s, <<"f">>) THEN "float"
                ELSE IF IsFloating(s, <<>>) \/ IsFloating(s, <<"d">>) THEN "double" ELSE "none"
          [] OTHER -> IF IsComment(s) THEN "white" ELSE IF s \in JavaOperators THEN "operator" ELSE "none"

\* The longest piece at every place, or a character that fits nothing.
Pieces ==
    LET From[i \in 1 .. Len(Text) + 1] ==
            LET Ends == {n \in i .. Len(Text) : PieceKind(SubSeq(Text, i, n)) # "none"}
                to   == IF Ends = {} THEN i ELSE Max(Ends)
            IN  IF i > Len(Text) THEN <<>>
                ELSE <<[kind |-> IF Ends = {} THEN "none" ELSE PieceKind(SubSeq(Text, i, to)),
                        from |-> i, to |-> to]>> \o From[to + 1]
    IN  From[1]

Numbers == {"int", "long", "float", "double"}
\* A number with a letter, a digit or a period right behind it is in no
\* program, although the language makes two tokens of it.
Joined(p) ==
    \E k \in 1 .. Len(p) - 1 :
        p[k].kind \in Numbers /\ Char(p[k].to + 1) \in Alnum \cup {"."}
\* A comment must end.
Open(p) == \E k \in DOMAIN p : p[k].from = p[k].to /\ Char(p[k].from) = "/" /\ Char(p[k].to + 1) = "*"
Legal(p) == ~Open(p) /\ \A k \in DOMAIN p : p[k].kind # "none"

\* Whether piece k is a document comment with the tag at the start of a line.
IsDocument(p, k) ==
    LET s == SubSeq(Text, p[k].from, p[k].to)
    IN  Len(s) > 4 /\ IsComment(s) /\ s[2] = "*" /\ s[3] = "*"
HasTag(p, k) ==
    \E i \in p[k].from + 3 .. p[k].to - 2 :
        /\ Char(i) = "@" /\ Char(i + 1) = "deprecated" /\ Char(i + 2) \in Space \cup {"*"}
        /\ \E j \in p[k].from + 2 .. i - 1 :
              /\ j = p[k].from + 2 \/ Char(j) = "nl"
              /\ \A m \in j + 1 .. i - 1 : Char(m) \in {" ", "*"}
IsDeprecated(p, k) ==
    \E d \in 1 .. k - 1 :
        /\ IsDocument(p, d) /\ HasTag(p, d)
        /\ \A m \in d + 1 .. k - 1 : p[m].kind = "white" /\ ~IsDocument(p, m)

\* A default that no colon follows is a modifier.
JavaKind(p, k) ==
    LET After == {m \in k + 1 .. Len(p) : p[m].kind # "white"}
    IN  IF p[k].kind = "default" /\ Level >= 8 /\ (After = {} \/ Char(p[Min(After)].from) # ":")
        THEN "abstract" ELSE p[k].kind

JavaTokens(p) ==
    LET From[k \in 1 .. Len(p) + 1] ==
            IF k > Len(p) THEN <<>>
            ELSE IF p[k].kind = "white" THEN From[k + 1]
            ELSE LET t == [kind |-> JavaKind(p, k), from |-> p[k].from, to |-> p[k].to,
                           deprecated |-> IsDeprecated(p, k)]
                     diamond == Level >= 5 /\ Char(t.from) = "<" /\ t.to = t.from /\ Char(t.to + 1) = ">"
                 IN  (IF diamond THEN <<t, [t EXCEPT !.deprecated = FALSE]>> ELSE <<t>>) \o From[k + 1]
    IN  From[1]

\* The open braces before token i, for braces that close what is open.
Depth(i) ==
    FoldLeft(LAMBDA d, t : IF t.kind # "operator" \/ t.from # t.to THEN d
                           ELSE IF Char(t.from) = "{" THEN d + 1
                           ELSE IF Char(t.from) = "}" /\ d > 0 THEN d - 1 ELSE d,
             0, SubSeq(tokens, 1, i - 1))
BracesMatch ==
    \A i \in DOMAIN tokens :
        tokens[i].kind = "operator" /\ Char(tokens[i].from) = "{" =>
            tokens[i].right = Min({Len(tokens)} \cup {j \in i + 1 .. Len(tokens) - 1 : Depth(j + 1) = Depth(i)})
TypesAreFound ==
    \A i \in DOMAIN tokens :
        Contains(type_index, i) <=> tokens[i].kind \in {"class", "enum", "interface"}
                                  /\ SubSeq(Text, tokens[i].from, tokens[i].to) \notin DOMAIN Synonyms
                                  /\ Depth(i) = 0
LinesAreFound ==
    \A i \in DOMAIN Text : FindLine(i) = Cardinality({j \in 1 .. i - 1 : Char(j) \in Newline}) + 1

(***************************************************************************)
(* A file has lexical errors if the language makes no tokens of it, and    *)
(* only then or if a number runs into what follows; and if it has none,    *)
(* its tokens are those of the language, one of them is deprecated just if *)
(* the last document comment in front of it says so, *)
(* every left brace leads to the right brace of its block, and the types   *)
(* and lines are found (Scanner::Scan and all that it calls, FindLine).    *)
(***************************************************************************)
TokensAreJava ==
    Scanned =>
        LET p  == Pieces
            ok == ~Contains(messages, "error")
        IN  /\ ok => Legal(p)
            /\ Legal(p) /\ ~Joined(p) => ok
            /\ ok => [i \in 1 .. Len(tokens) - 2 |->
                        [kind |-> tokens[i + 1].kind, from |-> tokens[i + 1].from, to |-> tokens[i + 1].to,
                         deprecated |-> tokens[i + 1].deprecated]] = JavaTokens(p)
            /\ BracesMatch /\ TypesAreFound /\ LinesAreFound
=============================================================================
