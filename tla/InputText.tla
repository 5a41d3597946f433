----------------------------- MODULE InputText -----------------------------
(***************************************************************************)
(* How the text of a source file gets into the input buffer                *)
(* (parser/stream.cpp): Unicode escapes become characters, every end of a  *)
(* line becomes a line feed, and a carriage return marks the end.  A build *)
(* with encodings goes through ProcessInputUnicode, one character at a     *)
(* time, one without through ProcessInputAscii.                            *)
(***************************************************************************)
EXTENDS Integers, SequencesExt

CONSTANT SourceTexts      \* the texts of files, as sequences of code points

VARIABLES
    source,         \* the text of the file
    encoding,       \* whether the build has encodings
    source_ptr,     \* the next character of it
    input_buffer,
    state,          \* UnicodeLexerState, or "END"
    saved_state,
    escape,         \* of the current escape: [ptr, value]
    oncemore,       \* a character to be looked at again, if any
    bad_escape      \* INVALID_UNICODE_ESCAPE was reported

inputVars == <<source, encoding, source_ptr, input_buffer, state, saved_state,
               escape, oncemore, bad_escape>>

LF        == 10
CR        == 13
CTL_Z     == 26
BACKSLASH == 92
LETTER_U  == 117
BOMs == {65279, 65534}

hexvalue(ch) ==
    CASE ch \in 48 .. 57  -> ch - 48
      [] ch \in 65 .. 70  -> ch - 55
      [] ch \in 97 .. 102 -> ch - 87
IsHexDigit(ch) == ch \in (48 .. 57) \cup (65 .. 70) \cup (97 .. 102)
HexValue(s)    == FoldLeft(LAMBDA v, ch : v * 16 + hexvalue(ch), 0, s)

InputInit ==
    /\ source \in SourceTexts
    /\ encoding \in BOOLEAN
    /\ source_ptr = 1
    /\ input_buffer = <<LF>>
    /\ state = "START"
    /\ saved_state = "RAW"
    /\ escape = [ptr |-> 0, value |-> 0]
    /\ oncemore = <<>>
    /\ bad_escape = FALSE

-----------------------------------------------------------------------------
(* With encodings: one action per state. *)

More == source_ptr <= Len(source) \/ oncemore # <<>>
Ch   == IF oncemore # <<>> THEN oncemore[1] ELSE source[source_ptr]

\* The step of ProcessInputUnicode that looks at Ch in one of the states.
In(states, next, saved, put, again) ==
    /\ encoding
    /\ state \in states
    /\ More
    /\ source_ptr' = IF oncemore # <<>> THEN source_ptr ELSE source_ptr + 1
    /\ oncemore' = again
    /\ input_buffer' = input_buffer \o put
    /\ state' = next
    /\ saved_state' = saved
    /\ UNCHANGED <<source, encoding>>

Quote ==
    \/ /\ Ch = BACKSLASH
       /\ In({"QUOTE"}, "RAW", saved_state, <<BACKSLASH, BACKSLASH>>, <<>>)
       /\ UNCHANGED <<escape, bad_escape>>
    \/ /\ Ch = LETTER_U
       /\ In({"QUOTE"}, "UNICODE_ESCAPE", saved_state, <<BACKSLASH, LETTER_U>>, <<>>)
       /\ escape' = [escape EXCEPT !.ptr = Len(input_buffer) + 1]
       /\ UNCHANGED bad_escape
    \/ /\ Ch \notin {BACKSLASH, LETTER_U}
       /\ In({"QUOTE"}, "RAW", saved_state, <<BACKSLASH>>, <<Ch>>)
       /\ UNCHANGED <<escape, bad_escape>>

AfterDigit ==
    [UNICODE_ESCAPE |-> "UNICODE_ESCAPE_DIGIT_0",
     UNICODE_ESCAPE_DIGIT_0 |-> "UNICODE_ESCAPE_DIGIT_1",
     UNICODE_ESCAPE_DIGIT_1 |-> "UNICODE_ESCAPE_DIGIT_2"]

UnicodeEscape ==
    /\ state \in DOMAIN AfterDigit
    /\ \/ /\ IsHexDigit(Ch)
          /\ In(DOMAIN AfterDigit, AfterDigit[state], saved_state, <<Ch>>, <<>>)
          /\ escape' = [escape EXCEPT !.value =
                            hexvalue(Ch) + IF state = "UNICODE_ESCAPE" THEN 0 ELSE @ * 16]
          /\ UNCHANGED bad_escape
       \/ /\ state = "UNICODE_ESCAPE" /\ Ch = LETTER_U
          /\ In({state}, state, saved_state, <<Ch>>, <<>>)
          /\ UNCHANGED <<escape, bad_escape>>
       \/ /\ ~IsHexDigit(Ch) /\ ~(state = "UNICODE_ESCAPE" /\ Ch = LETTER_U)
          /\ In({state}, "RAW", saved_state, <<Ch>>, <<>>)
          /\ bad_escape' = TRUE
          /\ UNCHANGED escape

\* The buffer goes back to where the escape started, and its character is
\* looked at in the state that was there before.
LastDigit ==
    LET last == "UNICODE_ESCAPE_DIGIT_2"
    IN  \/ /\ state = last /\ More /\ IsHexDigit(Ch)
           /\ encoding
           /\ source_ptr' = source_ptr + 1
           /\ oncemore' = <<escape.value * 16 + hexvalue(Ch)>>
           /\ input_buffer' = SubSeq(input_buffer, 1, escape.ptr - 1)
           /\ state' = saved_state
           /\ saved_state' = last
           /\ UNCHANGED <<source, encoding, escape, bad_escape>>
        \/ /\ ~IsHexDigit(Ch)
           /\ In({last}, "RAW", last, <<Ch>>, <<>>)
           /\ bad_escape' = TRUE
           /\ UNCHANGED escape

StartsEscape == Ch = BACKSLASH /\ saved_state # "UNICODE_ESCAPE_DIGIT_2"

\* Mutant: a line feed behind a carriage return makes a line of its own.
AfterCRTwice ==
    /\ CASE Ch = CR      -> In({"CR"}, "CR", "CR", <<LF>>, <<>>)
         [] StartsEscape -> In({"CR"}, "QUOTE", "CR", <<>>, <<>>)
         [] OTHER        -> In({"CR"}, "RAW", "CR", <<Ch>>, <<>>)
    /\ UNCHANGED <<escape, bad_escape>>

AfterCR ==
    /\ CASE Ch = LF      -> In({"CR"}, "RAW", "CR", <<>>, <<>>)
         [] Ch = CR      -> In({"CR"}, "CR", "CR", <<LF>>, <<>>)
         [] StartsEscape -> In({"CR"}, "QUOTE", "CR", <<>>, <<>>)
         [] OTHER        -> In({"CR"}, "RAW", "CR", <<Ch>>, <<>>)
    /\ UNCHANGED <<escape, bad_escape>>

Raw ==
    /\ CASE state = "START" /\ Ch \in BOMs
                         -> In({"START"}, "RAW", saved_state, <<>>, <<>>)
         [] StartsEscape -> In({"START", "RAW"}, "QUOTE", "RAW", <<>>, <<>>)
         [] Ch = CR      -> In({"START", "RAW"}, "CR", "RAW", <<LF>>, <<>>)
         [] OTHER        -> In({"START", "RAW"}, "RAW", "RAW", <<Ch>>, <<>>)
    /\ UNCHANGED <<escape, bad_escape>>

ProcessInputUnicode ==
    More /\ (Quote \/ UnicodeEscape \/ LastDigit \/ AfterCR \/ Raw)

-----------------------------------------------------------------------------
(* Without: one action per round of the loop. *)

\* The first place from i on that holds no u.
AfterUs(i) == CHOOSE j \in i .. Len(source) + 1 :
                 /\ \A k \in i .. j - 1 : source[k] = LETTER_U
                 /\ j <= Len(source) => source[j] # LETTER_U
At(i)      == IF i <= Len(source) THEN source[i] ELSE -1
HexAt(i)   == i + 3 <= Len(source) /\ \A k \in i .. i + 3 : IsHexDigit(source[k])

\* What follows a carriage return: a line feed, written as itself or escaped.
AfterLineFeed(i) ==
    IF At(i) = LF THEN i + 1
    ELSE IF /\ At(i) = BACKSLASH /\ At(i + 1) = LETTER_U
            /\ HexAt(AfterUs(i + 1)) /\ HexValue(SubSeq(source, AfterUs(i + 1), AfterUs(i + 1) + 3)) = LF
         THEN AfterUs(i + 1) + 4 ELSE i

ProcessInputAscii ==
    LET i       == source_ptr
        quoted  == source[i] = BACKSLASH /\ i < Len(source)
        escaped == quoted /\ source[i + 1] = LETTER_U
        d       == AfterUs(i + 1)
        good    == escaped /\ HexAt(d)
        put     == IF good THEN <<HexValue(SubSeq(source, d, d + 3))>>
                   ELSE IF quoted /\ ~escaped THEN <<BACKSLASH, source[i + 1]>>
                   ELSE <<source[i]>>
        next    == IF good THEN d + 4 ELSE IF quoted /\ ~escaped THEN i + 2 ELSE i + 1
    IN  /\ ~encoding
        /\ state # "END" /\ More
        /\ bad_escape' = (bad_escape \/ (escaped /\ ~good))
        /\ IF Last(put) = CR
           THEN /\ input_buffer' = input_buffer \o Front(put) \o <<LF>>
                /\ source_ptr' = AfterLineFeed(next)
           ELSE /\ input_buffer' = input_buffer \o put
                /\ source_ptr' = next
        /\ UNCHANGED <<source, encoding, state, saved_state, escape, oncemore>>

-----------------------------------------------------------------------------
\* A ^Z at the end is removed.
EndOfInput ==
    LET all == input_buffer \o IF state = "QUOTE" THEN <<BACKSLASH>> ELSE <<>>
    IN  /\ state # "END" /\ ~More
        /\ input_buffer' = (IF Last(all) = CTL_Z THEN Front(all) ELSE all) \o <<CR>>
        /\ bad_escape' = (bad_escape \/ state \in DOMAIN AfterDigit \cup {"UNICODE_ESCAPE_DIGIT_2"})
        /\ state' = "END"
        /\ UNCHANGED <<source, encoding, source_ptr, saved_state, escape, oncemore>>

InputNext == ProcessInputUnicode \/ ProcessInputAscii \/ EndOfInput
InputSpec == InputInit /\ [][InputNext]_inputVars

-----------------------------------------------------------------------------
(* The Java language (chapters 3.2 to 3.5). *)

\* A backslash can start an escape after an even number of others.
Eligible(i) ==
    /\ source[i] = BACKSLASH /\ At(i + 1) = LETTER_U
    /\ LET Others == {j \in 1 .. i : \A k \in j .. i - 1 : source[k] = BACKSLASH}
       IN  (i - Min(Others)) % 2 = 0
Illegal == \E i \in DOMAIN source : Eligible(i) /\ ~HexAt(AfterUs(i + 1))

Unescape ==
    LET From[i \in 1 .. Len(source) + 1] ==
            IF i > Len(source) THEN <<>>
            ELSE IF Eligible(i)
            THEN LET d == AfterUs(i + 1)
                 IN  <<HexValue(SubSeq(source, d, d + 3))>> \o From[d + 4]
            ELSE <<source[i]>> \o From[i + 1]
    IN  From[1]
\* A line feed after a carriage return is part of the same end of line.
LinesOf(t) ==
    LET From[i \in 1 .. Len(t) + 1] ==
            IF i > Len(t) THEN <<>>
            ELSE IF t[i] = LF /\ i > 1 /\ t[i - 1] = CR THEN From[i + 1]
            ELSE <<IF t[i] = CR THEN LF ELSE t[i]>> \o From[i + 1]
    IN  From[1]
WithoutMark(t) == IF encoding /\ t # <<>> /\ t[1] \in BOMs THEN Tail(t) ELSE t
WithoutEnd(t)  == IF t # <<>> /\ Last(t) = CTL_Z THEN Front(t) ELSE t

(***************************************************************************)
(* In both builds, the buffer holds the characters that the language makes *)
(* of the text, and an escape is reported just when there is a bad one     *)
(* (ProcessInputUnicode and ProcessInputAscii).                            *)
(***************************************************************************)
TextIsTranslated ==
    state = "END" =>
        /\ bad_escape = Illegal
        /\ ~Illegal => input_buffer = <<LF>> \o WithoutEnd(LinesOf(WithoutMark(Unescape))) \o <<CR>>
=============================================================================
