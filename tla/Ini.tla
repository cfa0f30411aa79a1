---------------------------------- MODULE Ini ----------------------------------
(***************************************************************************)
(* The INI parser ini.c with the settings of ini.h: ini_parse_stream reads *)
(* a line, takes it apart and calls the handler, which may refuse.  One    *)
(* action is one turn of the loop.  fgets and ini_reader_string give the   *)
(* same lines; a line that does not fit in the buffer comes in pieces.     *)
(*                                                                         *)
(* A string is a sequence of characters without its NUL.                   *)
(***************************************************************************)
EXTENDS Integers, Sequences, SequencesExt

CONSTANTS
    INI_MAX_LINE, MAX_SECTION, MAX_NAME,   \* the sizes of the buffers
    Lines,      \* the lines a file may be made of, their newline included
    MaxLines    \* how many pieces are read

VARIABLES
    rest,       \* what is left of a line that did not fit
    section, prev_name, lineno, error,   \* the local variables
    read,       \* the pieces read, a history
    told        \* the calls of the handler, with its answers, a history

iniVars == <<rest, section, prev_name, lineno, error, read, told>>

Trimmed == {" ", "\t", "\r", "\n"}        \* what trim_blank removes
Space == Trimmed \cup {"\f", "VT"}        \* isspace

First(s) == IF s = <<>> THEN "NUL" ELSE Head(s)

From(s, k) == SubSeq(s, k, Len(s))
UpTo(s, k) == SubSeq(s, 1, k)

LeftStrip(s, blanks) ==
    LET k == SelectInSeq(s, LAMBDA c : c \notin blanks) IN IF k = 0 THEN <<>> ELSE From(s, k)
RightStrip(s, blanks) == UpTo(s, SelectLastInSeq(s, LAMBDA c : c \notin blanks))
lskip(s) == LeftStrip(s, Space)
rstrip(s) == RightStrip(s, Space)
trim_blank(s) == RightStrip(LeftStrip(s, Trimmed), Trimmed)
strncpy0(s, size) == UpTo(s, IF Len(s) < size THEN Len(s) ELSE size - 1)

\* Where the first of chars is, or an inline comment behind a space, or the end.
InlineComment(s, j) == j > 1 /\ s[j] = ";" /\ s[j - 1] \in Space

find_chars_or_comment(s, chars) ==
    LET stops == {j \in 1..Len(s) : s[j] \in chars \/ InlineComment(s, j)}
    IN  IF stops = {} THEN Len(s) + 1 ELSE Min(stops)

WithoutComment(s) == UpTo(s, find_chars_or_comment(s, {}) - 1)
CharAt(s, k) == IF k > Len(s) THEN "NUL" ELSE s[k]

(***************************************************************************)
(* One line.                                                               *)
(***************************************************************************)
\* A byte order mark at the start of the first line is skipped.
WithoutBom(line, n) == IF n = 1 /\ First(line) = "BOM" THEN Tail(line) ELSE line

Start(piece, n) == lskip(rstrip(WithoutBom(trim_blank(piece), n)))

\* The handler is called, and the first refusal is the error.
Handler(n, name, value) ==
    \E ok \in BOOLEAN :
        /\ told' = Append(told, <<n, section, name, value, ok>>)
        /\ error' = IF ~ok /\ error = 0 THEN n ELSE error

Nothing == UNCHANGED <<section, prev_name, error, told>>
\* As Wrong, with the last error instead of the first.
WrongAgain(n) == error' = n /\ UNCHANGED <<section, prev_name, told>>
Wrong(n) == error' = (IF error = 0 THEN n ELSE error) /\ UNCHANGED <<section, prev_name, told>>

Continuation(start, n) ==
    /\ Handler(n, prev_name, rstrip(WithoutComment(start)))
    /\ UNCHANGED <<section, prev_name>>

SectionLine(start, n) ==
    LET end == find_chars_or_comment(Tail(start), {"]"})
    IN  IF CharAt(Tail(start), end) = "]"
        THEN /\ section' = strncpy0(UpTo(Tail(start), end - 1), MAX_SECTION)
             /\ prev_name' = <<>>
             /\ UNCHANGED <<error, told>>
        ELSE Wrong(n)

PairLine(start, n) ==
    LET end == find_chars_or_comment(start, {"=", ":"})
        name == rstrip(UpTo(start, end - 1))
        value == rstrip(lskip(WithoutComment(From(start, end + 1))))
    IN  IF CharAt(start, end) \in {"=", ":"}
        THEN /\ prev_name' = strncpy0(name, MAX_NAME)
             /\ Handler(n, name, value)
             /\ UNCHANGED section
        ELSE Wrong(n)

\* White space that trim_blank has left in front makes a line a continuation.
Indented(line) == First(line) \in Space

Parse(line, start, n) ==
    LET continues == prev_name # <<>> /\ Indented(line)
    IN  \/ First(start) \in {";", "#", "NUL"} /\ Nothing
        \/ First(start) \notin {";", "#", "NUL"} /\ continues /\ Continuation(start, n)
        \/ First(start) = "[" /\ ~continues /\ SectionLine(start, n)
        \/ First(start) \notin {";", "#", "NUL", "["} /\ ~continues /\ PairLine(start, n)

ReadLine ==
    /\ lineno < MaxLines
    /\ \E line \in IF rest # <<>> THEN {rest} ELSE Lines :
          LET size == IF Len(line) < INI_MAX_LINE THEN Len(line) ELSE INI_MAX_LINE - 1
              piece == UpTo(line, size)
          IN  /\ rest' = From(line, size + 1)
              /\ read' = Append(read, piece)
              /\ lineno' = lineno + 1
              /\ Parse(trim_blank(piece), Start(piece, lineno + 1), lineno + 1)

InitIni ==
    /\ rest = <<>> /\ section = <<>> /\ prev_name = <<>> /\ lineno = 0 /\ error = 0
    /\ read = <<>> /\ told = <<>>
-----------------------------------------------------------------------------
(***************************************************************************)
(* What the lines read say, each on its own and with those before it.      *)
(***************************************************************************)
Body(k) == lskip(rstrip(LET s == trim_blank(read[k]) IN IF k = 1 /\ First(s) = "BOM" THEN Tail(s) ELSE s))

\* Of a body b: what is in front of a comment; whether it is one, or a section; where a section may
\* close, which is before a comment; and where a name may end.
CommentsIn(b) == {j \in 2..Len(b) : b[j] = ";" /\ b[j - 1] \in Space}
Said(b) == UpTo(b, Min(CommentsIn(b) \cup {Len(b) + 1}) - 1)
IsComment(b) == First(b) \in {";", "#", "NUL"}
Bracketed(b) == First(b) = "["
Closing(b) == {j \in 2..Len(b) : b[j] = "]" /\ \A i \in CommentsIn(b) : i <= j => i = 2}
Splits(b) == {j \in 1..Len(Said(b)) : b[j] \in {"=", ":"}}

\* The name and the value of a pair split at j; a comment in the value needs a blank of the value before it.
NameOf(b, j) == rstrip(UpTo(b, j - 1))
ValueOf(b, j) == lskip(rstrip(From(UpTo(b, Min({i \in CommentsIn(b) : i > j + 1} \cup {Len(b) + 1}) - 1), j + 1)))

\* What each line is: an indented line continues the pair before it, if that has a name and no section
\* is in between; `indented' are the lines the code takes for such, and bodies the lines without blanks.
Kinds(bodies, indented) ==
    LET kind[k \in DOMAIN bodies] ==
            LET b == bodies[k]
                heads == {j \in 1..(k - 1) : kind[j] \in {"section", "pair"}}
                pair == bodies[Max(heads)]
                continues == /\ k \in indented /\ heads # {} /\ kind[Max(heads)] = "pair"
                             /\ NameOf(pair, Min(Splits(pair))) # <<>>
            IN  IF IsComment(b) THEN "nothing"
                ELSE IF continues THEN "more"
                ELSE IF Bracketed(b) /\ Closing(b) # {} THEN "section"
                ELSE IF ~Bracketed(b) /\ Splits(b) # {} THEN "pair"
                ELSE "bad"
    IN  kind

SectionOf(bodies, kinds, k) ==
    LET before == {j \in 1..(k - 1) : kinds[j] = "section"}
        b == bodies[Max(before)]
    IN  IF before = {} THEN <<>> ELSE strncpy0(SubSeq(b, 2, Min(Closing(b)) - 1), MAX_SECTION)

\* What the handler hears of line k: its own pair, or the name of the pair it continues.
Heard(bodies, kinds, k) ==
    LET pair == Max({j \in 1..k : kinds[j] = "pair"})
        b == bodies[pair]
        split == Min(Splits(b))
        name == NameOf(b, split)
    IN  IF pair = k THEN <<k, SectionOf(bodies, kinds, k), name, ValueOf(b, split)>>
        ELSE <<k, SectionOf(bodies, kinds, k), strncpy0(name, MAX_NAME), rstrip(Said(bodies[k]))>>

\* The handler hears of every pair, and of every line that continues one, once, in order and in the
\* section it is in, and of nothing else, whatever it answers; and the error is the first line that
\* says nothing or was refused.  A line continues a pair only if white space is left in front of it
\* when trim_blank is through (ini.c:158), a form feed or a vertical tab.
ToldTheFile ==
    \A bodies \in {[k \in 1..lineno |-> Body(k)]} :
    \A kinds \in {Kinds(bodies, {k \in 1..lineno : Indented(trim_blank(read[k]))})} :
        LET pairs == SetToSortSeq({k \in 1..lineno : kinds[k] \in {"pair", "more"}}, <)
            refused == {told[i][1] : i \in {i \in 1..Len(told) : ~told[i][5]}}
            wrong == {k \in 1..lineno : kinds[k] = "bad"} \cup refused
        IN  /\ [i \in 1..Len(told) |-> SubSeq(told[i], 1, 4)] =
                   [i \in 1..Len(pairs) |-> Heard(bodies, kinds, pairs[i])]
            /\ error = IF wrong = {} THEN 0 ELSE Min(wrong)

\* "Non-blank line with leading whitespace, treat as continuation of previous name's value"
\* (ini.c:181): behind a line with a pair the handler hears its name again.
ContinuationsAreTold ==
    \A i \in 1..Len(told) :
        LET k == told[i][1] + 1
        IN  /\ k <= lineno /\ Last(read[k - 1]) = "\n" /\ told[i][3] # <<>>
            /\ First(read[k]) \in Space /\ ~IsComment(Body(k))
            => \E j \in 1..Len(told) : told[j][1] = k /\ told[j][3] = strncpy0(told[i][3], MAX_NAME)
=============================================================================
