----------------------------- MODULE JsonChecker -----------------------------
(***************************************************************************)
(* json_checker of JSON_checker.c over its push-down automaton: the loop   *)
(* hands the text to JSON_checker_char one character at a time until one   *)
(* is refused, and asks JSON_checker_done at the end.                      *)
(*                                                                         *)
(* A character is a string of one, or "NUL", or "high" for any byte above  *)
(* 0x7F.                                                                   *)
(***************************************************************************)
EXTENDS Integers, Sequences, SequencesExt

CONSTANTS
    Alphabets,  \* sets of characters; a text is written in one of them
    Starts,     \* what a text may begin with
    MaxText     \* how many characters may follow

DEPTH == 20     \* what json_checker gives new_JSON_checker

VARIABLES
    text,   \* the characters handed over
    jc,     \* the checker: valid, state and the stack of modes up to its top
    result  \* what json_checker returned, "none" while it runs

checkerVars == <<text, jc, result>>

(***************************************************************************)
(* The transition table.  An entry __ is no entry here.                    *)
(***************************************************************************)
Space == {" ", "\t"}
HexDigit == {"0", "1", "9", "a", "b", "e", "f", "A", "E"}
NumberEnd == {"ZE", "IN", "FS", "E3"}
InString(c) == c \notin {"\t", "NUL", "\"", "\\"}

Entries ==
    {<<{s}, Space, s>> : s \in {"GO", "OK", "OB", "KE", "CO", "VA", "AR"}} \cup
    {<<{"GO", "VA", "AR"}, {"{"}, "begin object">>, <<{"GO", "VA", "AR"}, {"["}, "begin array">>,
     <<{"OB"}, {"}"}, "end empty object">>, <<{"OK"} \cup NumberEnd, {"}"}, "end object">>,
     <<{"OK", "AR"} \cup NumberEnd, {"]"}, "end array">>,
     <<{"OK"} \cup NumberEnd, {","}, "comma">>, <<{"CO"}, {":"}, "colon">>,
     <<{"OB", "KE", "VA", "AR"}, {"\""}, "ST">>, <<{"ST"}, {"\""}, "end string">>,
     <<{"ST"}, {"\\"}, "ES">>, <<{"ES"}, {"\"", "\\", "/", "b", "f", "n", "r", "t"}, "ST">>,
     <<{"ES"}, {"u"}, "U1">>, <<{"U1"}, HexDigit, "U2">>, <<{"U2"}, HexDigit, "U3">>,
     <<{"U3"}, HexDigit, "U4">>, <<{"U4"}, HexDigit, "ST">>,
     <<{"VA", "AR"}, {"-"}, "MI">>, <<{"VA", "AR", "MI"}, {"0"}, "ZE">>,
     <<{"VA", "AR", "MI"}, {"1", "9"}, "IN">>, <<{"IN"}, {"0", "1", "9"}, "IN">>,
     <<{"ZE", "IN"}, {"."}, "FR">>, <<{"FR", "FS"}, {"0", "1", "9"}, "FS">>,
     <<{"ZE", "IN", "FS"}, {"e", "E"}, "E1">>, <<{"E1"}, {"+", "-"}, "E2">>,
     <<{"E1", "E2", "E3"}, {"0", "1", "9"}, "E3">>, <<NumberEnd, Space, "OK">>,
     <<{"VA", "AR"}, {"t"}, "T1">>, <<{"T1"}, {"r"}, "T2">>, <<{"T2"}, {"u"}, "T3">>,
     <<{"T3", "F4"}, {"e"}, "OK">>, <<{"VA", "AR"}, {"f"}, "F1">>, <<{"F1"}, {"a"}, "F2">>,
     <<{"F2"}, {"l"}, "F3">>, <<{"F3"}, {"s"}, "F4">>, <<{"VA", "AR"}, {"n"}, "N1">>,
     <<{"N1"}, {"u"}, "N2">>, <<{"N2"}, {"l"}, "N3">>, <<{"N3"}, {"l"}, "OK">>}

Entry(s, c) ==
    IF s = "ST" /\ InString(c) THEN "ST"
    ELSE LET hit == {e \in Entries : s \in e[1] /\ c \in e[2]}
         IN  IF hit = {} THEN "error" ELSE (CHOOSE e \in hit : TRUE)[3]

(***************************************************************************)
(* The checker: an operation takes a checker to a checker.                 *)
(***************************************************************************)
Reject(c) == [c EXCEPT !.valid = FALSE]
Go(c, s) == [c EXCEPT !.state = s]
Top(c) == Last(c.stack)

\* As Push, with the limit tested too late.
PushDeeper(c, mode) == IF Len(c.stack) > DEPTH THEN Reject(c) ELSE [c EXCEPT !.stack = Append(@, mode)]
Push(c, mode) == IF Len(c.stack) >= DEPTH THEN Reject(c) ELSE [c EXCEPT !.stack = Append(@, mode)]
Pop(c, mode) == IF c.stack = <<>> \/ Top(c) # mode THEN Reject(c) ELSE [c EXCEPT !.stack = Front(@)]

New == Push([valid |-> TRUE, state |-> "GO", stack |-> <<>>], "DONE")

EndString(c) ==
    CASE Top(c) = "KEY" -> Go(c, "CO")
      [] Top(c) \in {"ARRAY", "OBJECT"} -> Go(c, "OK")
      [] OTHER -> Reject(c)

\* A pop that fails leaves a rejected checker, and rejected it stays.
Comma(c) ==
    CASE Top(c) = "OBJECT" -> Go(Push(Pop(c, "OBJECT"), "KEY"), "KE")
      [] Top(c) = "ARRAY" -> Go(c, "VA")
      [] OTHER -> Reject(c)

Colon(c) == Go(Push(Pop(c, "KEY"), "OBJECT"), "VA")

\* JSON_checker_char.
Char(c, char) ==
    LET next == Entry(c.state, char)
    IN  CASE next = "error" -> Reject(c)
          [] next = "end empty object" -> Go(Pop(c, "KEY"), "OK")
          [] next = "end object" -> Go(Pop(c, "OBJECT"), "OK")
          [] next = "end array" -> Go(Pop(c, "ARRAY"), "OK")
          [] next = "begin object" -> Go(Push(c, "KEY"), "OB")
          [] next = "begin array" -> Go(Push(c, "ARRAY"), "AR")
          [] next = "end string" -> EndString(c)
          [] next = "comma" -> Comma(c)
          [] next = "colon" -> Colon(c)
          [] OTHER -> Go(c, next)

\* JSON_checker_done.
Done(c) == c.state = "OK" /\ Pop(c, "DONE").valid

(***************************************************************************)
(* json_checker.                                                           *)
(***************************************************************************)
\* replace_character: a byte above 0x7F becomes a star, except in the first place.
Replaced(t) == [k \in 1..Len(t) |-> IF t[k] = "high" /\ k > 1 THEN "*" ELSE t[k]]

\* The loop ends at a NUL and at a byte above 0x7F, which is negative.
StopsAt(t, k) == Replaced(t)[k] \in {"NUL", "high"}
Stopped == text # <<>> /\ StopsAt(text, Len(text))

Feed(c) ==
    /\ result = "none" /\ jc.valid /\ ~Stopped
    /\ text' = Append(text, c)
    /\ jc' = IF StopsAt(text', Len(text')) THEN jc ELSE Char(jc, Replaced(text')[Len(text')])
    /\ result' = IF jc'.valid THEN "none" ELSE "-102"

Finish ==
    /\ result = "none"
    /\ result' = IF text = <<>> \/ text[1] = "NUL" THEN "-1" ELSE IF Done(jc) THEN "0" ELSE "-103"
    /\ UNCHANGED <<text, jc>>

InitChecker ==
    /\ text \in Starts
    /\ jc = FoldLeft(Char, New, IF Stopped THEN Front(text) ELSE text)
    /\ result = "none"

Written(t) == \E A \in Alphabets : \E start \in Starts :
                 IsPrefix(start, t) /\ Len(t) - Len(start) <= MaxText
                     /\ \A k \in (Len(start) + 1)..Len(t) : t[k] \in A

NextChecker ==
    \/ \E c \in UNION Alphabets : Feed(c) /\ Written(text')
    \/ Finish
-----------------------------------------------------------------------------
Json == INSTANCE JsonGrammar

\* What was read of the text: the character that stopped the loop of json_checker is not.
Read == LET r == Replaced(text) IN IF Stopped THEN Front(r) ELSE r

\* A text is accepted exactly when the grammar derives it with less than DEPTH brackets open at a time,
\* and rejected at the first character after which nothing can make it one.
AcceptsJson ==
    /\ result = "0" => Json!IsJson(Read, DEPTH - 1)
    /\ result = "-103" => ~Json!IsJson(Read, DEPTH - 1)
    /\ result = "-102" => ~Json!BeginsJson(Read, DEPTH - 1)
    /\ result = "none" => Json!BeginsJson(Read, DEPTH - 1)
=============================================================================
