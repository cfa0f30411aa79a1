--------------------------------- MODULE Jsmn ---------------------------------
(***************************************************************************)
(* The JSON tokenizer jsmn.c, neither strict nor with parent links, as the *)
(* Makefiles build it.  A caller gives jsmn_parse what has arrived of a    *)
(* text and a pool of tokens, and calls it again with more text or a       *)
(* larger pool until it has a count; or it gives no pool and asks for the  *)
(* number of tokens.  One action is one iteration of the loop.             *)
(*                                                                         *)
(* Positions count from 0, as in the code; no text contains a NUL.         *)
(***************************************************************************)
EXTENDS Integers, Sequences, FiniteSets, FiniteSetsExt

CONSTANTS
    Texts,   \* the texts to tokenize
    MaxPool  \* the largest pool

NOMEM == "JSMN_ERROR_NOMEM"
INVAL == "JSMN_ERROR_INVAL"
PART == "JSMN_ERROR_PART"
NONE == -1       \* no superior token; the end of a token that is still open

VARIABLES
    js,      \* the whole text
    len,     \* how much of it the parser was given
    pool,    \* num_tokens; NONE when tokens is NULL
    parser,  \* pos, toksuper and the tokens up to toknext
    count,   \* the local variable
    ret      \* what the last call returned: an error or, "done", the count

jsmnVars == <<js, len, pool, parser, count, ret>>

Counting == pool = NONE
At(p) == js[p + 1]
pos == parser.pos
toksuper == parser.toksuper
tokens == parser.tokens
TokNext == Len(tokens)

Blanks == {" ", "\t"}
Delimiters == {":", ",", "]", "}"} \cup Blanks
Escapes == {"\"", "/", "\\", "b", "f", "r", "n", "t"}
HexDigits == {"0", "1", "9", "a", "b", "e", "f", "A", "E"}
Control == {"high", "ctl"}     \* bytes below 32 and above 126

Token(type, start, end) == [type |-> type, start |-> start, end |-> end, size |-> 0]

\* jsmn_alloc_token finds nothing left.
PoolEmpty == TokNext >= pool

\* A token more, counted by its superior.
Adopted(toks) == IF toksuper = NONE THEN toks ELSE [toks EXCEPT ![toksuper + 1].size = @ + 1]

Returns(r) == ret' = r /\ UNCHANGED count
GoesOn(p) == parser' = p /\ UNCHANGED ret

Reads(S) == ret = "running" /\ pos < len /\ At(pos) \in S

(***************************************************************************)
(* The cases of the switch.                                                *)
(***************************************************************************)
OpenBracket ==
    /\ Reads({"{", "["})
    /\ IF ~Counting /\ PoolEmpty THEN ret' = NOMEM /\ UNCHANGED parser
       ELSE IF Counting THEN GoesOn([parser EXCEPT !.pos = @ + 1])
       ELSE GoesOn([pos |-> pos + 1, toksuper |-> TokNext,
                    tokens |-> Append(Adopted(tokens),
                                      Token(IF At(pos) = "{" THEN "object" ELSE "array", pos, NONE))])
    /\ count' = count + 1
    /\ UNCHANGED <<js, len, pool>>

OpenTokens(n) == {i \in 1..n : tokens[i].end = NONE}

CloseBracket ==
    /\ Reads({"}", "]"})
    /\ LET open == OpenTokens(TokNext)
           i == Max(open)
       IN  IF Counting THEN GoesOn([parser EXCEPT !.pos = @ + 1])
           ELSE IF open = {} \/ tokens[i].type # (IF At(pos) = "}" THEN "object" ELSE "array")
           THEN ret' = INVAL /\ UNCHANGED parser
           ELSE GoesOn([pos |-> pos + 1,
                        toksuper |-> IF open = {i} THEN NONE ELSE Max(open \ {i}) - 1,
                        tokens |-> [tokens EXCEPT ![i].end = pos + 1]])
    /\ UNCHANGED <<js, len, pool, count>>

\* The loop of jsmn_parse_string from p on: how it ends, and where.
StringEnds[p \in Nat] ==
    IF p >= len THEN <<PART, p>>
    ELSE CASE At(p) = "\"" -> <<"quote", p>>
           [] At(p) = "\\" /\ p + 1 < len ->
                IF At(p + 1) \in Escapes THEN StringEnds[p + 2]
                ELSE IF At(p + 1) # "u" THEN <<INVAL, p>>
                ELSE LET digits == (p + 2)..(IF p + 5 < len - 1 THEN p + 5 ELSE len - 1)
                     IN  IF \E q \in digits : At(q) \notin HexDigits THEN <<INVAL, p>>
                         ELSE StringEnds[p + 2 + Cardinality(digits)]
           [] OTHER -> StringEnds[p + 1]

\* As GivenUp, without going back.
GivenUpBehind(p) == [parser EXCEPT !.pos = p]

\* Where the parser stands when a string or a primitive is given up: at its first character.
GivenUp(p) == parser

\* The token of a string or of a primitive: the position after it, and its bounds.
Found(next, token) ==
    IF Counting THEN GoesOn([parser EXCEPT !.pos = next]) /\ count' = count + 1
    ELSE IF PoolEmpty THEN Returns(NOMEM) /\ parser' = GivenUp(next)
    ELSE /\ GoesOn([parser EXCEPT !.pos = next, !.tokens = Append(Adopted(@), token)])
         /\ count' = count + 1

String ==
    /\ Reads({"\""})
    /\ LET end == StringEnds[pos + 1]
       IN  IF end[1] = "quote" THEN Found(end[2] + 1, Token("string", pos + 1, end[2]))
           ELSE Returns(end[1]) /\ parser' = GivenUp(end[2])
    /\ UNCHANGED <<js, len, pool>>

Blank ==
    /\ Reads(Blanks)
    /\ GoesOn([parser EXCEPT !.pos = @ + 1])
    /\ UNCHANGED <<js, len, pool, count>>

Colon ==
    /\ Reads({":"})
    /\ GoesOn([parser EXCEPT !.pos = @ + 1, !.toksuper = TokNext - 1])
    /\ UNCHANGED <<js, len, pool, count>>

\* Behind the value of a key, the superior is the object or array again.
Comma ==
    /\ Reads({","})
    /\ LET key == ~Counting /\ toksuper # NONE /\ tokens[toksuper + 1].type \notin {"array", "object"}
       IN  GoesOn([parser EXCEPT !.pos = @ + 1,
                                 !.toksuper = IF key /\ OpenTokens(TokNext) # {}
                                              THEN Max(OpenTokens(TokNext)) - 1 ELSE @])
    /\ UNCHANGED <<js, len, pool, count>>

\* jsmn_parse_primitive: everything up to a delimiter or the end of what was given.
Primitive ==
    /\ ret = "running" /\ pos < len
    /\ At(pos) \notin {"{", "[", "\""} \cup Delimiters
    /\ LET after == {p \in pos..(len - 1) : At(p) \in Delimiters}
           end == IF after = {} THEN len ELSE Min(after)
       IN  IF \E p \in pos..(end - 1) : At(p) \in Control
           THEN Returns(INVAL) /\ parser' = GivenUp(end)
           ELSE Found(end, Token("primitive", pos, end))
    /\ UNCHANGED <<js, len, pool>>

EndOfText ==
    /\ ret = "running" /\ pos >= len
    /\ ret' = IF OpenTokens(TokNext) # {} THEN PART ELSE "done"
    /\ UNCHANGED <<js, len, pool, parser, count>>

\* What the first n characters of the text leave the reader in.
Mode[n \in Nat] ==
    IF n = 0 THEN "out"
    ELSE LET c == js[n] before == Mode[n - 1]
         IN  CASE before = "escape" -> "string"
               [] before = "string" -> IF c = "\"" THEN "out" ELSE IF c = "\\" THEN "escape" ELSE "string"
               [] before = "primitive" /\ c \notin Delimiters -> "primitive"
               [] OTHER -> IF c \in {"{", "["} \cup Delimiters THEN "out"
                           ELSE IF c = "\"" THEN "string" ELSE "primitive"

(***************************************************************************)
(* The caller.  A pool that is too small is enlarged, a text that is not   *)
(* complete is continued.                                                  *)
(***************************************************************************)
\* A cut inside a primitive ends it: jsmn.c cannot tell, and a caller has to.
Cut(n) == n < Len(js) => (Mode[n] # "primitive" \/ At(n) \in Delimiters)

Call(n, room) ==
    /\ ret \in {"none", NOMEM, PART}
    /\ len' = n /\ pool' = room
    /\ count' = TokNext
    /\ ret' = "running"
    /\ UNCHANGED <<js, parser>>

\* jsmn_init.
InitJsmn ==
    /\ js \in Texts /\ len = 0 /\ pool \in {0, NONE}
    /\ parser = [pos |-> 0, toksuper |-> NONE, tokens |-> <<>>]
    /\ count = 0 /\ ret = "none"

Calls ==
    IF Counting THEN ret = "none" /\ Call(Len(js), NONE)
    ELSE \E n \in len..Len(js), room \in pool..MaxPool : Cut(n) /\ Call(n, room)

NextJsmn == \/ OpenBracket \/ CloseBracket \/ String \/ Blank \/ Colon \/ Comma \/ Primitive \/ EndOfText
            \/ Calls
-----------------------------------------------------------------------------
(***************************************************************************)
(* The tokens of a text, from the text alone.                              *)
(***************************************************************************)
Structural(p, S) == Mode[p + 1] = "out" /\ Mode[p] \in {"out", "primitive"} /\ At(p) \in S

\* How many brackets are open after n characters.
Nesting(n) == Cardinality({p \in 0..(n - 1) : Structural(p, {"{", "["})})
              - Cardinality({p \in 0..(n - 1) : Structural(p, {"}", "]"})})

ClosedAt(p, n) == {q \in (p + 1)..n : Nesting(q) = Nesting(p)}

\* The tokens in the first n characters; NONE is the end of a bracket that is still open.
Spans(n) ==
    {<<"string", p + 1, Min({q \in (p + 1)..(n - 1) : Mode[q + 1] = "out"})>> :
        p \in {p \in 0..(n - 1) : Mode[p] = "out" /\ Mode[p + 1] = "string"
                                     /\ \E q \in (p + 1)..(n - 1) : Mode[q + 1] = "out"}}
    \cup {<<"primitive", p, Min({n} \cup {q \in (p + 1)..(n - 1) : Mode[q + 1] = "out"})>> :
        p \in {p \in 0..(n - 1) : Mode[p] = "out" /\ Mode[p + 1] = "primitive"}}
    \cup {<<IF At(p) = "{" THEN "object" ELSE "array", p, IF ClosedAt(p, n) = {} THEN NONE ELSE Min(ClosedAt(p, n))>> :
        p \in {p \in 0..(n - 1) : Structural(p, {"{", "["})}}

Told == {<<tokens[i].type, tokens[i].start, tokens[i].end>> : i \in 1..TokNext}

TokensAreTheSpans ==
    /\ ret \in {"done", PART} /\ ~Counting =>
           Told = Spans(len) /\ \A i \in 2..TokNext : tokens[i - 1].start < tokens[i].start
    /\ ret = "done" /\ ~Counting => count = Cardinality(Spans(len))

Json == INSTANCE JsonGrammar
Given == SubSeq(js, 1, len)

Inside(i, j) ==
    /\ tokens[i].type \in {"array", "object"}
    /\ tokens[i].start < tokens[j].start /\ tokens[j].end <= tokens[i].end
Direct(i) == {j \in 1..TokNext : Inside(i, j) /\ ~\E k \in 1..TokNext : Inside(i, k) /\ Inside(k, j)}
IsKey(i) ==
    /\ tokens[i].type = "string"
    /\ \E p \in (tokens[i].end + 1)..(len - 1) : At(p) = ":" /\ \A q \in (tokens[i].end + 1)..(p - 1) : At(q) \in Blanks

\* The sizes of the tokens are those of the arrays and objects they stand for.
SizesAreRight ==
    ret = "done" /\ ~Counting /\ Json!IsJson(Given, 5) =>
        \A i \in 1..TokNext :
            tokens[i].size = CASE tokens[i].type = "array" -> Cardinality(Direct(i))
                               [] tokens[i].type = "object" -> Cardinality(Direct(i)) \div 2
                               [] OTHER -> IF IsKey(i) THEN 1 ELSE 0

\* An error says what is the case.
SaysWhatIsWrong ==
    /\ ret = NOMEM => Cardinality(Spans(len)) > pool
    /\ ret = PART => Mode[len] \in {"string", "escape"} \/ Nesting(len) > 0
    /\ ret = INVAL => ~Json!BeginsJson(Given, 5)
    /\ ret = "done" /\ Json!IsJson(Given, 5) => count = Cardinality(Spans(len))

\* However the text was cut and however often the pool had to be enlarged, the tokens are those of
\* the text, each once and in their order, and the count is how many there are;
\* their sizes are those of the JSON, and an error is returned only when it is one.
TokensAreTheTexts == TokensAreTheSpans /\ SizesAreRight /\ SaysWhatIsWrong
=============================================================================
