----------------------------- MODULE JsonGrammar -----------------------------
(***************************************************************************)
(* The JSON of json.org whose text is an object or an array, as a grammar  *)
(* over a text of characters.  A phrase takes the set of places where it   *)
(* may begin to the set of places where it may end; a phrase that the end  *)
(* of the text cuts short ends at RanOut.  At most `nest' brackets may be  *)
(* open at a time.                                                         *)
(***************************************************************************)
EXTENDS Integers, Sequences

White == {" ", "\t"}
NonZero == {"1", "9"}
Digit == NonZero \cup {"0"}
Hex == Digit \cup {"a", "b", "e", "f", "A", "E"}
Control == {"\t", "NUL"}

End(t) == Len(t) + 1
RanOut(t) == Len(t) + 2

\* One character of S.
One(t, P, S) ==
    {p + 1 : p \in {q \in P : q <= Len(t) /\ t[q] \in S}}
        \cup (IF \E p \in P : p > Len(t) THEN {RanOut(t)} ELSE {})

RECURSIVE Many(_, _, _), Word(_, _, _), Characters(_, _), Value(_, _, _), Elements(_, _, _), Members(_, _, _)

Many(t, P, S) == LET Q == P \cup One(t, P, S) IN IF Q = P THEN P ELSE Many(t, Q, S)
Word(t, P, w) == IF w = <<>> THEN P ELSE Word(t, One(t, P, {Head(w)}), Tail(w))

Blank(t, P) == Many(t, P, White)
Maybe(t, P, S) == P \cup One(t, P, S)
Digits(t, P) == Many(t, One(t, P, Digit), Digit)

Number(t, P) ==
    LET minus == Maybe(t, P, {"-"})
        int == One(t, minus, {"0"}) \cup Many(t, One(t, minus, NonZero), Digit)
        frac == int \cup Digits(t, One(t, int, {"."}))
    IN  frac \cup Digits(t, Maybe(t, One(t, frac, {"e", "E"}), {"+", "-"}))

Escape(t, P) ==
    LET back == One(t, P, {"\\"})
        hex(Q) == One(t, Q, Hex)
    IN  One(t, back, {"\"", "\\", "/", "b", "f", "n", "r", "t"}) \cup hex(hex(hex(hex(One(t, back, {"u"})))))

Plain(t, P) ==
    LET said == {t[q] : q \in {q \in P : q <= Len(t)}}
    IN  One(t, P, said \ ({"\"", "\\"} \cup Control))

Characters(t, P) ==
    LET Q == P \cup Plain(t, P) \cup Escape(t, P) IN IF Q = P THEN P ELSE Characters(t, Q)

String(t, P) == One(t, Characters(t, One(t, P, {"\""})), {"\""})

\* After an element, a comma and another one, as often as wanted.
Elements(t, P, nest) ==
    LET one == Blank(t, Value(t, Blank(t, P), nest))
    IN  IF one \ {RanOut(t)} = {} THEN one ELSE one \cup Elements(t, One(t, one, {","}) \ {RanOut(t)}, nest)

Members(t, P, nest) ==
    LET key == Blank(t, String(t, Blank(t, P)))
        one == Blank(t, Value(t, Blank(t, One(t, key, {":"})), nest))
    IN  IF one \ {RanOut(t)} = {} THEN one ELSE one \cup Members(t, One(t, one, {","}) \ {RanOut(t)}, nest)

Composite(t, P, nest) ==
    LET array == One(t, P, {"["})
        object == One(t, P, {"{"})
    IN  IF nest = 0 THEN {}
        ELSE One(t, Blank(t, array) \cup (IF array = {} THEN {} ELSE Elements(t, array, nest - 1)), {"]"})
             \cup One(t, Blank(t, object) \cup (IF object = {} THEN {} ELSE Members(t, object, nest - 1)), {"}"})

Value(t, P, nest) ==
    LET here == {p \in P : p <= Len(t)}
        values == Number(t, here) \cup String(t, here) \cup Composite(t, here, nest)
                  \cup Word(t, here, <<"t", "r", "u", "e">>) \cup Word(t, here, <<"f", "a", "l", "s", "e">>)
                  \cup Word(t, here, <<"n", "u", "l", "l">>)
    IN  (IF here = {} THEN {} ELSE values) \cup (IF here = P THEN {} ELSE {RanOut(t)})

Text(t, nest) == Blank(t, Composite(t, Blank(t, {1}), nest))

\* t is a JSON text, and t is the beginning of one.
IsJson(t, nest) == End(t) \in Text(t, nest)
BeginsJson(t, nest) == \E p \in Text(t, nest) : p > Len(t)
=============================================================================
