-------------------------------- MODULE StrOpr --------------------------------
(***************************************************************************)
(* The string functions of str_opr.c. Those that work in place are here    *)
(* with the memory they work in, cells of which one holds the NUL that     *)
(* ends the string; the others return what they wrote. One step of this    *)
(* module is one call.                                                     *)
(*                                                                         *)
(* A size src_len below the run of characters to trim makes an unsigned    *)
(* difference wrap and is not called with, and neither is a replacement    *)
(* that holds a character to be replaced, which never ends.                *)
(***************************************************************************)
EXTENDS Integers, Sequences, SequencesExt, FiniteSetsExt

CONSTANTS
    Strings,      \* the strings that are edited in place
    Spare,        \* what the cells behind the NUL hold, a sequence
    Chars,        \* the characters a call is given
    Lengths,      \* the sizes a call is given
    Spliters,     \* the short strings a call is given, not empty
    Sources,      \* the strings that are split and searched
    Addresses,    \* the texts of IP addresses, in numbers and DOT
    Queries,      \* the queries; two digits follow a % in them
    Ascii,        \* the codes of the characters of a query
    Urls,         \* the texts of URLs behind their scheme
    Masks,        \* what a dump shows, sets of the SHOW_ names below
    Rooms,        \* the sizes of the buffer a dump goes to, at least 1
    LINE          \* the bytes in a line of a dump, 16 in the code

NUL == ""
Blanks == {" ", "\t", "\r", "\n"}
DOT == -1

VARIABLES
    mem,       \* the memory
    given,     \* what it held before the call
    call,      \* the call: its function and its arguments
    returned   \* what it returned

vars == <<mem, given, call, returned>>

strlen(m) == SelectInSeq(m, LAMBDA c : c = NUL) - 1
Str(m) == SubSeq(m, 1, strlen(m))
Poke(m, at, s) == [k \in 1..Len(m) |-> IF k \in at..(at + Len(s) - 1) THEN s[k - at + 1] ELSE m[k]]

\* The run of characters of S that s begins with, or ends with.
LeadRun(s, S) == LET k == SelectInSeq(s, LAMBDA c : c \notin S) IN IF k = 0 THEN Len(s) ELSE k - 1
TailRun(s, S) == Len(s) - SelectLastInSeq(s, LAMBDA c : c \notin S)

\* src_len: 0 is all, more than there is too.
SrcLen(m, n) == IF n = 0 \/ n > strlen(m) THEN strlen(m) ELSE n

(***************************************************************************)
(* Trimming.                                                               *)
(***************************************************************************)
l_count_c(m, c) == LeadRun(Str(m), {c})
r_count_c(m, c) == TailRun(Str(m), {c})

\* As l_trim_c, without the NUL behind what was moved.
l_trim_cUnended(m, c, n) ==
    LET pass == l_count_c(m, c)
    IN  [mem |-> Poke(m, 1, SubSeq(m, pass + 1, SrcLen(m, n))), ret |-> pass]

\* Only a string with something to trim is also cut to its src_len.
l_trim_c(m, c, n) ==
    LET pass == l_count_c(m, c)
    IN  IF pass = 0 THEN [mem |-> m, ret |-> 0]
        ELSE [mem |-> Poke(m, 1, SubSeq(m, pass + 1, SrcLen(m, n)) \o <<NUL>>), ret |-> pass]

r_trim_c(m, c, n) ==
    LET len == SrcLen(m, n)
        pass == TailRun(SubSeq(m, 1, len), {c})
        cut == IF len < strlen(m) THEN Poke(m, len + 1, <<NUL>>) ELSE m
    IN  IF strlen(m) = 0 THEN [mem |-> m, ret |-> 0]
        ELSE [mem |-> Poke(cut, (len - pass) + 1, [k \in 1..pass |-> NUL]), ret |-> pass]

trim_c(m, c, n) ==
    LET left == l_trim_c(m, c, n)
        both == r_trim_c(left.mem, c, n)
    IN  [mem |-> both.mem, ret |-> left.ret + both.ret]

trim_blank(m, n) ==
    LET lead == LeadRun(Str(m), Blanks)
        len == SrcLen(m, n) - lead
        tail == TailRun(SubSeq(m, lead + 1, lead + len), Blanks)
        moved == Poke(m, 1, SubSeq(m, lead + 1, lead + len) \o <<NUL>>)
    IN  IF strlen(m) = 0 THEN [mem |-> m, ret |-> 0]
        ELSE [mem |-> Poke(moved, (len - tail) + 1, [k \in 1..tail |-> NUL]), ret |-> lead + tail]

isCommentLine(m) == LET lead == LeadRun(Str(m), Blanks) IN lead = strlen(m) \/ m[lead + 1] = "#"

(***************************************************************************)
(* Replacing.                                                              *)
(***************************************************************************)
Mapped(m, Of(_)) == Poke(m, 1, [k \in 1..strlen(m) |-> Of(m[k])])
Many(m, S) == Cardinality({k \in 1..strlen(m) : m[k] \in S})

\* The src_len is computed and not used.
replace_c(m, from, to) ==
    [mem |-> Mapped(m, LAMBDA c : IF c = from THEN to ELSE c), ret |-> Many(m, {from})]

\* strpbrk finds the first of them that is left, as long as there is one.
replace_chars_with_char(m, storm, to) ==
    [mem |-> Mapped(m, LAMBDA c : IF c \in storm THEN to ELSE c), ret |-> Many(m, storm)]

Upper(c) == CASE c = "a" -> "A" [] c = "b" -> "B" [] OTHER -> c
Lower(c) == CASE c = "A" -> "a" [] c = "B" -> "b" [] OTHER -> c
Cased(m, Of(_)) == IF strlen(m) = 0 THEN [mem |-> m, ret |-> -1] ELSE [mem |-> Mapped(m, Of), ret |-> strlen(m)]
ez_ascii_string_toupper(m) == Cased(m, Upper)
ez_ascii_string_tolower(m) == Cased(m, Lower)

\* The first place at or behind p where w stands in s, or 0.
strstr(s, p, w) == LET at == {k \in p..(Len(s) - Len(w) + 1) : SubSeq(s, k, k + Len(w) - 1) = w}
                   IN  IF at = {} THEN 0 ELSE Min(at)

\* ptr goes on behind what was put in; what is behind the place is moved, its NUL too.
replace_chars_with_chars(m, s1, s2) ==
    LET next(r) ==
            LET at == strstr(Str(r.mem), r.ptr, s1)
                rest == SubSeq(r.mem, at + Len(s1), strlen(r.mem) + 1)
            IN  IF at = 0 THEN r
                ELSE [mem |-> Poke(Poke(r.mem, at + Len(s2), rest), at, s2), ptr |-> at + Len(s2)]
    IN  [mem |-> FoldLeft(LAMBDA r, c : next(r), [mem |-> m, ptr |-> 1], m).mem, ret |-> 0]

(***************************************************************************)
(* Splitting and searching: s is the string that is read.                  *)
(***************************************************************************)
CutTo(s, n) == IF n = 0 \/ n > Len(s) THEN s ELSE SubSeq(s, 1, n)

\* Without a spliter in the part, left is all of s, beyond src_len too.
split_str(s, w, n) ==
    LET part == CutTo(s, n)
        p == strstr(part, 1, w)
    IN  IF s = <<>> THEN [ret |-> -1000]
        ELSE IF p = 0 THEN [ret |-> 0, left |-> s, right |-> <<>>]
        ELSE [ret |-> 0, left |-> SubSeq(part, 1, p - 1), right |-> SubSeq(part, p + Len(w), Len(part))]

r_split_str(s, w, n) ==
    LET part == CutTo(s, n)
        p == strstr(part, 1, w)
    IN  IF s = <<>> THEN [ret |-> -1000]
        ELSE IF p = 0 THEN [ret |-> -1, right |-> <<>>]
        ELSE [ret |-> 0, right |-> SubSeq(part, p + Len(w), Len(part))]

\* What stands between two marks, into a destination of room; no NUL is put behind it.
m_split_str(s, room, begin, end) ==
    LET startP == strstr(s, 1, begin)
        endP == strstr(s, startP + Len(begin), end)
        size == endP - (startP + Len(begin))
    IN  IF \/ s = <<>> \/ room < 1 \/ Len(s) <= Len(begin) + Len(end)
           \/ startP = 0 \/ endP = 0 \/ size > room
        THEN [ret |-> 0, dst |-> <<>>]
        ELSE [ret |-> size, dst |-> SubSeq(s, startP + Len(begin), endP - 1)]

\* The value behind a field and one character more, as far as its line goes.
ez_get_ext_value(s, field, room) ==
    LET pFieldBegin == strstr(s, 1, field)
        newline == strstr(s, pFieldBegin, <<"\n">>)
        pFieldEnd == IF newline = 0 THEN Len(s) + 1 ELSE newline
        begin == pFieldBegin + Len(field) + 1
        size == pFieldEnd - begin
        value == SubSeq(s, begin, pFieldEnd - 1)
    IN  IF pFieldBegin = 0 \/ size <= 0 THEN [ret |-> -1]
        ELSE IF size >= room THEN [ret |-> -3]
        ELSE IF Last(value) = "\r" THEN [ret |-> size - 1, value |-> Front(value)]
        ELSE [ret |-> size, value |-> value]

(***************************************************************************)
(* The parameter of a query, of ez_http_query_parser.c.                    *)
(***************************************************************************)
ToHex(c) == IF Ascii[c] \in 48..57 THEN Ascii[c] - 48 ELSE (Ascii[c] - 65) + 10

\* The codes of the characters as far as the next pair.
Value[t \in Seq(DOMAIN Ascii)] ==
    IF t = <<>> \/ t[1] = "&" THEN <<>>
    ELSE IF t[1] = "%" THEN <<(ToHex(t[2]) * 16 + ToHex(t[3])) % 256>> \o Value[SubSeq(t, 4, Len(t))]
    ELSE <<IF t[1] = "+" THEN 32 ELSE Ascii[t[1]]>> \o Value[Tail(t)]

\* Only the first place where the name stands is looked at.
ez_getParam_HttpQuery(s, name) ==
    LET pos1 == strstr(s, 1, name) + Len(name)
    IN  IF strstr(s, 1, name) = 0 \/ SubSeq(s, pos1, Min({pos1, Len(s)})) # <<"=">> THEN [ret |-> 0, codes |-> <<>>]
        ELSE [ret |-> 0, codes |-> Value[SubSeq(s, pos1 + 1, Len(s))]]

(***************************************************************************)
(* The host and the port of a URL, behind its scheme.                      *)
(***************************************************************************)
Digits == {"0", "1"}
atoi(s) == FoldLeft(LAMBDA v, c : 10 * v + (IF c = "1" THEN 1 ELSE 0), 0, SubSeq(s, 1, LeadRun(s, Digits)))

\* A colon ends the host wherever it stands, then a slash; a host begins with a digit.
__ez_parse_http_url(s) ==
    LET colon == strstr(s, 1, <<":">>)
        slash == strstr(s, 1, <<"/">>)
        end == IF colon # 0 THEN colon ELSE IF slash # 0 THEN slash ELSE Len(s) + 1
    IN  IF end = 1 \/ s[1] \notin Digits THEN [ret |-> -1]
        ELSE [ret |-> 0, host |-> SubSeq(s, 1, end - 1),
              port |-> IF colon # 0 THEN atoi(SubSeq(s, colon + 1, Len(s))) ELSE 80]

\* The text holds a slash; one without is outside of what the function can take.
__ez_prase_rtsp_url(s) ==
    LET host == SubSeq(s, 1, strstr(s, 1, <<"/">>) - 1)
        colon == strstr(host, 1, <<":">>)
    IN  [ret |-> 0, host |-> IF colon = 0 THEN host ELSE SubSeq(host, 1, colon - 1),
         port |-> IF colon = 0 THEN 554 ELSE atoi(SubSeq(host, colon + 1, Len(host)))]

(***************************************************************************)
(* IP addresses: a number is its bytes, the lowest first.                  *)
(***************************************************************************)
Ip2Str(ip) == <<ip[1], DOT, ip[2], DOT, ip[3], DOT, ip[4]>>

\* The number at place k of an address, 0 where there is none; a byte of it is kept.
NumberAt(t, k) == IF k > Len(t) \/ t[k] = DOT THEN 0 ELSE t[k] % 256

Str2Ip(t) ==
    LET dots == {k \in 1..Len(t) : t[k] = DOT}
        behind(j) == CHOOSE k \in dots : Cardinality({i \in dots : i <= k}) = j
    IN  [j \in 1..4 |-> IF j = 1 THEN NumberAt(t, 1)
                        ELSE IF j - 1 > Cardinality(dots) THEN 0 ELSE NumberAt(t, behind(j - 1) + 1)]

isPrivateIPAddress(t) ==
    LET ip == Str2Ip(t)
    IN  \/ ip[1] = 10
        \/ ip[1] = 172 /\ ip[2] \in 16..31
        \/ ip[1] = 192 /\ ip[2] = 168
        \/ ip[1] \in 1..126 /\ ip[1] # 58

(***************************************************************************)
(* Dumps: a text is the pieces it is printed in, each with its length.     *)
(***************************************************************************)
Piece(what, length, fault) == [what |-> what, length |-> length, fault |-> fault]

LineOf(len, line, mask) ==
    LET first == LINE * (line - 1) + 1
        bytes == [k \in 1..LINE |-> IF first + k - 1 <= len THEN Piece("byte", 3, -102) ELSE Piece("gap", 3, -103)]
        shown == [k \in 1..Cardinality(first..len \cap first..(first + LINE - 1)) |-> Piece("char", 1, -105)]
    IN  (IF "SHOW_LINER" \in mask THEN <<Piece("line", 6, -100)>> ELSE <<>>)
        \o (IF "SHOW_HEXAD" \in mask THEN <<Piece("place", 10, -101)>> ELSE <<>>)
        \o (IF "SHOW_BINAR" \in mask THEN bytes ELSE <<>>)
        \o (IF "SHOW_ASCII" \in mask THEN <<Piece("bar", 2, -104)>> \o shown ELSE <<>>)
        \o <<Piece("end", 1, -107)>>

TotalLine(len, mask) == IF mask = {} THEN 0 ELSE len \div LINE + (IF len % LINE = 0 THEN 0 ELSE 1)

\* To a file, all of it.
dumpBuffer(len, mask) ==
    [ret |-> TotalLine(len, mask), text |-> FlattenSeq([k \in 1..TotalLine(len, mask) |-> LineOf(len, k, mask)])]

\* To memory, a piece at a time as long as it fits with its NUL.
dumpBuffer2Buffer(len, mask, room) ==
    FoldLeft(LAMBDA r, p : IF r.ret < 0 THEN r
                           ELSE IF r.size + p.length > room - 1 THEN [r EXCEPT !.ret = p.fault]
                           ELSE [r EXCEPT !.size = r.size + p.length, !.text = Append(r.text, p)],
             [ret |-> TotalLine(len, mask), size |-> 0, text |-> <<>>], dumpBuffer(len, mask).text)

(***************************************************************************)
(* The calls.                                                              *)
(***************************************************************************)
Init ==
    /\ \E s \in Strings \cup Sources \cup Queries \cup Urls : mem = s \o <<NUL>> \o Spare
    /\ given = mem
    /\ call = [fn |-> "none"]
    /\ returned = [ret |-> 0]

Edits(op, r) ==
    /\ call.fn = "none" /\ Str(mem) \in Strings
    /\ call' = op /\ mem' = r.mem /\ returned' = [ret |-> r.ret] /\ given' = mem

Reads(S, op, r) ==
    /\ call.fn = "none" /\ Str(mem) \in S
    /\ call' = op /\ returned' = r /\ UNCHANGED <<mem, given>>

LongEnough(n, S) == n = 0 \/ n >= LeadRun(Str(mem), S)

TrimLeft == \E c \in Chars, n \in Lengths :
    LongEnough(n, {c}) /\ Edits([fn |-> "l_trim_c", c |-> c, n |-> n], l_trim_c(mem, c, n))
TrimRight == \E c \in Chars, n \in Lengths :
    Edits([fn |-> "r_trim_c", c |-> c, n |-> n], r_trim_c(mem, c, n))
Trim == \E c \in Chars, n \in Lengths :
    LongEnough(n, {c}) /\ Edits([fn |-> "trim_c", c |-> c, n |-> n], trim_c(mem, c, n))
TrimBlank == \E n \in Lengths :
    LongEnough(n, Blanks) /\ Edits([fn |-> "trim_blank", n |-> n], trim_blank(mem, n))
ReplaceChar == \E from, to \in Chars :
    Edits([fn |-> "replace_c", from |-> from, to |-> to], replace_c(mem, from, to))
ReplaceChars == \E storm \in SUBSET Chars : \E to \in Chars \ storm :
    Edits([fn |-> "replace_chars_with_char", storm |-> storm, to |-> to], replace_chars_with_char(mem, storm, to))
ReplaceStrings == \E s1, s2 \in Spliters :
    /\ (strlen(mem) \div Len(s1)) * Len(s2) < Len(mem) - strlen(mem)     \* there is memory for it
    /\ Edits([fn |-> "replace_chars_with_chars", s1 |-> s1, s2 |-> s2], replace_chars_with_chars(mem, s1, s2))
Case ==
    \/ Edits([fn |-> "ez_ascii_string_toupper"], ez_ascii_string_toupper(mem))
    \/ Edits([fn |-> "ez_ascii_string_tolower"], ez_ascii_string_tolower(mem))

Comment == Reads(Strings, [fn |-> "isCommentLine"], [is |-> isCommentLine(mem)])
Split == \E w \in Spliters, n \in Lengths :
    \/ Reads(Sources, [fn |-> "split_str", w |-> w, n |-> n], split_str(Str(mem), w, n))
    \/ Reads(Sources, [fn |-> "r_split_str", w |-> w, n |-> n], r_split_str(Str(mem), w, n))
Between == \E w, e \in Spliters, n \in Lengths :
    Reads(Sources, [fn |-> "m_split_str", w |-> w, e |-> e, n |-> n], m_split_str(Str(mem), n, w, e))
ExtValue == \E w \in Spliters, n \in Lengths :
    Reads(Sources, [fn |-> "ez_get_ext_value", w |-> w, n |-> n], ez_get_ext_value(Str(mem), w, n))
Param == \E w \in Spliters :
    Reads(Queries, [fn |-> "ez_getParam_HttpQuery", w |-> w], ez_getParam_HttpQuery(Str(mem), w))
Url ==
    \/ Reads(Urls, [fn |-> "__ez_parse_http_url"], __ez_parse_http_url(Str(mem)))
    \/ /\ strstr(Str(mem), 1, <<"/">>) # 0
       /\ Reads(Urls, [fn |-> "__ez_prase_rtsp_url"], __ez_prase_rtsp_url(Str(mem)))

Address == \E t \in Addresses :
    \/ Reads({<<>>}, [fn |-> "Str2Ip", t |-> t], [ip |-> Str2Ip(t), again |-> Ip2Str(Str2Ip(t))])
    \/ Reads({<<>>}, [fn |-> "isPrivateIPAddress", t |-> t], [is |-> isPrivateIPAddress(t)])
Dump == \E len \in Lengths, mask \in Masks :
    \/ Reads({<<>>}, [fn |-> "dumpBuffer", len |-> len, mask |-> mask], dumpBuffer(len, mask))
    \/ \E room \in Rooms : Reads({<<>>}, [fn |-> "dumpBuffer2Buffer", len |-> len, mask |-> mask, room |-> room],
                                 dumpBuffer2Buffer(len, mask, room))

Next ==
    \/ TrimLeft \/ TrimRight \/ Trim \/ TrimBlank
    \/ ReplaceChar \/ ReplaceChars \/ ReplaceStrings \/ Case
    \/ Comment \/ Split \/ Between \/ ExtValue \/ Param \/ Url \/ Address \/ Dump
-----------------------------------------------------------------------------
(***************************************************************************)
(* What each call must make of the string that was there.                  *)
(***************************************************************************)
Was == Str(given)
Is == Str(mem)
Part(n) == IF n = 0 \/ n > Len(Was) THEN Was ELSE SubSeq(Was, 1, n)
Lacks(t, w) == \A k \in 1..(Len(t) - Len(w) + 1) : SubSeq(t, k, k + Len(w) - 1) # w

\* t is what is left of s without the characters of S at the ends named.
IsTrimmed(t, s, S, ends) ==
    \E i \in 0..Len(s) : \E j \in i..Len(s) :
        /\ t = SubSeq(s, i + 1, j)
        /\ \A k \in 1..i : "left" \in ends /\ s[k] \in S
        /\ \A k \in (j + 1)..Len(s) : "right" \in ends /\ s[k] \in S
        /\ t # <<>> => ("left" \in ends => Head(t) \notin S) /\ ("right" \in ends => Last(t) \notin S)

TrimsTheEnds ==
    /\ call.fn = "l_trim_c" =>
           IF Head(given) = call.c THEN IsTrimmed(Is, Part(call.n), {call.c}, {"left"}) ELSE Is = Was
    /\ call.fn = "r_trim_c" => IsTrimmed(Is, Part(call.n), {call.c}, {"right"})
    /\ call.fn = "trim_c" => IsTrimmed(Is, Part(call.n), {call.c}, {"left", "right"})
    /\ call.fn = "trim_blank" => IsTrimmed(Is, Part(call.n), Blanks, {"left", "right"})
    /\ call.fn \in {"l_trim_c", "r_trim_c", "trim_c", "trim_blank"} =>
           IF call.n = 0 THEN returned.ret = Len(Was) - Len(Is) ELSE returned.ret <= Len(Was) - Len(Is)
    /\ call.fn = "isCommentLine" =>
           (returned.is <=> \E t \in Suffixes(Was) : IsTrimmed(t, Was, Blanks, {"left"}) /\ (t = <<>> \/ Head(t) = "#"))

Replaced[s \in Seq(STRING)] ==
    IF s = <<>> THEN <<>>
    ELSE IF IsPrefix(call.s1, s) THEN call.s2 \o Replaced[SubSeq(s, Len(call.s1) + 1, Len(s))]
    ELSE <<Head(s)>> \o Replaced[Tail(s)]

ReplacesAll ==
    /\ call.fn = "replace_chars_with_chars" => Is = Replaced[Was]
    /\ call.fn = "replace_c" /\ call.from # call.to => Lacks(Is, <<call.from>>)
    /\ call.fn = "replace_chars_with_char" => \A c \in call.storm : Lacks(Is, <<c>>)
    /\ call.fn \in {"replace_c", "replace_chars_with_char"} =>
           /\ Len(Is) = Len(Was)
           /\ Is # Was => returned.ret = Cardinality({k \in 1..Len(Was) : Is[k] # Was[k]})

\* No cell behind the end of the longer of the strings is written; but a replacement moves the end to and fro.
StaysInTheString ==
    call.fn # "replace_chars_with_chars" => \A k \in (Len(Was) + 2)..Len(mem) : mem[k] = given[k]

SplitsAt(l, w, r, s) == l \o w \o r = s /\ Lacks(l \o Front(w), w)

SplitsAtTheFirst ==
    /\ call.fn = "split_str" /\ returned.ret = 0 =>
           \/ SplitsAt(returned.left, call.w, returned.right, Part(call.n))
           \/ returned.left = Was /\ returned.right = <<>> /\ Lacks(Part(call.n), call.w)
    /\ call.fn = "r_split_str" /\ returned.ret = 0 =>
           \E l \in Prefixes(Was) : SplitsAt(l, call.w, returned.right, Part(call.n))
    /\ call.fn = "m_split_str" /\ returned.ret > 0 =>
           /\ returned.ret = Len(returned.dst) /\ returned.ret <= call.n
           /\ \E l \in Prefixes(Was), r \in Suffixes(Was) :
                  SplitsAt(l, call.w, returned.dst \o call.e \o r, Was) /\ Lacks(returned.dst \o Front(call.e), call.e)
    /\ call.fn = "ez_get_ext_value" /\ returned.ret >= 0 =>
           /\ returned.ret = Len(returned.value) /\ returned.ret < call.n /\ Lacks(returned.value, <<"\n">>)
           /\ \E l \in Prefixes(Was), r \in Suffixes(Was) : \E k \in 1..Len(Was) :
                  /\ l \o call.w \o <<Was[k]>> \o returned.value \o r = Was
                  /\ r = <<>> \/ Head(r) \in {"\r", "\n"}

Digit(n) == <<"0", "1", "2", "3", "4", "5", "6", "7", "8", "9", "A", "B", "C", "D", "E", "F">>[n + 1]

\* t is a form in which the codes may have been written.
Writes[codes \in Seq(Nat), t \in Seq(STRING)] ==
    IF codes = <<>> THEN t = <<>>
    ELSE \/ t # <<>> /\ Head(t) \notin {"%", "+", "&"} /\ Ascii[Head(t)] = Head(codes) /\ Writes[Tail(codes), Tail(t)]
         \/ t # <<>> /\ Head(t) = "+" /\ Head(codes) = Ascii[" "] /\ Writes[Tail(codes), Tail(t)]
         \/ Len(t) > 2 /\ Head(t) = "%" /\ Digit(Head(codes) \div 16) = t[2] /\ Digit(Head(codes) % 16) = t[3]
                /\ Writes[Tail(codes), SubSeq(t, 4, Len(t))]

FindsTheParts ==
    /\ call.fn = "ez_getParam_HttpQuery" /\ returned.codes # <<>> =>
           \E l, t \in Prefixes(Was) :
               LET v == SubSeq(t, Len(l) + Len(call.w) + 2, Len(t))
               IN  /\ l \o call.w \o <<"=">> \o v = t
                   /\ t = Was \/ Was[Len(t) + 1] = "&"
                   /\ Writes[returned.codes, v]
    /\ call.fn = "Str2Ip" /\ Len(call.t) = 7 /\ Max(ToSet(call.t)) < 256 => returned.again = call.t
    /\ call.fn = "isPrivateIPAddress" /\ Len(call.t) = 7 =>
           /\ SubSeq(call.t, 1, 3) \in {<<172, DOT, n>> : n \in 16..31} \cup {<<192, DOT, 168>>} => returned.is
           /\ call.t[1] = 10 => returned.is
           /\ call.t[1] \in {58, 127} => ~returned.is
    /\ call.fn \in {"__ez_parse_http_url", "__ez_prase_rtsp_url"} /\ returned.ret = 0 =>
           \E rest \in Suffixes(Was) :
               /\ returned.host \o rest = Was /\ Lacks(returned.host, <<":">>)
               /\ IF rest = <<>> \/ Head(rest) = "/"
                  THEN returned.port = IF call.fn = "__ez_parse_http_url" THEN 80 ELSE 554
                  ELSE Head(rest) = ":" /\ returned.port = atoi(Tail(rest))

LengthOf(t) == FoldLeft(LAMBDA n, p : n + p.length, 0, t)

DumpsWhatFits ==
    call.fn = "dumpBuffer2Buffer" =>
        LET all == dumpBuffer(call.len, call.mask)
        IN  /\ IsPrefix(returned.text, all.text) /\ LengthOf(returned.text) < call.room
            /\ IF LengthOf(all.text) < call.room THEN returned.ret = all.ret /\ returned.text = all.text
               ELSE returned.ret < 0

\* Every call makes of the string what it promises, within the string's own memory and the room given.
StringsAreRight ==
    TrimsTheEnds /\ ReplacesAll /\ StaysInTheString /\ SplitsAtTheFirst /\ FindsTheParts /\ DumpsWhatFits
=============================================================================
