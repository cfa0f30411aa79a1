------------------------------- MODULE Encodings -------------------------------
(***************************************************************************)
(* The text encodings of binary data: base64.c, base58.c and libbase58.c,  *)
(* and the BCD of str_opr.c.  They keep no state; one step of this module  *)
(* encodes some data and the next decodes what came of it.                 *)
(*                                                                         *)
(* A character of an encoded text is the number of the digit it stands     *)
(* for; PAD and BAD are characters that stand for none.                    *)
(***************************************************************************)
EXTENDS Integers, Sequences, SequencesExt, FiniteSetsExt

CONSTANTS
    Data,          \* what is encoded, sequences of bytes
    Texts,         \* what is decoded without having been encoded
    Rooms,         \* sizes of the buffer
    WORD,          \* the bytes of a word of b58tobin, 4 in the code
    DoubleSha(_)   \* the first four bytes of the SHA-256 of the SHA-256, external

PAD == 64
BAD == 65

\* The first place where s is not in S, or the one behind the end.
FirstNot(s, S) ==
    LET k == SelectInSeq(s, LAMBDA b : b \notin S) IN IF k = 0 THEN Len(s) + 1 ELSE k

Behind(s, k) == SubSeq(s, k + 1, Len(s))
Zeros(n) == [k \in 1..n |-> 0]

(***************************************************************************)
(* base64.c.                                                               *)
(***************************************************************************)
ez_base64encode_len(len) == ((len + 2) \div 3) * 4 + 1

Quad(a, b, c) == <<a \div 4, (a % 4) * 16 + b \div 16, (b % 16) * 4 + c \div 64, c % 64>>

\* The value returned counts the NUL.
ez_base64encode(s) ==
    LET groups == Len(s) \div 3
        left == Len(s) % 3
        whole == FlattenSeq([g \in 1..groups |-> Quad(s[3 * g - 2], s[3 * g - 1], s[3 * g])])
        tail == CASE left = 0 -> <<>>
                  [] left = 1 -> SubSeq(Quad(Last(s), 0, 0), 1, 2) \o <<PAD, PAD>>
                  [] left = 2 -> SubSeq(Quad(s[Len(s) - 1], Last(s), 0), 1, 3) \o <<PAD>>
    IN  [ret |-> Len(whole \o tail) + 1, out |-> whole \o tail]

\* How many characters come before the first that stands for no digit.
nprbytes(t) == FirstNot(t, 0..63) - 1
ez_base64decode_len(t) == ((nprbytes(t) + 3) \div 4) * 3 + 1

checkBase64EncodedString(t) == IF t = <<>> THEN -1 ELSE IF \E k \in 1..Len(t) : t[k] = BAD THEN -2 ELSE 0

Triple(a, b, c, d) == <<(a * 4 + b \div 16) % 256, (b * 16 + c \div 4) % 256, (c * 64 + d) % 256>>

\* Groups of four while more than four are left; of what is left, as many bytes as it determines.
ez_base64decode(t) ==
    LET n == nprbytes(t)
        groups == IF n = 0 THEN 0 ELSE (n - 1) \div 4
        left == n - 4 * groups
        last == SubSeq(t, 4 * groups + 1, n) \o Zeros(4)
        bytes == FlattenSeq([g \in 1..groups |-> Triple(t[4 * g - 3], t[4 * g - 2], t[4 * g - 1], t[4 * g])])
                 \o SubSeq(Triple(last[1], last[2], last[3], last[4]), 1, IF left > 1 THEN left - 1 ELSE 0)
    IN  IF checkBase64EncodedString(t) < 0 THEN [ret |-> -1, out |-> <<>>]
        ELSE [ret |-> ((n + 3) \div 4) * 3 - ((4 - left) % 4), out |-> bytes]

(***************************************************************************)
(* base58.c: the digits are kept with the least one first.                 *)
(***************************************************************************)
\* carry + from * digit, digit by digit in base to; and what is then still carried.
Multiplied(digits, carry, from, to) ==
    FoldLeft(LAMBDA r, d : [digits |-> Append(r.digits, (r.carry + from * d) % to),
                            carry |-> (r.carry + from * d) \div to],
             [digits |-> <<>>, carry |-> carry], digits)

\* As Carried, with one digit of the carry only.
CarriedOnce(digits, carry, to) == IF carry = 0 THEN digits ELSE Append(digits, carry % to)

\* The while loop puts a digit of the carry at a time, as long as there is room for it.
Carried(digits, carry, to) ==
    LET more[c \in Nat] == IF c = 0 THEN <<>> ELSE <<c % to>> \o more[c \div to] IN digits \o more[carry]

NextDigit(digits, d, from, to) == LET m == Multiplied(digits, d, from, to) IN Carried(m.digits, m.carry, to)

\* The number s stands for, its first digit the greatest.
ValueOf(s, base) == FoldLeft(LAMBDA v, d : base * v + d, 0, s)

Leading(s) == FirstNot(s, {0}) - 1

Converted(s, room, from, to) ==
    LET body == Behind(s, Leading(s))
        digits == FoldLeft(LAMBDA r, d : NextDigit(r, d, from, to), <<>>, body)
        out == Zeros(Leading(s)) \o Reverse(digits)
    IN  IF s = <<>> THEN [ret |-> 0, out |-> <<>>]
        ELSE IF room = 0 \/ Len(out) > room THEN [ret |-> -1, out |-> <<>>]
        ELSE [ret |-> 0, out |-> out]

base58_encode(s, room) == Converted(s, room, 256, 58)

\* What stands behind a bad character is not reached; a result without room is refused either way.
base58_decode(t, room) ==
    IF FirstNot(t, 0..57) <= Len(t) THEN [ret |-> IF t = <<>> THEN 0 ELSE -1, out |-> <<>>]
    ELSE Converted(t, room, 58, 256)

base58_encode_length(n) == (n * 137) \div 100 + 1
base58_decode_length(n) == (2 * 100 * n + 137) \div (2 * 137)

(***************************************************************************)
(* libbase58.c.                                                            *)
(***************************************************************************)
\* One byte into buf: from its end, over what is in use and as far as the carry goes, and never
\* past its first digit.
CarryIn(buf, high, byte) ==
    LET step[j \in Nat] ==     \* what is carried into the digit j
            IF j = Len(buf) THEN byte ELSE (step[j + 1] + 256 * buf[j + 1]) \div 58
        first == Min({j \in 1..Len(buf) : \A i \in j..Len(buf) : i > high \/ step[i] # 0} \cup {Len(buf) + 1})
    IN  [buf |-> [j \in 1..Len(buf) |-> IF j < first THEN buf[j] ELSE (step[j] + 256 * buf[j]) % 58],
         high |-> IF first > 1 THEN first - 1 ELSE 1]

b58enc(s, b58sz) ==
    LET zcount == Leading(s)
        size == ((Len(s) - zcount) * 138) \div 100 + 1
        end == FoldLeft(LAMBDA r, b : CarryIn(r.buf, r.high, b), [buf |-> Zeros(size), high |-> size],
                        Behind(s, zcount))
        digits == Zeros(zcount) \o Behind(end.buf, Leading(end.buf))
    IN  IF b58sz <= Len(digits) THEN [ok |-> FALSE, b58sz |-> Len(digits) + 1, out |-> <<>>]
        ELSE [ok |-> TRUE, b58sz |-> Len(digits) + 1, out |-> digits]

Base[n \in Nat] == IF n = 0 THEN 1 ELSE 256 * Base[n - 1]
WordBytes(w, n) == [k \in 1..n |-> (w \div Base[n - k]) % 256]

\* outi * 58 + c, the last word first.
Times58(outi, c) ==
    FoldRight(LAMBDA w, r : [outi |-> <<(w * 58 + r.c) % Base[WORD]>> \o r.outi, c |-> (w * 58 + r.c) \div Base[WORD]],
              outi, [outi |-> <<>>, c |-> c])

\* bytesleft of the first word are used: a bit above them is too much.
TooBig(r, bytesleft) == r.c # 0 \/ (bytesleft > 0 /\ r.outi[1] >= Base[bytesleft])

b58tobin(t, binsz) ==
    LET outisz == (binsz + WORD - 1) \div WORD
        bytesleft == binsz % WORD
        ones == Leading(t)
        add(r, d) == IF ~r.ok THEN r
                     ELSE IF d \notin 0..57 THEN [r EXCEPT !.ok = FALSE]
                     ELSE LET m == Times58(r.outi, d)
                          IN  [ok |-> ~TooBig(m, bytesleft), outi |-> m.outi]
        end == FoldLeft(add, [ok |-> TRUE, outi |-> Zeros(outisz)], Behind(t, ones))
        bin == FlattenSeq([j \in 1..outisz |->
                              WordBytes(end.outi[j], IF j = 1 /\ bytesleft > 0 THEN bytesleft ELSE WORD)])
    IN  IF ~end.ok THEN [ok |-> FALSE, out |-> <<>>, binsz |-> binsz]
        ELSE [ok |-> TRUE, out |-> bin, binsz |-> (binsz - Leading(bin)) + ones]

b58check_enc(ver, s, b58sz) == LET d == <<ver>> \o s IN b58enc(d \o DoubleSha(d), b58sz)

b58check(bin, t) ==
    LET data == SubSeq(bin, 1, Len(bin) - 4)
        ones == CHOOSE n \in 0..Len(bin) : /\ \A k \in 1..n : bin[k] = 0 /\ t[k] = 0
                                           /\ n = Len(bin) \/ bin[n + 1] # 0 \/ t[n + 1] # 0
    IN  IF Len(bin) < 4 THEN -4
        ELSE IF Behind(bin, Len(bin) - 4) # DoubleSha(data) THEN -1
        ELSE IF bin[ones + 1] = 0 \/ t[ones + 1] = 0 THEN -3
        ELSE bin[1]

(***************************************************************************)
(* The BCD of str_opr.c.                                                   *)
(***************************************************************************)
\* The last byte first: each takes two digits of what the one behind it left.
ez_dec_2_bcd(dec, length) ==
    LET left[i \in Nat] == IF i = length THEN dec ELSE left[i + 1] \div 100
    IN  [i \in 1..length |-> ((left[i] % 100) \div 10) * 16 + (left[i] % 10)]

ez_bcd_2_dec(bcd) == FoldLeft(LAMBDA dec, b : 100 * dec + (b \div 16) * 10 + (b % 16), 0, bcd)

(***************************************************************************)
(* One caller: encodes what it has into a buffer of the room, then decodes *)
(* what stands there; or decodes a text that came from somewhere else.     *)
(***************************************************************************)
VARIABLES
    coding,    \* the functions used: "base64", "base58", "libbase58", "check", "bcd"
    data,      \* what was encoded
    room,      \* the size of the buffer it goes to
    written,   \* what the encoder wrote, or what came
    answer,    \* what the last call returned
    step       \* "given", "encoded", "decoded", "checked"

vars == <<coding, data, room, written, answer, step>>

Init ==
    /\ coding \in {"base64", "base58", "libbase58", "check", "bcd"}
    /\ \/ data \in Data /\ written = <<>> /\ step = "given"
       \/ data = <<>> /\ written \in Texts /\ step = "encoded" /\ coding \in {"base64", "base58", "libbase58"}
    /\ room \in Rooms
    /\ answer = [out |-> <<>>]

\* The first byte of data is the version of a checked text.
Encoded ==
    CASE coding = "base64" -> ez_base64encode(data)
      [] coding = "base58" -> base58_encode(data, room)
      [] coding = "libbase58" -> b58enc(data, room)
      [] coding = "check" -> b58check_enc(Head(data), Tail(data), room)
      [] coding = "bcd" -> [out |-> ez_dec_2_bcd(ValueOf(data, 256), room)]

Encode ==
    /\ step = "given"
    /\ coding = "check" => data # <<>>
    /\ coding = "bcd" => Len(data) <= 3     \* the number that is encoded is an int
    /\ answer' = Encoded
    /\ written' = answer'.out
    /\ step' = "encoded"
    /\ UNCHANGED <<coding, data, room>>

Decoded(t, r) ==
    CASE coding = "base64" -> ez_base64decode(t)
      [] coding = "base58" -> base58_decode(t, r)
      [] coding \in {"libbase58", "check"} -> b58tobin(t, r)
      [] coding = "bcd" -> [out |-> <<>>, value |-> ez_bcd_2_dec(t)]

\* A text to be checked may have come with a digit zero more in front.
Decode ==
    /\ step = "encoded"
    /\ coding = "check" => written # <<>>
    /\ \E r \in Rooms, t \in {written} \cup (IF coding = "check" THEN {<<0>> \o written} ELSE {}) :
           room' = r /\ written' = t /\ answer' = Decoded(t, r)
    /\ step' = "decoded"
    /\ UNCHANGED <<coding, data>>

\* What was decoded is checked by one who knows how many bytes it has.
Check ==
    /\ step = "decoded" /\ coding = "check" /\ answer.ok
    /\ Len(data) + 4 <= Len(answer.out)
    /\ answer' = [ver |-> b58check(Behind(answer.out, Len(answer.out) - (Len(data) + 4)), written)]
    /\ step' = "checked"
    /\ UNCHANGED <<coding, data, room, written>>

Next == Encode \/ Decode \/ Check
-----------------------------------------------------------------------------
(***************************************************************************)
(* What each text must be, from the number its bytes stand for.            *)
(***************************************************************************)
DigitsOf(v, base) == CHOOSE n \in 0..8 : v < base^n /\ (n = 0 \/ v >= base^(n - 1))
Needed(s, from, to) == Leading(s) + DigitsOf(ValueOf(s, from), to)
Small == data # <<>> /\ Len(data) <= 3     \* the number fits

EncodesWhatFits ==
    step = "encoded" /\ Small =>
        CASE coding = "base64" -> /\ answer.ret = Len(written) + 1 /\ answer.ret = ez_base64encode_len(Len(data))
                                  /\ ez_base64decode_len(written) > Len(data)
          [] coding = "base58" -> /\ (answer.ret = 0) <=> (room >= Needed(data, 256, 58))
                                  /\ answer.ret = 0 => /\ ValueOf(written, 58) = ValueOf(data, 256)
                                                       /\ Leading(written) = Leading(data)
                                  /\ room >= base58_encode_length(Len(data)) => answer.ret = 0
          [] coding = "libbase58" -> /\ answer.ok <=> (base58_encode(data, room - 1).ret = 0)
                                     /\ answer.ok => /\ written = base58_encode(data, room).out
                                                     /\ answer.b58sz = Len(written) + 1
          [] OTHER -> TRUE

DecodesItBack ==
    step = "decoded" /\ written # <<>> /\ Small =>
        CASE coding = "base64" -> answer.ret = Len(data) /\ answer.out = data
          [] coding = "base58" -> IF room < Len(data) THEN answer.ret = -1 ELSE answer.ret = 0 /\ answer.out = data
          [] coding = "libbase58" ->
                IF room < Len(data) - Leading(data) THEN ~answer.ok
                ELSE /\ answer.ok /\ answer.binsz = Len(data) /\ Len(answer.out) = room
                     /\ ValueOf(answer.out, 256) = ValueOf(data, 256)
          [] coding = "bcd" -> answer.value = ValueOf(data, 256) % (IF Len(written) > 4 THEN 100^4 ELSE 100^Len(written))
          [] OTHER -> TRUE

DecodesWhatComes ==
    step = "decoded" /\ coding = "base64" /\ data = <<>> =>
        /\ (answer.ret = -1) <=> (written = <<>> \/ \E k \in 1..Len(written) : written[k] = BAD)
        /\ answer.ret >= 0 => LET n == nprbytes(written)
                              IN  Len(answer.out) = (6 * n) \div 8 /\ (answer.ret = Len(answer.out) \/ n % 4 = 1)

ChecksTheVersion ==
    step = "checked" => answer.ver = IF Leading(written) # Leading(data) THEN -3 ELSE data[1]

\* Every encoder writes the text of the number it was given, with a digit zero for each byte zero in
\* front, exactly when the text fits into the room; both encoders of Base 58 write the same one; a
\* decoder gives the data back exactly when they fit.  ez_base64encode_len, ez_base64decode_len and
\* base58_encode_length announce lengths that are enough; base58_decode_length does not, see below.
TextsStandForTheirData == EncodesWhatFits /\ DecodesItBack /\ DecodesWhatComes /\ ChecksTheVersion

\* "assert(decode_out_size == bdl)" (tutorial_libezutil/base58.c:105): data that were encoded take no
\* more room decoded than base58_decode_length announces for their text.
DecodeLengthSuffices ==
    step = "decoded" /\ coding = "base58" /\ data # <<>> /\ answer.ret = 0 =>
        Len(answer.out) <= base58_decode_length(Len(written))
=============================================================================
