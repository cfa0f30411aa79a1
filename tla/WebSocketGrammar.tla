--------------------------- MODULE WebSocketGrammar --------------------------
(***************************************************************************)
(* The frames of a byte stream, read in one piece and frame by frame: what *)
(* the streaming parser must report however the stream is cut.  It stops   *)
(* after a CLOSE frame and at an opcode that RFC 6455 reserves.            *)
(***************************************************************************)
EXTENDS Integers, Sequences, SequencesExt

CONSTANT XorByte(_, _)

LOCAL Number(bytes) == FoldLeft(LAMBDA acc, b : acc * 256 + b, 0, bytes)

\* The layout of a header from its first two bytes.
LOCAL ExtOf(s)    == IF s[2] % 128 = 126 THEN 2 ELSE IF s[2] % 128 = 127 THEN 8 ELSE 0
LOCAL HeaderOf(s) == 2 + ExtOf(s) + (IF s[2] >= 128 THEN 4 ELSE 0)
LOCAL LenOf(s)    == IF ExtOf(s) = 0 THEN s[2] % 128 ELSE Number(SubSeq(s, 3, 2 + ExtOf(s)))
LOCAL KeyOf(s)    == IF s[2] >= 128 THEN SubSeq(s, 3 + ExtOf(s), HeaderOf(s)) ELSE <<0, 0, 0, 0>>

LOCAL Plain(key, bytes) ==
  [i \in 1..Len(bytes) |-> XorByte(bytes[i], key[((i - 1) % 4) + 1])]

RECURSIVE DecodeFrom(_, _)
\* The frames of s after those already found, and the payload of the one cut short.
DecodeFrom(s, found) ==
  IF Len(s) < 2 THEN [frames |-> found, partial |-> <<>>]
  ELSE IF Len(s) < HeaderOf(s) THEN [frames |-> found, partial |-> <<>>]
  ELSE LET body == SubSeq(s, HeaderOf(s) + 1, Len(s))
           op   == s[1] % 16
       IN  IF Len(body) < LenOf(s) THEN [frames |-> found, partial |-> Plain(KeyOf(s), body)]
           ELSE LET all == Append(found, [fin |-> s[1] >= 128, opcode |-> op,
                                          declared |-> LenOf(s),
                                          payload |-> Plain(KeyOf(s), SubSeq(body, 1, LenOf(s)))])
                IN  IF op = 8 THEN [frames |-> all, partial |-> <<>>]
                    ELSE DecodeFrom(SubSeq(body, LenOf(s) + 1, Len(body)), all)

Decode(s) == DecodeFrom(s, <<>>)
=============================================================================
