------------------------------ MODULE HdlcCodec ------------------------------
(***************************************************************************)
(* The packets of ez_hdlc.c.  FLAG and ESC do not occur in a packet's      *)
(* payload: each is sent as ESC and its complement.  A call that fails     *)
(* returns a negative code and no bytes; the codes that only tell where    *)
(* the destination ran out of room are one code, and so are the two of a   *)
(* bad escape.                                                             *)
(***************************************************************************)
EXTENDS Integers, Sequences, SequencesExt

CONSTANTS
  FLAG,           \* EZ_HDLC_FLAG
  ESC,            \* EZ_HDLC_ESC_ASYNC
  Complement(_),  \* exclusive or with EZ_HDLC_ESC_COMPL
  PacketCrc8(_),  \* ez_crc8 from 0x33
  PacketCrc16(_)  \* ez_modbus_crc16, its two bytes

HEAD_LEN == 2
Modes == {"VERIFY", "MOD_BUS", "NOT_VERIFY"}

Done(bytes)  == [ret |-> Len(bytes), bytes |-> bytes]
Failed(code) == [ret |-> code, bytes |-> <<>>]
NO_ROOM == -5

Special(b) == b \in {FLAG, ESC}

\* src with every FLAG and ESC escaped.
Stuffed(src) ==
  FlattenSeq([i \in 1..Len(src) |-> IF Special(src[i]) THEN <<ESC, Complement(src[i])>> ELSE <<src[i]>>])

\* ez_hdlc_encode: one byte of the destination always stays free.
Encode(src, lenDest) ==
  IF src = <<>> THEN Done(<<>>)
  ELSE IF Len(src) > lenDest THEN Failed(-1)
  ELSE IF Len(Stuffed(src)) >= lenDest THEN Failed(NO_ROOM)
  ELSE Done(Stuffed(src))

\* Where an ESC is followed by another or by nothing.
Malformed(src) == {i \in 1..Len(src) : src[i] = ESC /\ (i = Len(src) \/ src[i + 1] = ESC)}

\* Mutant of Unstuffed: the byte behind an ESC is not complemented.
UnstuffedPlain(src) == SelectSeq(src, LAMBDA b : b # ESC)

\* src without its ESCs, the byte behind each complemented.
Unstuffed(src) ==
  FlattenSeq([i \in 1..Len(src) |-> IF src[i] = ESC THEN <<>>
                                    ELSE IF i > 1 /\ src[i - 1] = ESC THEN <<Complement(src[i])>>
                                    ELSE <<src[i]>>])

\* ez_hdlc_decode: the first thing that goes wrong decides what it returns.
Decode(src, lenDest) ==
  LET bad  == Malformed(src)
      good == Unstuffed(IF bad = {} THEN src ELSE SubSeq(src, 1, Min(bad) - 1))
  IN  IF src = <<>> THEN Done(<<>>)
      ELSE IF lenDest <= 0 THEN Failed(-1)
      ELSE IF Len(good) >= lenDest THEN Failed(NO_ROOM)
      ELSE IF bad # {} THEN Failed(-4)
      ELSE Done(good)

\* What a packet carries behind its payload; it is not escaped.
Check(src, mode) ==
  CASE mode = "VERIFY"     -> <<PacketCrc8(src)>>
    [] mode = "MOD_BUS"    -> PacketCrc16(src)
    [] mode = "NOT_VERIFY" -> <<>>

\* Mutant of DstBufLen: an escaped byte counted once.
DstBufLenUnescaped(src, mode) == Len(src) + Len(Check(src, mode)) + HEAD_LEN

\* ez_hdlc_get_dst_buf_len: negative when the packet would be too long.
DstBufLen(src, mode) ==
  LET n == Len(Stuffed(src)) + Len(Check(src, mode)) + HEAD_LEN
  IN  IF src = <<>> THEN 0 ELSE IF n >= FLAG THEN -n ELSE n

\* ez_hdlc_make_packet
MakePacket(src, lenDest, mode) ==
  LET body  == Encode(src, lenDest - HEAD_LEN)
      sum   == Check(src, mode)
      total == body.ret + Len(sum) + HEAD_LEN
  IN  IF body.ret < 0 THEN body
      ELSE IF sum # <<>> /\ total > lenDest THEN Failed(-2)
      ELSE IF total >= FLAG THEN Failed(-3)
      ELSE Done(<<FLAG, total>> \o body.bytes \o sum)

\* Mutant of GetData: the checksum is not looked at.
GetDataUnverified(packet, lenDest, mode) ==
  LET body == Decode(SubSeq(packet, HEAD_LEN + 1, Len(packet)), lenDest)
  IN  IF Len(packet) <= HEAD_LEN THEN Done(<<>>)
      ELSE IF packet[1] # FLAG THEN Failed(-2)
      ELSE IF body.ret < 0 THEN body
      ELSE Done(SubSeq(body.bytes, 1, body.ret - 1))

\* ez_hdlc_get_data: only EZ_HDLC_MODE_VERIFY looks at the checksum.
GetData(packet, lenDest, mode) ==
  LET body == Decode(SubSeq(packet, HEAD_LEN + 1, Len(packet)), lenDest)
  IN  IF Len(packet) <= HEAD_LEN THEN Done(<<>>)
      ELSE IF packet[1] # FLAG THEN Failed(-2)
      ELSE IF body.ret < 0 THEN body
      ELSE CASE mode = "NOT_VERIFY" -> body
             [] mode = "VERIFY" -> IF PacketCrc8(body.bytes) # 0 THEN Failed(-3)
                                   ELSE Done(SubSeq(body.bytes, 1, body.ret - 1))
             [] mode = "MOD_BUS" -> [ret |-> body.ret - 2,
                                     bytes |-> SubSeq(body.bytes, 1, body.ret - 2)]
=============================================================================
