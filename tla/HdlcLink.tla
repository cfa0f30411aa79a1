------------------------------- MODULE HdlcLink -------------------------------
(***************************************************************************)
(* Two ends of an HDLC link: the sender packs payloads with                *)
(* ez_hdlc_make_packet, the line carries them, as they are if it is quiet  *)
(* and else with noise between packets and at most one damaged byte, the   *)
(* receiver's socket loop gives what arrives to hdlc_ondata in pieces of   *)
(* any size, and its callback takes the payload out with ez_hdlc_get_data. *)
(***************************************************************************)
EXTENDS HdlcReceiver

CONSTANTS
  ESC, Complement(_), PacketCrc8(_), PacketCrc16(_),
  Mode,       \* the mode both ends use
  Room,       \* the size of the buffers they pack and unpack in
  Payloads,   \* what the sender may send
  MaxSent(_), \* how many payloads, on a quiet line or on another
  NoiseBytes, \* the bytes that may come between packets
  MaxNoise,   \* how many of them
  Damages,    \* what a byte of a packet may turn into
  MaxPiece(_) \* the most one call is given

Codec == INSTANCE HdlcCodec

\* The complement is an exclusive or; it takes neither FLAG nor ESC to one of them.  A
\* CRC over a text and its CRC is 0.
ASSUME LinkAssumption ==
  /\ ESC \in Byte \ {FLAG}
  /\ \A b \in Byte : Complement(b) \in Byte /\ Complement(Complement(b)) = b
  /\ \A b \in {FLAG, ESC} : Complement(b) \notin {FLAG, ESC}
  /\ Mode \in Codec!Modes /\ Room \in Nat
  /\ Payloads \subseteq Seq(Byte) /\ (Mode = "NOT_VERIFY" => <<>> \notin Payloads)
  /\ \A d \in Payloads :
       /\ PacketCrc8(d) \in Byte /\ PacketCrc8(Append(d, PacketCrc8(d))) = 0
       /\ PacketCrc16(d) \in Seq(Byte) /\ Len(PacketCrc16(d)) = 2
  /\ NoiseBytes \subseteq Byte /\ Damages \subseteq Byte

VARIABLES
  quiet,  \* the line adds and changes nothing
  line,   \* what is under way
  sent,   \* the packets sent: place in the stream, length, payload, intact or not
  noise,  \* how much noise there has been
  given   \* what the callback made of each packet it was given

linkVars == <<rxVars, quiet, line, sent, noise, given>>

EndOfLine == Len(heard) + Len(line)

\* The sender packs and writes; a payload that cannot be packed is not sent.
Send(d) ==
  LET packet == Codec!MakePacket(d, Room, Mode)
  IN  /\ Len(sent) < MaxSent(quiet) /\ packet.ret > 0
      /\ sent' = Append(sent, [at |-> EndOfLine + 1, len |-> packet.ret, data |-> d,
                               intact |-> TRUE])
      /\ line' = line \o packet.bytes
      /\ UNCHANGED <<rxVars, quiet, noise, given>>

\* A stray byte between packets.
Noise(b) ==
  /\ ~quiet /\ noise < MaxNoise
  /\ noise' = noise + 1 /\ line' = Append(line, b)
  /\ UNCHANGED <<rxVars, quiet, sent, given>>

\* One byte of a packet under way turns into another, once: its FLAG, its length, a byte
\* of its body or of its checksum.
Damage(i, k, b) ==
  LET s == sent[i]
      at == s.at + k - Len(heard)
  IN  /\ ~quiet /\ \A j \in 1..Len(sent) : sent[j].intact
      /\ at \in 1..Len(line) /\ line[at] # b
      /\ line' = [line EXCEPT ![at] = b]
      /\ sent' = [sent EXCEPT ![i].intact = FALSE]
      /\ UNCHANGED <<rxVars, quiet, noise, given>>

\* The socket loop of the receiver: recv, then hdlc_ondata.
Hand(n) ==
  /\ OnData(SubSeq(line, 1, n))
  /\ line' = SubSeq(line, n + 1, Len(line))
  /\ UNCHANGED <<quiet, sent, noise, given>>

\* The receiver's scan, and its callback on a packet: ez_hdlc_get_data.
ScanOn ==
  /\ \/ /\ Deliver
        /\ given' = Append(given, Codec!GetData(SubSeq(rx, ii + 1, ii + TotalLen), Room, Mode))
     \/ (SkipByte \/ Restart \/ Compact) /\ UNCHANGED given
  /\ UNCHANGED <<quiet, line, sent, noise>>

Pieces == {n \in 1..Len(line) : n <= MaxPiece(quiet)}

InitLink ==
  /\ InitReceiver
  /\ quiet \in BOOLEAN /\ line = <<>> /\ sent = <<>> /\ noise = 0 /\ given = <<>>

NextLink ==
  \/ \E d \in Payloads : Send(d)
  \/ \E b \in NoiseBytes : Noise(b)
  \/ \E i \in 1..Len(sent), b \in Damages : \E k \in 0..sent[i].len - 1 : Damage(i, k, b)
  \/ \E n \in Pieces : Hand(n)
  \/ ScanOn

\* What is sent reaches the other end, and a call runs until it returns; of a line that
\* is not quiet nothing is said that takes fairness.
FairLink ==
  /\ InitLink /\ [][NextLink]_linkVars
  /\ WF_linkVars(quiet /\ ScanOn) /\ WF_linkVars(quiet /\ \E n \in Pieces : Hand(n))
-----------------------------------------------------------------------------
\* The payloads the callback has had, in order.
Received ==
  LET ok == SelectSeq(given, LAMBDA r : r.ret > 0)
  IN  [k \in 1..Len(ok) |-> ok[k].bytes]

\* A packet that was not damaged reaches the callback and yields its payload,
\* whatever noise surrounds it and however it was cut up, as soon as the scan is
\* past its first byte; unless an overload dropped it.
ArrivesIntact ==
  \A i \in 1..Len(sent) :
    sent[i].intact /\ sent[i].at <= Scanned /\ sent[i].at \notin gap =>
      \E k \in 1..Len(told) : told[k].at = sent[i].at /\ given[k] = Codec!Done(sent[i].data)

\* The damage left a packet its length and its escapes where they were.
KeepsItsShape(was, is) ==
  /\ Len(is) = Len(was)
  /\ \A j \in 1..Len(was) : is[j] = was[j] \/ ESC \notin {is[j], was[j]}

\* A packet with a damaged byte, in its body or in its checksum, yields an error or its
\* payload and never other data, where the damage keeps its shape ("校验方式", the modes
\* that verify: ez_hdlc.h:32).  Where a byte turns into an escape or an escape into
\* another byte, or the length changes, several bytes of what is decoded differ, and a
\* checksum of eight bits may fit other data: 145 65 103 damaged to 125 65 103 does.
DamageDetected ==
  \A i \in 1..Len(sent), k \in 1..Len(told) :
    /\ told[k].at = sent[i].at
    /\ KeepsItsShape(Codec!MakePacket(sent[i].data, Room, Mode).bytes, told[k].packet)
    => given[k].ret <= 0 \/ given[k].bytes = sent[i].data

\* A buffer of the length ez_hdlc_get_dst_buf_len returns is large enough for
\* ez_hdlc_make_packet (tutorial_libezutil/hdlc_callback.cpp:131).
BufLenSuffices ==
  \A i \in 1..Len(sent) :
    LET n == Codec!DstBufLen(sent[i].data, Mode)
    IN  n > 0 => Codec!MakePacket(sent[i].data, n, Mode).ret = n

\* A quiet link is a channel: everything sent arrives, once, whole and in order, and
\* every call returns.  On another line nothing is promised, as if nothing was sent.
Data == INSTANCE Channel WITH
  Payload <- Payloads,
  sent <- IF quiet THEN [i \in 1..Len(sent) |-> sent[i].data] ELSE <<>>,
  received <- IF quiet THEN Received ELSE <<>>

IsChannel == Data!Spec
=============================================================================
