----------------------------- MODULE HdlcReceiver -----------------------------
(***************************************************************************)
(* The receiving half of ez_hdlc.c: hdlc_ondata collects the bytes of a    *)
(* serial line or a socket, in pieces of any size, and hands each packet   *)
(* it finds to a callback.  A packet is FLAG, its total length, and a body *)
(* in which FLAG does not occur; anything else on the line is noise.       *)
(*                                                                         *)
(* One action is one iteration of the scan, so that what the callback can  *)
(* observe in the middle of a call is a state of the model.  heard,        *)
(* passed, gap and told are a record of the line and of the callbacks:     *)
(* they guard nothing.                                                     *)
(***************************************************************************)
EXTENDS Integers, Sequences

CONSTANTS
  FLAG,       \* EZ_HDLC_FLAG
  RX_LEN,     \* __EZ_HDLC_RX_BUFF_LEN
  Chunks,     \* the pieces of the line a caller may hand over
  MaxHeard    \* the line is followed for so many bytes

Byte == 0..255

ASSUME ReceiverAssumption ==
  /\ FLAG \in Byte /\ FLAG >= 3
  /\ RX_LEN \in Nat /\ MaxHeard \in Nat
  /\ Chunks \subseteq Seq(Byte) \ {<<>>}

VARIABLES
  rx,      \* pRxBuffer[0 .. iRxBufferLen - 1]
  ii,      \* the place of the scan in rx
  calling, \* hdlc_ondata is scanning
  heard,   \* every byte handed over since the start
  passed,  \* how many of them have left the buffer
  gap,     \* the positions of those that left it unscanned
  told     \* the packets given to the callback, each with its place in heard

rxVars == <<rx, ii, calling, heard, passed, gap, told>>

HEAD_LEN == 2
Shortest == HEAD_LEN + 1   \* "hdlc tlv": what the scan accepts as a length

\* Mutant of Overload: off by one.
OverloadLate(chunk) == Len(rx) + Len(chunk) > RX_LEN + 1

\* The piece does not fit beside what is buffered.
Overload(chunk) == Len(rx) + Len(chunk) > RX_LEN

\* What is buffered, and the end of the line that was not buffered, is lost.
Discard(line) ==
  /\ rx' = <<>> /\ heard' = line
  /\ gap' = gap \cup (passed + 1)..Len(line)
  /\ passed' = Len(line)
  /\ UNCHANGED <<ii, told>>

\* hdlc_ondata up to its loop; a piece that does not fit is dropped with the buffer.
OnData(chunk) ==
  /\ ~calling
  /\ IF Overload(chunk)
       THEN Discard(heard \o chunk) /\ UNCHANGED calling
       ELSE /\ rx' = rx \o chunk
            /\ heard' = heard \o chunk
            /\ calling' = (Len(rx) + Len(chunk) >= 4)
            /\ UNCHANGED <<ii, passed, gap, told>>

-----------------------------------------------------------------------------
(***************************************************************************)
(* The scan.                                                               *)
(***************************************************************************)
\* The loop goes on while four bytes are left.
Scanning == calling /\ ii + 3 < Len(rx)

AtFlag   == rx[ii + 1] = FLAG
TotalLen == rx[ii + 2]

HasAll == Len(rx) >= ii + TotalLen

\* Mutant of InnerFlags: the last byte of the packet is not searched.
InnerFlagsButLast == {jj \in 1..TotalLen - 2 : rx[ii + 1 + jj] = FLAG}

\* The offsets at which a packet with all its bytes holds another FLAG.
InnerFlags == {jj \in 1..TotalLen - 1 : rx[ii + 1 + jj] = FLAG}

Advance(n) == ii' = ii + n /\ UNCHANGED <<rx, calling, heard, passed, gap>>

\* Mutant of SkipByte: a FLAG with too small a length is looked at for ever.
SkipByteOnlyIfNoFlag ==
  /\ Scanning
  /\ AtFlag => TotalLen < Shortest
  /\ Advance(IF AtFlag THEN 0 ELSE 1)
  /\ UNCHANGED told

\* A byte that is no FLAG, or a FLAG whose length is too small: one byte on.
SkipByte ==
  /\ Scanning
  /\ AtFlag => TotalLen < Shortest
  /\ Advance(1)
  /\ UNCHANGED told

Candidate == Scanning /\ AtFlag /\ TotalLen >= Shortest

\* Mutant of Restart: the whole false packet is skipped, with what it swallowed.
RestartAfter ==
  /\ Candidate /\ HasAll /\ InnerFlags # {}
  /\ Advance(TotalLen)
  /\ UNCHANGED told

\* A false head: the scan goes on from the first FLAG behind it.
Restart ==
  /\ Candidate /\ HasAll /\ InnerFlags # {}
  /\ \E jj \in InnerFlags : (\A k \in InnerFlags : jj <= k) /\ Advance(jj)
  /\ UNCHANGED told

\* A packet: the callback gets it in place.
Deliver ==
  /\ Candidate /\ HasAll /\ InnerFlags = {}
  /\ told' = Append(told, [at |-> passed + ii + 1,
                           packet |-> SubSeq(rx, ii + 1, ii + TotalLen)])
  /\ Advance(TotalLen)

\* A packet that is not all there yet, or too few bytes: the rest of the buffer
\* moves to its front and the call returns.
Compact ==
  /\ calling /\ (Candidate => ~HasAll) /\ (~Candidate => ~Scanning)
  /\ rx' = SubSeq(rx, ii + 1, Len(rx))
  /\ passed' = passed + ii
  /\ ii' = 0 /\ calling' = FALSE
  /\ UNCHANGED <<heard, gap, told>>

\* A peer that reconnects starts with a new buffer: hdlc_delete, hdlc_new.
Renew ==
  /\ ~calling /\ rx # <<>>
  /\ Discard(heard)
  /\ UNCHANGED calling

InitReceiver ==
  /\ rx = <<>> /\ ii = 0 /\ calling = FALSE
  /\ heard = <<>> /\ passed = 0 /\ gap = {} /\ told = <<>>

Scan == SkipByte \/ Restart \/ Deliver \/ Compact

NextReceiver ==
  \/ \E chunk \in Chunks : Len(heard) + Len(chunk) <= MaxHeard /\ OnData(chunk)
  \/ Scan
  \/ Renew

\* The loop of a call runs until it returns.
Receiver     == InitReceiver /\ [][NextReceiver]_rxVars
FairReceiver == Receiver /\ WF_rxVars(Scan)
-----------------------------------------------------------------------------
(***************************************************************************)
(* What a packet on the line is, said of the line alone.                   *)
(***************************************************************************)
PacketAt(line, p) ==
  /\ p + 1 <= Len(line)
  /\ line[p] = FLAG
  /\ line[p + 1] >= Shortest
  /\ p + line[p + 1] - 1 <= Len(line)
  /\ \A q \in (p + 1)..(p + line[p + 1] - 1) : line[q] # FLAG

Scanned == passed + ii

\* The bytes of the line already tell that no packet begins at p.
RefutedAt(line, p) ==
  /\ p <= Len(line)
  /\ \/ line[p] # FLAG
     \/ /\ p + 1 <= Len(line)
        /\ \/ line[p + 1] < Shortest
           \/ \E q \in (p + 1)..Len(line) :
                q <= p + line[p + 1] - 1 /\ line[q] = FLAG

\* The buffer never outgrows its allocation and the scan never leaves the bytes
\* in it (pRxBuffer, iRxBufferLen: ez_hdlc.c:87, 152).
TypeOK ==
  /\ rx \in Seq(Byte) /\ Len(rx) <= RX_LEN
  /\ ii \in 0..Len(rx)
  /\ calling \in BOOLEAN
  /\ heard \in Seq(Byte) /\ passed \in Nat
  /\ gap \subseteq 1..passed
  /\ told \in Seq([at : Nat \ {0}, packet : Seq(Byte)])

\* The buffer is the end of the line, whatever was cut off and moved to its front
\* (the memmove of ez_hdlc.c:155).
BufferIsLine ==
  /\ Len(heard) = passed + Len(rx)
  /\ \A k \in 1..Len(rx) : rx[k] = heard[passed + k]

\* Only packets are delivered, byte for byte, in the order of the line, and no
\* byte belongs to two of them.
OnlyPackets ==
  \A k \in 1..Len(told) :
    LET p == told[k].at
        n == Len(told[k].packet)
    IN  /\ p + n - 1 <= Scanned
        /\ PacketAt(heard, p) /\ n = heard[p + 1]
        /\ \A j \in 1..n : told[k].packet[j] = heard[p + j - 1]
        /\ \A l \in 1..k - 1 : told[l].at + Len(told[l].packet) <= p

\* However the line is cut into pieces and whatever noise surrounds a packet, it
\* is delivered once the scan is past it: no false head swallows it.  Only what an
\* overload or a reconnect dropped is missing.
NoPacketMissed ==
  \A p \in 1..Scanned :
    p \notin gap /\ PacketAt(heard, p) => \E k \in 1..Len(told) : told[k].at = p

\* What the scan is past is settled, whatever the line brings next: delivered, lost,
\* or no packet.  This is what makes NoPacketMissed inductive.
Settled ==
  /\ ~calling => ii = 0
  /\ \A p \in 1..Scanned :
       p \notin gap => \/ RefutedAt(heard, p)
                       \/ \E k \in 1..Len(told) : told[k].at = p

\* Every call returns, and between calls the receiver holds back nothing but a head
\* whose packet is not complete, or three bytes.
HoldsBackOnlyHead ==
  /\ [](~calling /\ Len(rx) > 3 => rx[1] = FLAG /\ rx[2] >= Shortest /\ rx[2] > Len(rx))
  /\ calling ~> ~calling
=============================================================================
