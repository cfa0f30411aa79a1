------------------------------ MODULE HdlcProofs ------------------------------
(*****************************************************************************)
(* What HdlcReceiver promises for every line, every way of cutting it and  *)
(* every size of the buffer, proved from one inductive invariant: the      *)
(* buffer is the end of the line, and what the scan is past is settled.    *)
(* Then the codec of HdlcCodec, which takes back what it sent, for every   *)
(* payload; and the two together, the link of HdlcLink, for every mode,    *)
(* room, payload, noise and damage.                                        *)
(*****************************************************************************)
EXTENDS HdlcLink, SequenceTheorems, NaturalsInduction, WellFoundedInduction, TLAPS

IInv == TypeOK /\ BufferIsLine /\ OnlyPackets /\ Settled

\* A byte is a number.
LEMMA ByteIsNat == \A b \in Byte : b \in Nat
  BY DEF Byte

\* A position that is refuted holds no packet.
LEMMA RefutedIsNoPacket ==
  ASSUME NEW stream \in Seq(Byte), NEW p \in Nat \ {0}, RefutedAt(stream, p)
  PROVE  ~PacketAt(stream, p)
<1>1. SUFFICES ASSUME PacketAt(stream, p) PROVE FALSE
  OBVIOUS
<1>2. stream[p] = FLAG /\ p + 1 <= Len(stream) /\ stream[p + 1] >= Shortest
  BY <1>1 DEF PacketAt
<1>3. stream[p + 1] \in Byte
  BY <1>2, ElementOfSeq
<1>4. stream[p + 1] \in Nat
  BY <1>3, ByteIsNat
<1>5. PICK q \in (p + 1)..Len(stream) : q <= p + stream[p + 1] - 1 /\ stream[q] = FLAG
  BY <1>2, <1>4 DEF RefutedAt, Shortest, HEAD_LEN
<1> QED
  BY <1>1, <1>4, <1>5 DEF PacketAt

\* More line changes neither what is refuted nor what is a packet.
LEMMA MoreLine ==
  ASSUME NEW stream \in Seq(Byte), NEW more \in Seq(Byte), NEW p \in Nat \ {0}
  PROVE  /\ RefutedAt(stream, p) => RefutedAt(stream \o more, p)
         /\ PacketAt(stream, p) => PacketAt(stream \o more, p)
<1> DEFINE longer == stream \o more
<1>1. longer \in Seq(Byte) /\ Len(longer) = Len(stream) + Len(more)
  BY ConcatProperties
<1>2. \A q \in 1..Len(stream) : longer[q] = stream[q]
  BY ConcatProperties
<1>3. Len(stream) \in Nat /\ Len(more) \in Nat
  BY LenProperties
<1>4. \A q \in 1..Len(stream) : stream[q] \in Nat
  BY ElementOfSeq, ByteIsNat
<1> HIDE DEF longer
<1>5. RefutedAt(stream, p) => RefutedAt(longer, p)
  <2> SUFFICES ASSUME RefutedAt(stream, p) PROVE RefutedAt(longer, p)
    OBVIOUS
  <2>1. p <= Len(stream) /\ p \in 1..Len(stream) /\ p <= Len(longer) /\ longer[p] = stream[p]
    BY <1>1, <1>2, <1>3 DEF RefutedAt
  <2>2. CASE stream[p] # FLAG
    BY <2>1, <2>2 DEF RefutedAt
  <2>3. CASE p + 1 <= Len(stream) /\ stream[p + 1] < Shortest
    BY <2>1, <2>3, <1>1, <1>2, <1>3 DEF RefutedAt
  <2>4. CASE p + 1 <= Len(stream) /\ \E q \in (p + 1)..Len(stream) :
                q <= p + stream[p + 1] - 1 /\ stream[q] = FLAG
    BY <2>1, <2>4, <1>1, <1>2, <1>3 DEF RefutedAt
  <2> QED
    BY <2>2, <2>3, <2>4 DEF RefutedAt
<1>6. PacketAt(stream, p) => PacketAt(longer, p)
  <2> SUFFICES ASSUME PacketAt(stream, p) PROVE PacketAt(longer, p)
    OBVIOUS
  <2> DEFINE n == stream[p + 1]
  <2>1. p + 1 <= Len(stream) /\ stream[p] = FLAG /\ n >= Shortest
    BY DEF PacketAt
  <2>2. p + n - 1 <= Len(stream) /\ \A q \in (p + 1)..(p + n - 1) : stream[q] # FLAG
    BY DEF PacketAt
  <2>3. longer[p] = stream[p] /\ longer[p + 1] = n /\ n \in Nat
    BY <2>1, <1>2, <1>3, <1>4
  <2> HIDE DEF n
  <2>4. p + 1 <= Len(longer) /\ p + n - 1 <= Len(longer)
    BY <2>1, <2>2, <2>3, <1>1, <1>3
  <2>5. \A q \in (p + 1)..(p + n - 1) : longer[q] # FLAG
    BY <2>2, <2>3, <1>2, <1>3
  <2> QED
    BY <2>1, <2>3, <2>4, <2>5 DEF PacketAt
<1> QED
  BY <1>5, <1>6 DEF longer
-----------------------------------------------------------------------------
Told == [at : Nat \ {0}, packet : Seq(Byte)]

\* What a record of a delivery holds.
LEMMA ToldFields ==
  ASSUME NEW d \in Told
  PROVE  d.at \in Nat \ {0} /\ d.packet \in Seq(Byte) /\ Len(d.packet) \in Nat
<1>1. d.at \in Nat \ {0} /\ d.packet \in Seq(Byte)
  BY DEF Told
<1> QED
  BY <1>1, LenProperties

\* The types in the form the steps use them.
LEMMA Types ==
  ASSUME TypeOK
  PROVE  /\ rx \in Seq(Byte) /\ Len(rx) \in Nat /\ Len(rx) <= RX_LEN
         /\ heard \in Seq(Byte) /\ Len(heard) \in Nat
         /\ ii \in Nat /\ ii <= Len(rx) /\ passed \in Nat
         /\ told \in Seq(Told) /\ Len(told) \in Nat
<1>1. rx \in Seq(Byte) /\ heard \in Seq(Byte) /\ told \in Seq(Told)
  BY DEF TypeOK, Told
<1>2. Len(rx) \in Nat /\ Len(heard) \in Nat /\ Len(told) \in Nat
  BY <1>1, LenProperties
<1>3. ii \in Nat /\ ii <= Len(rx) /\ passed \in Nat /\ Len(rx) <= RX_LEN
  BY <1>2 DEF TypeOK
<1> QED
  BY <1>1, <1>2, <1>3

\* The byte the scan looks at, and the next ones, are bytes of the line.
LEMMA AtLine ==
  ASSUME TypeOK, BufferIsLine
  PROVE  \A k \in 1..(Len(rx) - ii) :
           /\ rx[ii + k] = heard[Scanned + k]
           /\ rx[ii + k] \in Nat
           /\ Scanned + k <= Len(heard)
<1> SUFFICES ASSUME NEW k \in 1..(Len(rx) - ii)
             PROVE  /\ rx[ii + k] = heard[Scanned + k]
                    /\ rx[ii + k] \in Nat
                    /\ Scanned + k <= Len(heard)
  OBVIOUS
<1>1. ii + k \in 1..Len(rx)
  BY Types
<1>2. rx[ii + k] \in Nat
  BY <1>1, Types, ElementOfSeq, ByteIsNat
<1>3. rx[ii + k] = heard[passed + (ii + k)]
  BY <1>1 DEF BufferIsLine
<1>4. passed + (ii + k) = Scanned + k /\ Scanned + k <= Len(heard)
  BY <1>1, Types DEF Scanned, BufferIsLine
<1> QED
  BY <1>2, <1>3, <1>4

\* The scan may pass bytes none of which begins a packet.
LEMMA SkipRefuted ==
  ASSUME IInv, calling, NEW n \in Nat, ii + n <= Len(rx), Advance(n), UNCHANGED told,
         \A k \in 1..n : RefutedAt(heard, Scanned + k)
  PROVE  IInv'
<1>1. TypeOK'
  BY Types DEF IInv, TypeOK, Advance
<1>2. BufferIsLine'
  BY DEF IInv, BufferIsLine, Advance
<1>3. Scanned' = Scanned + n /\ Scanned \in Nat
  BY Types DEF IInv, Scanned, Advance
<1>4. OnlyPackets'
  <2> SUFFICES ASSUME NEW k \in 1..Len(told)
               PROVE  told[k].at + Len(told[k].packet) - 1 <= Scanned'
    BY DEF IInv, OnlyPackets, Advance
  <2>1. told[k] \in Told
    BY Types, ElementOfSeq DEF IInv
  <2>2. told[k].at + Len(told[k].packet) - 1 <= Scanned
    BY DEF IInv, OnlyPackets
  <2> QED
    BY <1>3, <2>1, <2>2, ToldFields
<1>5. Settled'
  <2>1. ~calling' => ii' = 0
    BY DEF Advance
  <2>2. ASSUME NEW p \in 1..Scanned', p \notin gap
        PROVE  RefutedAt(heard, p) \/ \E k \in 1..Len(told) : told[k].at = p
    <3>1. CASE p <= Scanned
      <4>1. p \in 1..Scanned
        BY <1>3, <3>1
      <4> QED
        BY <2>2, <4>1 DEF IInv, Settled
    <3>2. CASE p > Scanned
      <4>1. p - Scanned \in 1..n /\ p = Scanned + (p - Scanned)
        BY <1>3, <3>2
      <4> QED
        BY <4>1
    <3> QED
      BY <1>3, <3>1, <3>2
  <2> QED
    BY <2>1, <2>2 DEF Settled, Advance
<1> QED
  BY <1>1, <1>2, <1>4, <1>5 DEF IInv
\* A byte that is no head, or a head with too small a length, is passed.
LEMMA SkipByteInv ==
  ASSUME IInv, SkipByte
  PROVE  IInv'
<1> USE DEF IInv
<1>1. calling /\ ii + 3 < Len(rx) /\ Advance(1) /\ UNCHANGED told
  BY DEF SkipByte, Scanning
<1>2. 1 \in 1..(Len(rx) - ii) /\ 2 \in 1..(Len(rx) - ii) /\ ii + 1 <= Len(rx)
  BY <1>1, Types
<1>3. rx[ii + 1] = heard[Scanned + 1] /\ rx[ii + 2] = heard[Scanned + 2]
      /\ Scanned + 2 <= Len(heard) /\ Scanned \in Nat
  BY <1>2, AtLine, Types DEF Scanned
<1>4. heard[Scanned + 1] # FLAG \/ heard[(Scanned + 1) + 1] < Shortest
  BY <1>3 DEF SkipByte, AtFlag, TotalLen
<1>5. RefutedAt(heard, Scanned + 1)
  BY <1>3, <1>4, Types DEF RefutedAt
<1>6. \A k \in 1..1 : RefutedAt(heard, Scanned + k)
  BY <1>5
<1> QED
  BY <1>1, <1>2, <1>6, SkipRefuted

\* A false head is passed up to the first FLAG behind it.
LEMMA RestartInv ==
  ASSUME IInv, Restart
  PROVE  IInv'
<1> USE DEF IInv
<1>1. calling /\ ii + 3 < Len(rx) /\ UNCHANGED told /\ rx[ii + 1] = FLAG
      /\ rx[ii + 2] >= Shortest /\ Len(rx) >= ii + rx[ii + 2]
  BY DEF Restart, Candidate, Scanning, AtFlag, TotalLen, HasAll
<1>2. PICK jj \in InnerFlags : (\A k \in InnerFlags : jj <= k) /\ Advance(jj)
  BY DEF Restart
<1>3. 1 \in 1..(Len(rx) - ii) /\ 2 \in 1..(Len(rx) - ii)
  BY <1>1, Types
<1> DEFINE T == rx[ii + 2]
<1>4. T \in Nat /\ Scanned \in Nat /\ T = heard[Scanned + 2] /\ Scanned + 2 <= Len(heard)
  BY <1>3, AtLine, Types DEF Scanned
<1>5. jj \in 1..T - 1 /\ rx[ii + 1 + jj] = FLAG
  BY <1>2 DEF InnerFlags, TotalLen
<1>6. ii + T <= Len(rx)
  BY <1>1
<1>0. Len(rx) \in Nat /\ ii \in Nat /\ Len(heard) \in Nat
  BY Types
<1> HIDE DEF T
<1>7. ii + jj <= Len(rx) /\ jj \in Nat
  <2>1. jj \in Nat /\ jj <= T
    BY <1>4, <1>5
  <2> QED
    BY <1>0, <1>4, <1>6, <2>1
<1>8. ASSUME NEW k \in 1..jj PROVE RefutedAt(heard, Scanned + k)
  <2>1. CASE k = 1
    <3>1. jj + 1 \in 1..(Len(rx) - ii)
      BY <1>4, <1>5, <1>6, Types, SMTT(60)
    <3>2. rx[ii + (jj + 1)] = heard[Scanned + (jj + 1)] /\ Scanned + (jj + 1) <= Len(heard)
      BY <3>1, AtLine
    <3>3. ii + (jj + 1) = ii + 1 + jj /\ (Scanned + 1) + 1 = Scanned + 2
      BY <1>4, <1>7, Types
    <3>4. heard[Scanned + (jj + 1)] = FLAG
      BY <3>2, <3>3, <1>5
    <3>5. heard[(Scanned + 1) + 1] = T
      BY <3>3, <1>4
    <3>6. Scanned + (jj + 1) \in ((Scanned + 1) + 1)..Len(heard)
          /\ Scanned + (jj + 1) <= (Scanned + 1) + T - 1
      BY <3>2, <1>0, <1>4, <1>5
    <3>7. (Scanned + 1) + 1 <= Len(heard)
      BY <3>3, <1>4
    <3>8. Scanned + 1 <= Len(heard)
      BY <3>7, <1>0, <1>4
    <3>9. RefutedAt(heard, Scanned + 1)
      BY <3>4, <3>5, <3>6, <3>7, <3>8 DEF RefutedAt
    <3> QED
      BY <2>1, <3>9
  <2>2. CASE k > 1
    <3>1. k - 1 \in 1..T - 1 /\ k - 1 < jj
      BY <2>2, <1>4, <1>5
    <3>2. k - 1 \notin InnerFlags
      BY <3>1, <1>2, <1>5, <1>4
    <3>3. rx[ii + 1 + (k - 1)] # FLAG
      BY <3>1, <3>2 DEF InnerFlags, TotalLen, T
    <3>4. ii + 1 + (k - 1) = ii + k /\ k \in 1..(Len(rx) - ii)
      BY <3>1, <1>0, <1>4, <1>5, <1>6
    <3>5. heard[Scanned + k] # FLAG /\ Scanned + k <= Len(heard)
      BY <3>3, <3>4, AtLine
    <3> QED
      BY <3>5 DEF RefutedAt
  <2> QED
    BY <2>1, <2>2, <1>7
<1> QED
  BY <1>1, <1>2, <1>7, <1>8, SkipRefuted
\* A packet is delivered once, whole, and behind all those before it.
LEMMA DeliverInv ==
  ASSUME IInv, Deliver
  PROVE  IInv'
<1> USE DEF IInv
<1> DEFINE T == rx[ii + 2]
<1> DEFINE d == [at |-> passed + ii + 1, packet |-> SubSeq(rx, ii + 1, ii + T)]
<1>1. calling /\ ii + 3 < Len(rx) /\ rx[ii + 1] = FLAG /\ T >= Shortest
      /\ Len(rx) >= ii + T /\ Advance(T) /\ told' = Append(told, d)
  BY DEF Deliver, Candidate, Scanning, AtFlag, TotalLen, HasAll
<1>2. \A jj \in 1..T - 1 : rx[ii + 1 + jj] # FLAG
  BY DEF Deliver, InnerFlags, TotalLen
<1>3. rx \in Seq(Byte) /\ Len(rx) \in Nat /\ ii \in Nat /\ passed \in Nat /\ Scanned \in Nat
      /\ Scanned = passed + ii /\ told \in Seq(Told) /\ Len(told) \in Nat /\ Len(heard) \in Nat
  BY Types DEF Scanned
<1>4. 1 \in 1..(Len(rx) - ii) /\ 2 \in 1..(Len(rx) - ii)
  BY <1>1, <1>3
<1>5. T \in Nat /\ heard[Scanned + 1] = FLAG /\ heard[Scanned + 2] = T
  BY <1>1, <1>4, AtLine
<1>6. T >= 3 /\ ii + T <= Len(rx)
  BY <1>1 DEF Shortest, HEAD_LEN
<1>7. d.at = Scanned + 1 /\ d.packet = SubSeq(rx, ii + 1, ii + T)
  BY <1>3
<1> HIDE DEF T
<1>8. \A j \in 1..T : /\ rx[ii + j] = heard[Scanned + j]
                       /\ Scanned + j <= Len(heard)
  <2>1. \A j \in 1..T : j \in 1..(Len(rx) - ii)
    BY <1>3, <1>5, <1>6
  <2> QED
    BY <2>1, AtLine
<1>9. /\ d.packet \in Seq(Byte) /\ Len(d.packet) = T
      /\ \A j \in 1..T : d.packet[j] = rx[ii + j]
  <2>1. \A k \in (ii + 1)..(ii + T) : rx[k] \in Byte
    BY <1>3, <1>5, <1>6, ElementOfSeq
  <2>2. (ii + 1) \in Int /\ (ii + T) \in Int
    BY <1>3, <1>5
  <2>3. SubSeq(rx, ii + 1, ii + T) \in Seq(Byte)
        /\ Len(SubSeq(rx, ii + 1, ii + T)) = (IF ii + 1 <= ii + T THEN (ii + T) - (ii + 1) + 1 ELSE 0)
        /\ \A j \in 1..(ii + T) - (ii + 1) + 1 : SubSeq(rx, ii + 1, ii + T)[j] = rx[ii + 1 + j - 1]
    <3>1. rx \in Seq(Byte)
      BY <1>3
    <3> QED
      BY <2>1, <2>2, SubSeqProperties
  <2>4. (ii + T) - (ii + 1) + 1 = T /\ ii + 1 <= ii + T
    BY <1>3, <1>5, <1>6
  <2>5. \A j \in 1..T : ii + 1 + j - 1 = ii + j
    BY <1>3
  <2> QED
    BY <1>7, <2>3, <2>4, <2>5
<1>10. d \in Told
  <2>1. passed + ii + 1 \in Nat \ {0}
    BY <1>3
  <2>2. d.packet \in Seq(Byte)
    BY <1>9
  <2> QED
    BY <2>1, <2>2 DEF Told
<1> HIDE DEF d
<1>11. /\ told' \in Seq(Told) /\ Len(told') = Len(told) + 1
       /\ \A k \in 1..Len(told) : told'[k] = told[k]
       /\ told'[Len(told) + 1] = d
  BY <1>1, <1>3, <1>10, AppendProperties
<1>12. Scanned' = Scanned + T /\ heard' = heard /\ rx' = rx /\ calling' /\ gap' = gap
       /\ passed' = passed /\ ii' = ii + T
  BY <1>1, <1>3, <1>5 DEF Scanned, Advance
<1>13. TypeOK'
  BY <1>3, <1>5, <1>6, <1>11, <1>12 DEF TypeOK, Told
<1>14. BufferIsLine'
  BY <1>12 DEF BufferIsLine
<1>15. PacketAt(heard, Scanned + 1)
  <2>1. (Scanned + 1) + 1 = Scanned + 2 /\ Scanned + 2 <= Len(heard)
    <3>1. 2 \in 1..T
      BY <1>5, <1>6
    <3> QED
      BY <3>1, <1>3, <1>8
  <2>2. (Scanned + 1) + T - 1 <= Len(heard)
    <3>1. T \in 1..T /\ (Scanned + 1) + T - 1 = Scanned + T
      BY <1>3, <1>5, <1>6
    <3> QED
      BY <3>1, <1>8
  <2>3. ASSUME NEW q \in ((Scanned + 1) + 1)..((Scanned + 1) + T - 1) PROVE heard[q] # FLAG
    <3> DEFINE jj == q - Scanned - 1
    <3>1. jj \in 1..T - 1 /\ jj + 1 \in 1..T /\ ii + 1 + jj = ii + (jj + 1)
          /\ Scanned + (jj + 1) = q
      BY <1>3, <1>5, <1>6
    <3> HIDE DEF jj
    <3> QED
      BY <3>1, <1>2, <1>8 DEF T
  <2> QED
    BY <2>1, <2>2, <2>3, <1>5, <1>6 DEF PacketAt, Shortest, HEAD_LEN
<1>16. OnlyPackets'
  <2> SUFFICES ASSUME NEW k \in 1..Len(told')
               PROVE  LET p == told'[k].at
                          n == Len(told'[k].packet)
                      IN  /\ p + n - 1 <= Scanned'
                          /\ PacketAt(heard, p) /\ n = heard[p + 1]
                          /\ \A j \in 1..n : told'[k].packet[j] = heard[p + j - 1]
                          /\ \A l \in 1..k - 1 : told'[l].at + Len(told'[l].packet) <= p
    BY <1>12 DEF OnlyPackets, PacketAt
  <2>1. \A l \in 1..Len(told) : /\ told[l].at \in Nat /\ Len(told[l].packet) \in Nat
                                 /\ told[l].at + Len(told[l].packet) - 1 <= Scanned
    <3> TAKE l \in 1..Len(told)
    <3>1. told[l] \in Told
      BY <1>3, ElementOfSeq
    <3> QED
      BY <3>1, ToldFields DEF OnlyPackets
  <2>2. CASE k <= Len(told)
    <3>1. k \in 1..Len(told) /\ told'[k] = told[k] /\ \A l \in 1..k - 1 : told'[l] = told[l]
      <4>1. k \in 1..Len(told) /\ \A l \in 1..k - 1 : l \in 1..Len(told)
        BY <2>2, <1>3, <1>11
      <4> QED
        BY <4>1, <1>11
    <3>2. told[k].at + Len(told[k].packet) - 1 <= Scanned'
      <4> DEFINE last == told[k].at + Len(told[k].packet) - 1
      <4>1. last \in Int /\ last <= Scanned
        BY <2>1, <3>1
      <4> HIDE DEF last
      <4>2. last <= Scanned'
        BY <4>1, <1>3, <1>5, <1>12
      <4> QED
        BY <4>2 DEF last
    <3> QED
      BY <3>1, <3>2 DEF OnlyPackets
  <2>3. CASE k = Len(told) + 1
    <3>1. told'[k] = d /\ d.at = Scanned + 1 /\ Len(d.packet) = T
      BY <2>3, <1>7, <1>9, <1>11
    <3>2. \A l \in 1..k - 1 : told'[l].at + Len(told'[l].packet) <= Scanned + 1
      <4> TAKE l \in 1..k - 1
      <4>1. l \in 1..Len(told) /\ told'[l] = told[l]
        BY <2>3, <1>3, <1>11
      <4> DEFINE a == told[l].at
                 n == Len(told[l].packet)
      <4>2. a \in Nat /\ n \in Nat /\ a + n - 1 <= Scanned
        BY <2>1, <4>1
      <4> HIDE DEF a, n
      <4>3. a + n <= Scanned + 1
        BY <4>2, <1>3
      <4> QED
        BY <4>1, <4>3 DEF a, n
    <3>3. (Scanned + 1) + T - 1 <= Scanned'
      BY <1>3, <1>5, <1>12
    <3>4. (Scanned + 1) + 1 = Scanned + 2 /\ heard[(Scanned + 1) + 1] = T
      BY <1>3, <1>5
    <3>5. \A j \in 1..T : d.packet[j] = heard[(Scanned + 1) + j - 1]
      <4>1. \A j \in 1..T : (Scanned + 1) + j - 1 = Scanned + j
        BY <1>3
      <4> QED
        BY <4>1, <1>8, <1>9
    <3> QED
      BY <3>1, <3>2, <3>3, <3>4, <3>5, <1>15
  <2> QED
    BY <2>2, <2>3, <1>3, <1>11
<1>17. Settled'
  <2>1. ASSUME NEW p \in 1..Scanned', p \notin gap
        PROVE  RefutedAt(heard, p) \/ \E k \in 1..Len(told') : told'[k].at = p
    <3>1. CASE p <= Scanned
      <4>1. p \in 1..Scanned
        BY <1>3, <3>1
      <4>2. CASE RefutedAt(heard, p)
        BY <4>2
      <4>3. CASE \E k \in 1..Len(told) : told[k].at = p
        BY <4>3, <1>3, <1>11
      <4> QED
        BY <2>1, <4>1, <4>2, <4>3 DEF Settled
    <3>2. CASE p = Scanned + 1
      <4>1. Len(told) + 1 \in 1..Len(told')
        BY <1>3, <1>11
      <4> QED
        BY <3>2, <4>1, <1>7, <1>11
    <3>3. CASE p > Scanned + 1
      <4> DEFINE jj == p - Scanned - 1
      <4>1. jj \in 1..T - 1 /\ jj + 1 \in 1..T /\ ii + 1 + jj = ii + (jj + 1)
            /\ Scanned + (jj + 1) = p
        BY <1>3, <1>5, <1>6, <1>12, <3>3
      <4> HIDE DEF jj
      <4>2. heard[p] # FLAG /\ p <= Len(heard)
        BY <4>1, <1>2, <1>8 DEF T
      <4> QED
        BY <4>2 DEF RefutedAt
    <3> QED
      BY <1>3, <3>1, <3>2, <3>3
  <2> QED
    BY <2>1, <1>12 DEF Settled
<1> QED
  BY <1>13, <1>14, <1>16, <1>17
\* Moving the rest of the buffer to its front moves nothing on the line.
LEMMA CompactInv ==
  ASSUME IInv, Compact
  PROVE  IInv'
<1> USE DEF IInv
<1>1. /\ rx' = SubSeq(rx, ii + 1, Len(rx)) /\ passed' = passed + ii /\ ii' = 0
      /\ calling' = FALSE /\ heard' = heard /\ gap' = gap /\ told' = told
  BY DEF Compact
<1>2. rx \in Seq(Byte) /\ Len(rx) \in Nat /\ ii \in Nat /\ passed \in Nat /\ Len(heard) \in Nat
      /\ ii <= Len(rx) /\ Len(rx) <= RX_LEN
  BY Types
<1>3. /\ rx' \in Seq(Byte) /\ Len(rx') = Len(rx) - ii
      /\ \A k \in 1..Len(rx) - ii : rx'[k] = rx[ii + k]
  <2>1. \A k \in (ii + 1)..Len(rx) : rx[k] \in Byte
    BY <1>2, ElementOfSeq
  <2>2. ii + 1 \in Int /\ Len(rx) \in Int
    BY <1>2
  <2>3. SubSeq(rx, ii + 1, Len(rx)) \in Seq(Byte)
        /\ Len(SubSeq(rx, ii + 1, Len(rx))) = (IF ii + 1 <= Len(rx) THEN Len(rx) - (ii + 1) + 1 ELSE 0)
        /\ \A k \in 1..Len(rx) - (ii + 1) + 1 : SubSeq(rx, ii + 1, Len(rx))[k] = rx[ii + 1 + k - 1]
    BY <2>1, <2>2, SubSeqProperties
  <2>4. Len(rx) - (ii + 1) + 1 = Len(rx) - ii
        /\ (IF ii + 1 <= Len(rx) THEN Len(rx) - (ii + 1) + 1 ELSE 0) = Len(rx) - ii
    BY <1>2
  <2>5. \A k \in 1..Len(rx) - ii : ii + 1 + k - 1 = ii + k
    BY <1>2
  <2> QED
    BY <1>1, <2>3, <2>4, <2>5
<1>4. Scanned' = Scanned
  BY <1>1, <1>2 DEF Scanned
<1>5. TypeOK'
  <2>1. gap \subseteq 1..passed'
    BY <1>1, <1>2 DEF TypeOK
  <2>2. rx' \in Seq(Byte) /\ Len(rx') <= RX_LEN /\ ii' \in 0..Len(rx')
    BY <1>1, <1>2, <1>3, ReceiverAssumption
  <2>3. heard' \in Seq(Byte) /\ passed' \in Nat /\ calling' \in BOOLEAN
    <3>1. passed + ii \in Nat
      BY <1>2
    <3> QED
      BY <3>1, <1>1, Types
  <2> QED
    BY <1>1, <2>1, <2>2, <2>3 DEF TypeOK
<1>6. BufferIsLine'
  <2>1. Len(heard) = passed' + Len(rx')
    <3>1. Len(heard) = passed + Len(rx)
      BY DEF BufferIsLine
    <3>2. passed' = passed + ii /\ Len(rx') = Len(rx) - ii
      BY <1>1, <1>3
    <3> QED
      BY <3>1, <3>2, <1>2
  <2>2. ASSUME NEW k \in 1..Len(rx') PROVE rx'[k] = heard[passed' + k]
    <3>1. k \in 1..(Len(rx) - ii) /\ Scanned + k = passed' + k
      BY <1>1, <1>3, <1>2 DEF Scanned
    <3> QED
      BY <3>1, <1>3, AtLine
  <2> QED
    BY <2>1, <2>2, <1>1 DEF BufferIsLine
<1>7. OnlyPackets'
  BY <1>1, <1>4 DEF OnlyPackets
<1>8. Settled'
  BY <1>1, <1>4 DEF Settled
<1> QED
  BY <1>5, <1>6, <1>7, <1>8

\* A longer line leaves what was delivered, and what was settled, as it was.
LEMMA LongerLine ==
  ASSUME IInv, ~calling, NEW more \in Seq(Byte), heard' = heard \o more,
         passed' \in Nat, Scanned' = passed', passed <= passed', told' = told, ii' = ii,
         gap' = gap \cup (passed + 1)..passed'
  PROVE  OnlyPackets' /\ Settled'
<1> USE DEF IInv
<1>1. ii = 0 /\ Scanned = passed /\ passed \in Nat /\ heard \in Seq(Byte) /\ Len(heard) \in Nat
      /\ told \in Seq(Told) /\ Len(told) \in Nat /\ Len(heard) >= passed
  BY Types DEF Settled, Scanned, BufferIsLine
<1>2. \A p \in Nat \ {0} : /\ (RefutedAt(heard, p) => RefutedAt(heard', p))
                            /\ (PacketAt(heard, p) => PacketAt(heard', p))
  BY <1>1, MoreLine
<1>3. \A q \in 1..Len(heard) : heard'[q] = heard[q]
  BY <1>1, ConcatProperties
<1>4. OnlyPackets'
  <2> SUFFICES ASSUME NEW k \in 1..Len(told)
               PROVE  LET p == told[k].at
                          n == Len(told[k].packet)
                      IN  /\ p + n - 1 <= Scanned'
                          /\ PacketAt(heard', p) /\ n = heard'[p + 1]
                          /\ \A j \in 1..n : told[k].packet[j] = heard'[p + j - 1]
                          /\ \A l \in 1..k - 1 : told[l].at + Len(told[l].packet) <= p
    BY DEF OnlyPackets, PacketAt
  <2> DEFINE p == told[k].at
             n == Len(told[k].packet)
             t == told[k].packet
  <2>1. told[k] \in Told
    BY <1>1, ElementOfSeq
  <2>2. p \in Nat \ {0} /\ n \in Nat
    BY <2>1, ToldFields
  <2>3. /\ p + n - 1 <= Scanned /\ PacketAt(heard, p) /\ n = heard[p + 1]
        /\ \A j \in 1..n : t[j] = heard[p + j - 1]
        /\ \A l \in 1..k - 1 : told[l].at + Len(told[l].packet) <= p
    BY DEF OnlyPackets
  <2> HIDE DEF p, n, t
  <2>4. PacketAt(heard', p) /\ p + 1 <= Len(heard) /\ p + n - 1 <= Len(heard)
    BY <1>2, <2>2, <2>3 DEF PacketAt
  <2>5. p + 1 \in 1..Len(heard) /\ \A j \in 1..n : p + j - 1 \in 1..Len(heard)
    BY <2>2, <2>4, <1>1
  <2>6. n = heard'[p + 1] /\ \A j \in 1..n : t[j] = heard'[p + j - 1]
    BY <2>3, <2>5, <1>3
  <2>7. p + n - 1 <= Scanned'
    <3>1. Scanned \in Nat /\ Scanned' \in Nat /\ Scanned <= Scanned'
      BY <1>1
    <3> QED
      BY <2>2, <2>3, <3>1
  <2> QED
    BY <2>3, <2>4, <2>6, <2>7 DEF p, n, t
<1>5. Settled'
  <2>1. ASSUME NEW p \in 1..Scanned', p \notin gap'
        PROVE  RefutedAt(heard', p) \/ \E k \in 1..Len(told) : told[k].at = p
    <3>1. p \in 1..Scanned /\ p \notin gap
      BY <2>1, <1>1
    <3>2. CASE RefutedAt(heard, p)
      <4>1. p \in Nat \ {0}
        BY <3>1, <1>1
      <4> QED
        BY <3>2, <4>1, <1>2 DEF RefutedAt
    <3>3. CASE \E k \in 1..Len(told) : told[k].at = p
      BY <3>3
    <3> QED
      BY <3>1, <3>2, <3>3 DEF Settled
  <2> QED
    BY <2>1, <1>1 DEF Settled
<1> QED
  BY <1>4, <1>5

\* Dropping the buffer, with more of the line or not, keeps the record straight.
LEMMA DiscardInv ==
  ASSUME IInv, ~calling, NEW more \in Seq(Byte), Discard(heard \o more), UNCHANGED calling
  PROVE  IInv'
<1> USE DEF IInv
<1> DEFINE stream == heard \o more
<1>1. rx' = <<>> /\ heard' = stream /\ gap' = gap \cup (passed + 1)..Len(stream)
      /\ passed' = Len(stream) /\ ii' = ii /\ told' = told
  BY DEF Discard
<1>2. stream \in Seq(Byte) /\ Len(stream) = Len(heard) + Len(more) /\ Len(more) \in Nat
  BY Types, ConcatProperties, LenProperties
<1> HIDE DEF stream
<1>3. passed \in Nat /\ Len(heard) \in Nat /\ Len(rx) \in Nat /\ Len(heard) = passed + Len(rx) /\ ii = 0
      /\ RX_LEN \in Nat /\ told \in Seq(Told)
  BY Types, ReceiverAssumption DEF BufferIsLine, Settled
<1>4. rx' \in Seq(Byte) /\ Len(rx') = 0
  BY <1>1, EmptySeq
<1>5. Len(stream) \in Nat /\ passed <= Len(stream) /\ Scanned' = passed'
  BY <1>1, <1>2, <1>3 DEF Scanned
<1>6. TypeOK'
  <2>1. gap' \subseteq 1..passed'
    <3>1. gap \subseteq 1..passed
      BY DEF TypeOK
    <3>2. 1..passed \subseteq 1..Len(stream) /\ (passed + 1)..Len(stream) \subseteq 1..Len(stream)
      BY <1>3, <1>5
    <3> QED
      BY <3>1, <3>2, <1>1
  <2>2. rx' \in Seq(Byte) /\ Len(rx') <= RX_LEN /\ ii' \in 0..Len(rx')
    BY <1>1, <1>3, <1>4
  <2> QED
    BY <1>1, <1>2, <1>3, <1>5, <2>1, <2>2 DEF TypeOK
<1>7. BufferIsLine'
  <2>1. Len(heard') = passed' + Len(rx')
    BY <1>1, <1>4, <1>5
  <2>2. \A k \in 1..Len(rx') : rx'[k] = heard'[passed' + k]
    BY <1>4
  <2> QED
    BY <2>1, <2>2 DEF BufferIsLine
<1>8. OnlyPackets' /\ Settled'
  <2>1. heard' = heard \o more /\ passed' \in Nat /\ passed <= passed'
        /\ gap' = gap \cup (passed + 1)..passed'
    BY <1>1, <1>5 DEF stream
  <2> QED
    BY <1>1, <1>5, <2>1, LongerLine
<1> QED
  BY <1>6, <1>7, <1>8

\* A call takes its bytes, or drops them with the buffer.
LEMMA OnDataInv ==
  ASSUME IInv, NEW chunk \in Seq(Byte), OnData(chunk)
  PROVE  IInv'
<1> USE DEF IInv
<1>1. ~calling
  BY DEF OnData
<1>2. CASE Overload(chunk)
  BY <1>1, <1>2, DiscardInv DEF OnData
<1>3. CASE ~Overload(chunk)
  <2>1. rx' = rx \o chunk /\ heard' = heard \o chunk /\ ii' = ii /\ passed' = passed
        /\ gap' = gap /\ told' = told /\ calling' = (Len(rx) + Len(chunk) >= 4)
    BY <1>3 DEF OnData
  <2>2. rx \in Seq(Byte) /\ heard \in Seq(Byte) /\ Len(rx) \in Nat /\ Len(heard) \in Nat
        /\ Len(chunk) \in Nat /\ passed \in Nat /\ ii \in Nat /\ ii <= Len(rx)
        /\ Len(rx) + Len(chunk) <= RX_LEN /\ ii = 0 /\ RX_LEN \in Nat
    BY <1>1, <1>3, Types, LenProperties, ReceiverAssumption DEF Overload, Settled
  <2>3. /\ rx' \in Seq(Byte) /\ Len(rx') = Len(rx) + Len(chunk)
        /\ \A k \in 1..Len(rx) + Len(chunk) :
             rx'[k] = IF k <= Len(rx) THEN rx[k] ELSE chunk[k - Len(rx)]
    BY <1>1, <2>1, <2>2, ConcatProperties
  <2>4. /\ heard' \in Seq(Byte) /\ Len(heard') = Len(heard) + Len(chunk)
        /\ \A k \in 1..Len(heard) + Len(chunk) :
             heard'[k] = IF k <= Len(heard) THEN heard[k] ELSE chunk[k - Len(heard)]
    BY <1>1, <2>1, <2>2, ConcatProperties
  <2>5. TypeOK'
    <3>1. ii' \in 0..Len(rx') /\ Len(rx') <= RX_LEN /\ calling' \in BOOLEAN
      BY <2>1, <2>2, <2>3
    <3> QED
      BY <2>1, <2>3, <2>4, <3>1 DEF TypeOK
  <2>6. BufferIsLine'
    <3>1. Len(heard') = passed' + Len(rx')
      BY <2>1, <2>2, <2>3, <2>4 DEF BufferIsLine
    <3>2. ASSUME NEW k \in 1..Len(rx') PROVE rx'[k] = heard'[passed' + k]
      <4>1. Len(heard) = passed + Len(rx) /\ k \in 1..Len(rx) + Len(chunk)
            /\ passed + k \in 1..Len(heard) + Len(chunk)
        BY <2>2, <2>3 DEF BufferIsLine
      <4>2. CASE k <= Len(rx)
        <5>1. rx'[k] = rx[k] /\ rx[k] = heard[passed + k]
          BY <4>1, <4>2, <2>2, <2>3 DEF BufferIsLine
        <5>2. heard'[passed + k] = heard[passed + k]
          BY <4>1, <4>2, <2>2, <2>4
        <5> QED
          BY <5>1, <5>2, <2>1
      <4>3. CASE k > Len(rx)
        <5>1. rx'[k] = chunk[k - Len(rx)]
          BY <4>1, <4>3, <2>2, <2>3
        <5>2. passed + k > Len(heard) /\ (passed + k) - Len(heard) = k - Len(rx)
          BY <4>1, <4>3, <2>2
        <5>3. heard'[passed + k] = chunk[(passed + k) - Len(heard)]
          BY <4>1, <5>2, <2>2, <2>4
        <5> QED
          BY <5>1, <5>2, <5>3, <2>1
      <4> QED
        BY <4>1, <4>2, <4>3, <2>2
    <3> QED
      BY <3>1, <3>2 DEF BufferIsLine
  <2>7. OnlyPackets' /\ Settled'
    <3>1. passed' \in Nat /\ passed <= passed' /\ Scanned' = passed'
      BY <2>1, <2>2 DEF Scanned
    <3>2. gap' = gap \cup (passed + 1)..passed'
      BY <2>1, <2>2
    <3> QED
      BY <1>1, <2>1, <3>1, <3>2, LongerLine
  <2> QED
    BY <2>5, <2>6, <2>7
<1> QED
  BY <1>2, <1>3

\* A new handler drops the buffer of the old one.
LEMMA RenewInv ==
  ASSUME IInv, Renew
  PROVE  IInv'
<1>1. ~calling /\ Discard(heard) /\ UNCHANGED calling
  BY DEF Renew
<1>2. heard \in Seq(Byte) /\ <<>> \in Seq(Byte)
  BY Types, EmptySeq DEF IInv
<1>3. heard \o <<>> = heard
  BY <1>2, ConcatEmptySeq
<1>4. Discard(heard \o <<>>)
  BY <1>1, <1>3
<1> QED
  BY <1>1, <1>2, <1>4, DiscardInv
-----------------------------------------------------------------------------
\* The receiver starts within its invariant.
LEMMA InitInv ==
  ASSUME InitReceiver
  PROVE  IInv
<1> USE DEF InitReceiver
<1>1. <<>> \in Seq(Byte) /\ <<>> \in Seq([at : Nat \ {0}, packet : Seq(Byte)]) /\ Len(<<>>) = 0
  BY EmptySeq
<1>2. Scanned = 0
  BY DEF Scanned
<1>3. TypeOK
  <2>1. rx \in Seq(Byte) /\ heard \in Seq(Byte) /\ gap \subseteq 1..passed
        /\ told \in Seq([at : Nat \ {0}, packet : Seq(Byte)])
    BY <1>1
  <2>2. Len(rx) <= RX_LEN /\ ii \in 0..Len(rx) /\ passed \in Nat
    BY <1>1, ReceiverAssumption
  <2>3. calling \in BOOLEAN
    OBVIOUS
  <2> QED
    BY <2>1, <2>2, <2>3 DEF TypeOK
<1>4. BufferIsLine
  BY <1>1 DEF BufferIsLine
<1>5. OnlyPackets
  BY <1>1 DEF OnlyPackets
<1>6. Settled
  BY <1>2 DEF Settled
<1> QED
  BY <1>3, <1>4, <1>5, <1>6 DEF IInv

\* The receiver starts and stays within its invariant.
THEOREM ReceiverInvariant == Receiver => []IInv
<1>1. InitReceiver => IInv
  BY InitInv
<1>2. IInv /\ [NextReceiver]_rxVars => IInv'
  <2> SUFFICES ASSUME IInv, [NextReceiver]_rxVars PROVE IInv'
    OBVIOUS
  <2>1. ASSUME NEW chunk \in Chunks, OnData(chunk) PROVE IInv'
    <3>1. chunk \in Seq(Byte)
      BY ReceiverAssumption
    <3> QED
      BY <2>1, <3>1, OnDataInv
  <2>2. CASE SkipByte
    BY <2>2, SkipByteInv
  <2>3. CASE Restart
    BY <2>3, RestartInv
  <2>4. CASE Deliver
    BY <2>4, DeliverInv
  <2>5. CASE Compact
    BY <2>5, CompactInv
  <2>6. CASE Renew
    BY <2>6, RenewInv
  <2>7. CASE UNCHANGED rxVars
    BY <2>7 DEF rxVars, IInv, TypeOK, BufferIsLine, OnlyPackets, Settled, Scanned
  <2> QED
    BY <2>1, <2>2, <2>3, <2>4, <2>5, <2>6, <2>7 DEF NextReceiver, Scan
<1> QED
  BY <1>1, <1>2, PTL DEF Receiver

\* The buffer stays within its allocation and the scan within the buffer.
THEOREM ReceiverTypes == Receiver => []TypeOK
<1>1. IInv => TypeOK
  BY DEF IInv
<1> QED
  BY <1>1, ReceiverInvariant, PTL

\* Nothing is delivered but packets of the line, in order and without overlap.
THEOREM DeliversOnlyPackets == Receiver => []OnlyPackets
<1>1. IInv => OnlyPackets
  BY DEF IInv
<1> QED
  BY <1>1, ReceiverInvariant, PTL

\* No noise and no way of cutting the line makes the scan pass over a packet.
THEOREM MissesNoPacket == Receiver => []NoPacketMissed
<1>1. IInv => NoPacketMissed
  <2> SUFFICES ASSUME IInv, NEW p \in 1..Scanned, p \notin gap, PacketAt(heard, p)
               PROVE  \E k \in 1..Len(told) : told[k].at = p
    BY DEF NoPacketMissed
  <2>1. heard \in Seq(Byte) /\ Scanned \in Nat
    BY Types DEF IInv, Scanned
  <2>2. ~RefutedAt(heard, p)
    BY <2>1, RefutedIsNoPacket
  <2> QED
    BY <2>2 DEF IInv, Settled
<1> QED
  BY <1>1, ReceiverInvariant, PTL

-----------------------------------------------------------------------------
(*****************************************************************************)
(* Joining pieces: FlattenSeq puts a further piece behind the others.      *)
(*****************************************************************************)
\* A set of natural numbers that is not empty has a least element.
LEMMA LeastNatural ==
  ASSUME NEW S \in SUBSET Nat, S # {}
  PROVE  \E s \in S : \A r \in S : s <= r
<1>1. PICK s \in S : \A r \in S : ~(<<r, s>> \in OpToRel(<, Nat))
  BY NatLessThanWellFounded, WFMin
<1>2. \A r \in S : ~(r < s)
  BY <1>1 DEF OpToRel
<1> QED
  BY <1>2

\* f joins the pieces of ss, up to each of the first n.
Joining(f, ss, n) == f = [i \in 1..n |-> IF i = 1 THEN ss[i] ELSE f[i - 1] \o ss[i]]

\* There is such a function: the definition of FlattenSeq defines something.
LEMMA JoiningExists ==
  ASSUME NEW ss, NEW n \in Nat
  PROVE  \E f : Joining(f, ss, n)
<1> DEFINE Bad == {m \in Nat : ~\E f : Joining(f, ss, m)}
<1> SUFFICES ASSUME n \in Bad PROVE FALSE
  OBVIOUS
<1>1. PICK m \in Bad : \A r \in Bad : m <= r
  <2>1. Bad \in SUBSET Nat /\ Bad # {}
    OBVIOUS
  <2> HIDE DEF Bad
  <2> QED
    BY <2>1, LeastNatural
<1>2. CASE m = 0
  <2>1. Joining([i \in 1..0 |-> 0], ss, 0)
    BY DEF Joining
  <2> QED
    BY <1>2, <2>1
<1>3. CASE m # 0
  <2>1. m \in Nat /\ m - 1 \in Nat /\ ~(m <= m - 1)
    BY <1>3
  <2>2. m - 1 \notin Bad
    BY <1>1, <2>1
  <2>3. PICK g : Joining(g, ss, m - 1)
    BY <2>1, <2>2
  <2>4. DOMAIN g = 1..(m - 1) /\ \A i \in 1..(m - 1) : g[i] = IF i = 1 THEN ss[i] ELSE g[i - 1] \o ss[i]
    BY <2>3 DEF Joining
  <2> DEFINE f == [i \in 1..m |-> IF i = m THEN IF m = 1 THEN ss[m] ELSE g[m - 1] \o ss[m] ELSE g[i]]
  <2>5. \A i \in 1..m : f[i] = IF i = 1 THEN ss[i] ELSE f[i - 1] \o ss[i]
    <3> TAKE i \in 1..m
    <3>1. CASE i = m
      <4>1. CASE m = 1
        BY <3>1, <4>1
      <4>2. CASE m # 1
        <5>1. m - 1 \in 1..m /\ m - 1 # m
          BY <2>1, <4>2
        <5>2. f[m - 1] = g[m - 1]
          BY <5>1
        <5> QED
          BY <3>1, <4>2, <5>2
      <4> QED
        BY <4>1, <4>2
    <3>2. CASE i # m
      <4>1. i \in 1..(m - 1)
        BY <2>1, <3>2
      <4>2. f[i] = g[i]
        BY <3>2
      <4>3. i # 1 => i - 1 \in 1..m /\ i - 1 # m
        BY <2>1, <4>1
      <4>4. i # 1 => f[i - 1] = g[i - 1]
        BY <4>3
      <4> QED
        BY <4>1, <4>2, <4>4, <2>4
    <3> QED
      BY <3>1, <3>2
  <2>6. f = [i \in 1..m |-> IF i = 1 THEN ss[i] ELSE f[i - 1] \o ss[i]]
    <3>1. DOMAIN f = 1..m /\ f = [i \in 1..m |-> f[i]]
      OBVIOUS
    <3> HIDE DEF f
    <3> QED
      BY <2>5, <3>1
  <2>7. Joining(f, ss, m)
    BY <2>6 DEF Joining
  <2> QED
    BY <2>7
<1> QED
  BY <1>2, <1>3

\* FlattenSeq joins all the pieces there are.
LEMMA FlattenJoins ==
  ASSUME NEW ss, Len(ss) \in Nat, Len(ss) # 0
  PROVE  \E f : Joining(f, ss, Len(ss)) /\ Codec!FlattenSeq(ss) = f[Len(ss)]
<1> DEFINE f == CHOOSE f : Joining(f, ss, Len(ss))
<1>1. Joining(f, ss, Len(ss))
  BY JoiningExists
<1>2. Codec!FlattenSeq(ss) = f[Len(ss)]
  BY DEF Codec!FlattenSeq, Joining
<1> QED
  BY <1>1, <1>2

Texts == Seq(Byte)

\* What joins the first pieces yields texts, and does not depend on the later pieces.
LEMMA JoiningAgrees ==
  ASSUME NEW ss \in Seq(Texts), NEW n \in 0..Len(ss), NEW tt, NEW m \in Nat, n <= m,
         \A i \in 1..n : tt[i] = ss[i],
         NEW f, Joining(f, ss, n), NEW g, Joining(g, tt, m)
  PROVE  \A i \in 1..n : f[i] = g[i] /\ f[i] \in Texts
<1>0. Len(ss) \in Nat /\ n \in Nat
  BY LenProperties
<1> DEFINE Bad == {i \in Nat : i \in 1..n /\ ~(f[i] = g[i] /\ f[i] \in Texts)}
<1> SUFFICES ASSUME NEW j \in 1..n, ~(f[j] = g[j] /\ f[j] \in Texts) PROVE FALSE
  OBVIOUS
<1>1. PICK i \in Bad : \A r \in Bad : i <= r
  <2>1. Bad \in SUBSET Nat /\ j \in Bad
    BY <1>0
  <2> HIDE DEF Bad
  <2> QED
    BY <2>1, LeastNatural
<1>2. i \in Nat /\ i \in 1..n /\ i \in 1..m /\ i \in 1..Len(ss) /\ ~(f[i] = g[i] /\ f[i] \in Texts)
  BY <1>0, <1>1
<1>3. ss[i] \in Texts /\ tt[i] = ss[i]
  BY <1>2, ElementOfSeq
<1>4. f[i] = (IF i = 1 THEN ss[i] ELSE f[i - 1] \o ss[i])
      /\ g[i] = (IF i = 1 THEN tt[i] ELSE g[i - 1] \o tt[i])
  BY <1>2 DEF Joining
<1>5. i # 1
  BY <1>2, <1>3, <1>4
<1>6. i - 1 \in Nat /\ i - 1 \in 1..n /\ ~(i <= i - 1)
  BY <1>2, <1>5
<1>7. i - 1 \notin Bad
  BY <1>1, <1>6
<1>8. f[i - 1] = g[i - 1] /\ f[i - 1] \in Texts
  BY <1>6, <1>7
<1>9. f[i - 1] \o ss[i] \in Texts
  BY <1>3, <1>8, ConcatProperties DEF Texts
<1> QED
  BY <1>2, <1>3, <1>4, <1>5, <1>8, <1>9

\* What is joined is a text, and a further piece comes behind it.
LEMMA FlattenAppend ==
  ASSUME NEW ss \in Seq(Texts), NEW s \in Texts
  PROVE  /\ Codec!FlattenSeq(ss) \in Texts
         /\ Codec!FlattenSeq(Append(ss, s)) = Codec!FlattenSeq(ss) \o s
<1>1. PICK n \in Nat : n = Len(ss)
  BY LenProperties
<1>2. PICK tt : tt = Append(ss, s)
  OBVIOUS
<1>3. tt \in Seq(Texts) /\ Len(tt) = n + 1 /\ (\A i \in 1..n : tt[i] = ss[i]) /\ tt[n + 1] = s
  BY <1>1, <1>2, AppendProperties
<1>4. Len(tt) \in Nat /\ Len(tt) # 0 /\ n + 1 \in Nat
  BY <1>1, <1>3
<1>5. PICK g : Joining(g, tt, n + 1) /\ Codec!FlattenSeq(tt) = g[n + 1]
  BY <1>3, <1>4, FlattenJoins
<1>6. g[n + 1] = (IF n + 1 = 1 THEN tt[n + 1] ELSE g[(n + 1) - 1] \o tt[n + 1])
  <2>1. n + 1 \in 1..(n + 1)
    BY <1>1
  <2> QED
    BY <1>5, <2>1 DEF Joining
<1>7. CASE n = 0
  <2>1. ss = <<>>
    BY <1>1, <1>7, EmptySeq
  <2>2. Codec!FlattenSeq(ss) = <<>>
    BY <1>1, <1>7, <2>1 DEF Codec!FlattenSeq
  <2>3. <<>> \in Texts /\ <<>> \o s = s
    BY ConcatEmptySeq, EmptySeq DEF Texts
  <2>4. Codec!FlattenSeq(tt) = s
    BY <1>3, <1>5, <1>6, <1>7
  <2> QED
    BY <1>2, <2>2, <2>3, <2>4
<1>8. CASE n # 0
  <2>1. PICK f : Joining(f, ss, n) /\ Codec!FlattenSeq(ss) = f[n]
    BY <1>1, <1>8, FlattenJoins
  <2>2. \A i \in 1..n : f[i] = g[i] /\ f[i] \in Texts
    <3>1. n \in 0..Len(ss) /\ n <= n + 1
      BY <1>1
    <3> QED
      BY <1>3, <1>4, <1>5, <2>1, <3>1, JoiningAgrees
  <2>3. n \in 1..n /\ (n + 1) - 1 = n /\ n + 1 # 1
    BY <1>1, <1>8
  <2>4. Codec!FlattenSeq(tt) = g[n] \o s /\ g[n] = f[n] /\ f[n] \in Texts
    BY <1>3, <1>5, <1>6, <2>2, <2>3
  <2> QED
    BY <1>2, <2>1, <2>4
<1> QED
  BY <1>7, <1>8

\* Nothing is joined from nothing.
LEMMA FlattenNothing == Codec!FlattenSeq(<<>>) = <<>>
<1>1. Len(<<>>) = 0
  OBVIOUS
<1> QED
  BY <1>1 DEF Codec!FlattenSeq

-----------------------------------------------------------------------------
(*****************************************************************************)
(* The codec: what is escaped holds no FLAG and is taken back as it was.   *)
(*****************************************************************************)
\* A function on the first n numbers is a sequence of n.
LEMMA Listed ==
  ASSUME NEW S, NEW n \in Nat, NEW f \in [1..n -> S]
  PROVE  f \in Seq(S) /\ Len(f) = n
  OBVIOUS

\* One byte, and two, make a text.
LEMMA ShortTexts ==
  ASSUME NEW a \in Byte, NEW b \in Byte
  PROVE  /\ <<>> \in Texts /\ Len(<<>>) = 0
         /\ <<a>> \in Texts /\ Len(<<a>>) = 1 /\ <<a>>[1] = a
         /\ <<a, b>> \in Texts /\ Len(<<a, b>>) = 2 /\ <<a, b>>[1] = a /\ <<a, b>>[2] = b
  BY DEF Texts

\* A text behind a text.
LEMMA JoinedTexts ==
  ASSUME NEW s \in Texts, NEW t \in Texts
  PROVE  s \o t \in Texts /\ Len(s \o t) = Len(s) + Len(t)
  BY ConcatProperties DEF Texts

\* Three texts, joined from either end.
LEMMA ThreeTexts ==
  ASSUME NEW s \in Texts, NEW t \in Texts, NEW u \in Texts
  PROVE  (s \o t) \o u = s \o (t \o u)
  BY ConcatAssociative DEF Texts

\* A byte or two behind a text.
LEMMA Behind ==
  ASSUME NEW s \in Texts, NEW a \in Byte, NEW b \in Byte
  PROVE  /\ s \o <<>> = s
         /\ s \o <<a>> = Append(s, a)
         /\ s \o <<a, b>> = Append(Append(s, a), b)
         /\ Append(s, a) \in Texts /\ Append(Append(s, a), b) \in Texts
<1>1. s \o <<>> = s /\ s \o <<a>> = Append(s, a)
  BY ConcatEmptySeq, AppendIsConcat DEF Texts
<1>2. Append(s, a) \in Texts /\ Append(Append(s, a), b) \in Texts
  BY AppendProperties DEF Texts
<1>3. PICK l \in Texts : l = s \o <<a, b>>
  <2>1. s \o <<a, b>> \in Texts
    BY ShortTexts, ConcatProperties DEF Texts
  <2> QED
    BY <2>1
<1>4. PICK n \in Nat : n = Len(s)
  BY LenProperties DEF Texts
<1>5. Len(l) = n + 2 /\ (\A i \in 1..n : l[i] = s[i]) /\ l[n + 1] = a /\ l[n + 2] = b
  <2>1. PICK e \in Texts : e = <<a, b>> /\ Len(e) = 2 /\ e[1] = a /\ e[2] = b
    <3>1. <<a, b>> \in Texts /\ Len(<<a, b>>) = 2 /\ <<a, b>>[1] = a /\ <<a, b>>[2] = b
      BY ShortTexts, Zenon
    <3> QED
      BY <3>1, Zenon
  <2>2. Len(l) = n + 2 /\ \A i \in 1..(n + 2) : l[i] = IF i <= n THEN s[i] ELSE e[i - n]
    BY <1>3, <1>4, <2>1, ConcatProperties DEF Texts
  <2>3. (n + 1) - n = 1 /\ (n + 2) - n = 2 /\ ~(n + 1 <= n) /\ ~(n + 2 <= n)
        /\ n + 1 \in 1..(n + 2) /\ n + 2 \in 1..(n + 2)
    BY <1>4
  <2>4. l[n + 1] = e[1] /\ l[n + 2] = e[2]
    BY <2>2, <2>3
  <2> QED
    BY <1>4, <2>1, <2>2, <2>4
<1>6. PICK r \in Texts : r = Append(Append(s, a), b)
  BY <1>2
<1>7. Len(r) = n + 2 /\ (\A i \in 1..n : r[i] = s[i]) /\ r[n + 1] = a /\ r[n + 2] = b
  <2>1. PICK m \in Texts : m = Append(s, a)
    BY <1>2
  <2>2. Len(m) = n + 1 /\ (\A i \in 1..n : m[i] = s[i]) /\ m[n + 1] = a
    BY <1>4, <2>1, AppendProperties DEF Texts
  <2>3. Len(r) = (n + 1) + 1 /\ (\A i \in 1..(n + 1) : r[i] = m[i]) /\ r[(n + 1) + 1] = b
    BY <1>6, <2>1, <2>2, AppendProperties DEF Texts
  <2>4. (n + 1) + 1 = n + 2 /\ n + 1 \in 1..(n + 1)
    BY <1>4
  <2> QED
    BY <1>4, <2>2, <2>3, <2>4
<1>8. \A i \in 1..(n + 2) : l[i] = r[i]
  <2>1. \A i \in 1..(n + 2) : i \in 1..n \/ i = n + 1 \/ i = n + 2
    BY <1>4
  <2> QED
    BY <2>1, <1>5, <1>7
<1>9. l = r
  BY <1>5, <1>7, <1>8, SeqEqual DEF Texts
<1> QED
  BY <1>1, <1>2, <1>3, <1>6, <1>9

\* What a byte is sent as.
Piece(b) == IF Codec!Special(b) THEN <<ESC, Complement(b)>> ELSE <<b>>

\* A byte is sent as one byte or two, none of them FLAG.
LEMMA PieceIsText ==
  ASSUME NEW b \in Byte
  PROVE  Piece(b) \in Texts
<1>1. ESC \in Byte /\ Complement(b) \in Byte
  BY LinkAssumption
<1> QED
  BY <1>1, ShortTexts DEF Piece

\* Each byte is escaped by itself.
LEMMA StuffedAppend ==
  ASSUME NEW src \in Texts, NEW b \in Byte
  PROVE  /\ Codec!Stuffed(src) \in Texts
         /\ Codec!Stuffed(Append(src, b)) = Codec!Stuffed(src) \o Piece(b)
<1>1. PICK n \in Nat : n = Len(src) /\ \A i \in 1..n : src[i] \in Byte
  BY LenProperties, ElementOfSeq DEF Texts
<1>2. PICK ss : ss = [i \in 1..n |-> Piece(src[i])]
  OBVIOUS
<1>3. ss \in Seq(Texts) /\ Len(ss) = n
  <2>1. ss \in [1..n -> Texts]
    BY <1>1, <1>2, PieceIsText
  <2> QED
    BY <1>1, <2>1, Listed
<1>4. Codec!Stuffed(src) = Codec!FlattenSeq(ss)
  BY <1>1, <1>2 DEF Codec!Stuffed, Piece
<1>5. PICK long : long = Append(src, b)
  OBVIOUS
<1>6. long \in Texts /\ Len(long) = n + 1 /\ (\A i \in 1..n : long[i] = src[i]) /\ long[n + 1] = b
  BY <1>1, <1>5, AppendProperties DEF Texts
<1>7. PICK tt : tt = [i \in 1..(n + 1) |-> Piece(long[i])]
  OBVIOUS
<1>8. Codec!Stuffed(long) = Codec!FlattenSeq(tt)
  BY <1>6, <1>7 DEF Codec!Stuffed, Piece
<1>9. Piece(b) \in Texts
  BY PieceIsText
<1>10. tt = Append(ss, Piece(b))
  <2>1. PICK uu : uu = Append(ss, Piece(b))
    OBVIOUS
  <2>2. /\ uu \in Seq(Texts) /\ Len(uu) = n + 1
        /\ (\A i \in 1..n : uu[i] = ss[i]) /\ uu[n + 1] = Piece(b)
    BY <1>3, <1>9, <2>1, AppendProperties
  <2>3. \A i \in 1..(n + 1) : tt[i] = uu[i]
    <3> TAKE i \in 1..(n + 1)
    <3>1. CASE i = n + 1
      BY <1>6, <1>7, <2>2, <3>1
    <3>2. CASE i # n + 1
      <4>1. i \in 1..n
        BY <1>1, <3>2
      <4>2. tt[i] = Piece(src[i]) /\ ss[i] = Piece(src[i])
        BY <1>2, <1>6, <1>7, <4>1
      <4> QED
        BY <2>2, <4>1, <4>2
    <3> QED
      BY <3>1, <3>2
  <2>4. tt \in Seq(Texts) /\ Len(tt) = n + 1
    <3>1. \A i \in 1..(n + 1) : long[i] \in Byte
      BY <1>6, ElementOfSeq DEF Texts
    <3>2. tt \in [1..(n + 1) -> Texts]
      BY <1>7, <3>1, PieceIsText
    <3> QED
      BY <1>1, <3>2, Listed
  <2> QED
    BY <2>1, <2>2, <2>3, <2>4, SeqEqual
<1> QED
  BY <1>3, <1>4, <1>5, <1>8, <1>9, <1>10, FlattenAppend

\* What the i-th byte of what was sent stands for.
Part(src, i) ==
  IF src[i] = ESC THEN <<>>
  ELSE IF i > 1 /\ src[i - 1] = ESC THEN <<Complement(src[i])>>
  ELSE <<src[i]>>

\* What a byte stands for is a text.
LEMMA PartIsText ==
  ASSUME NEW src, NEW i, src[i] \in Byte
  PROVE  Part(src, i) \in Texts
<1>1. PICK b \in Byte : b = src[i]
  OBVIOUS
<1>2. Complement(b) \in Byte
  BY LinkAssumption
<1>3. <<>> \in Texts /\ <<b>> \in Texts /\ <<Complement(b)>> \in Texts
  BY <1>2, ShortTexts
<1> QED
  BY <1>1, <1>3 DEF Part

\* What a byte stands for is told by it and the one before it.
LEMMA UnstuffedAppend ==
  ASSUME NEW src \in Texts, NEW b \in Byte, NEW long, long = Append(src, b)
  PROVE  /\ Codec!Unstuffed(src) \in Texts
         /\ Codec!Unstuffed(long) = Codec!Unstuffed(src) \o Part(long, Len(src) + 1)
<1>1. PICK n \in Nat : n = Len(src) /\ \A i \in 1..n : src[i] \in Byte
  BY LenProperties, ElementOfSeq DEF Texts
<1>2. PICK ss : ss = [i \in 1..n |-> Part(src, i)]
  OBVIOUS
<1>3. ss \in Seq(Texts) /\ Len(ss) = n
  <2>1. ss \in [1..n -> Texts]
    BY <1>1, <1>2, PartIsText
  <2> QED
    BY <1>1, <2>1, Listed
<1>4. Codec!Unstuffed(src) = Codec!FlattenSeq(ss)
  BY <1>1, <1>2 DEF Codec!Unstuffed, Part
<1>5. PICK last : last = n + 1
  OBVIOUS
<1>6. long \in Texts /\ Len(long) = last /\ (\A i \in 1..n : long[i] = src[i]) /\ long[last] = b
  BY <1>1, <1>5, AppendProperties DEF Texts
<1>7. PICK tt : tt = [i \in 1..last |-> Part(long, i)]
  OBVIOUS
<1>8. Codec!Unstuffed(long) = Codec!FlattenSeq(tt)
  BY <1>6, <1>7 DEF Codec!Unstuffed, Part
<1>9. Part(long, last) \in Texts
  BY <1>6, PartIsText
<1>10. tt = Append(ss, Part(long, last))
  <2>1. PICK uu : uu = Append(ss, Part(long, last))
    OBVIOUS
  <2>2. /\ uu \in Seq(Texts) /\ Len(uu) = last
        /\ (\A i \in 1..n : uu[i] = ss[i]) /\ uu[last] = Part(long, last)
    BY <1>3, <1>5, <1>9, <2>1, AppendProperties
  <2>3. \A i \in 1..last : tt[i] = uu[i]
    <3> TAKE i \in 1..last
    <3>1. CASE i = last
      BY <1>7, <2>2, <3>1
    <3>2. CASE i # last
      <4>1. i \in 1..n /\ i \in 1..last
        BY <1>1, <1>5, <3>2
      <4>2. i > 1 => i - 1 \in 1..n
        BY <1>1, <4>1
      <4>3. long[i] = src[i] /\ (i > 1 => long[i - 1] = src[i - 1])
        BY <1>6, <4>1, <4>2
      <4>4. Part(long, i) = Part(src, i)
        BY <4>3 DEF Part
      <4>5. tt[i] = Part(long, i) /\ ss[i] = Part(src, i)
        BY <1>2, <1>7, <4>1
      <4> QED
        BY <2>2, <4>1, <4>4, <4>5
    <3> QED
      BY <3>1, <3>2
  <2>4. tt \in Seq(Texts) /\ Len(tt) = last
    <3>1. \A i \in 1..last : long[i] \in Byte
      BY <1>6, ElementOfSeq DEF Texts
    <3>2. tt \in [1..last -> Texts]
      BY <1>7, <3>1, PartIsText
    <3>3. last \in Nat
      BY <1>1, <1>5
    <3> QED
      BY <3>2, <3>3, Listed
  <2> QED
    BY <2>1, <2>2, <2>3, <2>4, SeqEqual
<1> QED
  BY <1>1, <1>3, <1>4, <1>5, <1>8, <1>9, <1>10, FlattenAppend

\* Each ESC of s has a byte behind it that is none.
Clean(s) == Codec!Malformed(s) = {}

\* In such a text a byte behind an ESC is there and is no ESC.
LEMMA CleanMeans ==
  ASSUME NEW s \in Texts
  PROVE  Clean(s) <=> \A i \in 1..Len(s) : s[i] = ESC => i # Len(s) /\ s[i + 1] # ESC
  BY DEF Clean, Codec!Malformed

\* A byte that is no ESC, behind such a text, stands for itself.
LEMMA PlainAppend ==
  ASSUME NEW s \in Texts, Clean(s), NEW b \in Byte, b # ESC, NEW long, long = Append(s, b)
  PROVE  Clean(long) /\ Codec!Unstuffed(long) = Append(Codec!Unstuffed(s), b)
<1>1. PICK n \in Nat : n = Len(s)
  BY LenProperties DEF Texts
<1>2. long \in Texts /\ Len(long) = n + 1 /\ (\A i \in 1..n : long[i] = s[i]) /\ long[n + 1] = b
  BY <1>1, AppendProperties DEF Texts
<1>3. \A i \in 1..n : s[i] = ESC => i # n /\ s[i + 1] # ESC
  BY <1>1, CleanMeans
<1>4. Clean(long)
  <2> SUFFICES ASSUME NEW i \in 1..(n + 1), long[i] = ESC PROVE i # n + 1 /\ long[i + 1] # ESC
    BY <1>2, CleanMeans
  <2>1. i # n + 1
    BY <1>2
  <2>2. i \in 1..n
    BY <1>1, <2>1
  <2>3. i # n /\ s[i + 1] # ESC
    BY <1>2, <1>3, <2>2
  <2>4. i + 1 \in 1..n
    BY <1>1, <2>2, <2>3
  <2> QED
    BY <1>2, <2>1, <2>3, <2>4
<1>5. Part(long, n + 1) = <<b>>
  <2>1. ~(n + 1 > 1 /\ long[(n + 1) - 1] = ESC)
    <3> SUFFICES ASSUME n + 1 > 1, long[(n + 1) - 1] = ESC PROVE FALSE
      OBVIOUS
    <3>1. (n + 1) - 1 = n /\ n \in 1..n
      BY <1>1
    <3> QED
      BY <1>2, <1>3, <3>1
  <2> QED
    BY <1>2, <2>1 DEF Part
<1>6. Codec!Unstuffed(s) \in Texts /\ Codec!Unstuffed(long) = Codec!Unstuffed(s) \o <<b>>
  BY <1>1, <1>5, UnstuffedAppend
<1> QED
  BY <1>4, <1>6, Behind

\* An ESC and a byte that is none, behind such a text, stand for the complement.
LEMMA EscapedAppend ==
  ASSUME NEW s \in Texts, Clean(s), NEW c \in Byte, c # ESC,
         NEW mid, mid = Append(s, ESC), NEW long, long = Append(mid, c)
  PROVE  Clean(long) /\ Codec!Unstuffed(long) = Append(Codec!Unstuffed(s), Complement(c))
<1>0. ESC \in Byte /\ Complement(c) \in Byte
  BY LinkAssumption
<1>1. PICK n \in Nat : n = Len(s)
  BY LenProperties DEF Texts
<1>2. mid \in Texts /\ Len(mid) = n + 1 /\ (\A i \in 1..n : mid[i] = s[i]) /\ mid[n + 1] = ESC
  BY <1>0, <1>1, AppendProperties DEF Texts
<1>3. /\ long \in Texts /\ Len(long) = (n + 1) + 1
      /\ (\A i \in 1..(n + 1) : long[i] = mid[i]) /\ long[(n + 1) + 1] = c
  BY <1>0, <1>2, AppendProperties DEF Texts
<1>4. \A i \in 1..n : s[i] = ESC => i # n /\ s[i + 1] # ESC
  BY <1>1, CleanMeans
<1>5. \A i \in 1..((n + 1) + 1) : i \in 1..n \/ i = n + 1 \/ i = (n + 1) + 1
  BY <1>1
<1>6. n + 1 \in 1..(n + 1) /\ \A i \in 1..n : i \in 1..(n + 1)
  BY <1>1
<1>7. Clean(long)
  <2> SUFFICES ASSUME NEW i \in 1..((n + 1) + 1), long[i] = ESC
               PROVE  i # (n + 1) + 1 /\ long[i + 1] # ESC
    BY <1>3, CleanMeans
  <2>1. CASE i = (n + 1) + 1
    BY <1>3, <2>1
  <2>2. CASE i = n + 1
    BY <1>1, <1>3, <2>2
  <2>3. CASE i \in 1..n
    <3>1. s[i] = ESC
      BY <1>2, <1>3, <1>6, <2>3
    <3>2. i # n /\ s[i + 1] # ESC
      BY <1>4, <2>3, <3>1
    <3>3. i + 1 \in 1..n /\ i # (n + 1) + 1
      BY <1>1, <2>3, <3>2
    <3> QED
      BY <1>2, <1>3, <1>6, <3>2, <3>3
  <2> QED
    BY <1>5, <2>1, <2>2, <2>3
<1>8. Part(mid, n + 1) = <<>>
  BY <1>2 DEF Part
<1>9. Part(long, (n + 1) + 1) = <<Complement(c)>>
  <2>1. (n + 1) + 1 > 1 /\ ((n + 1) + 1) - 1 = n + 1
    BY <1>1
  <2>2. long[((n + 1) + 1) - 1] = ESC
    BY <1>2, <1>3, <1>6, <2>1
  <2> QED
    BY <1>3, <2>1, <2>2 DEF Part
<1>10. Codec!Unstuffed(s) \in Texts /\ Codec!Unstuffed(mid) = Codec!Unstuffed(s) \o <<>>
  BY <1>0, <1>1, <1>8, UnstuffedAppend
<1>11. Codec!Unstuffed(mid) = Codec!Unstuffed(s)
  BY <1>0, <1>10, Behind
<1>12. Codec!Unstuffed(long) = Codec!Unstuffed(mid) \o <<Complement(c)>>
  <2>1. Part(long, Len(mid) + 1) = <<Complement(c)>>
    BY <1>2, <1>9
  <2>2. mid \in Texts
    BY <1>2
  <2>3. Codec!Unstuffed(long) = Codec!Unstuffed(mid) \o Part(long, Len(mid) + 1)
    BY <2>2, UnstuffedAppend
  <2> QED
    BY <2>1, <2>3
<1> QED
  BY <1>0, <1>7, <1>10, <1>11, <1>12, Behind

\* What was escaped is at least as long as it was, holds no FLAG, and can be taken back.
Faithful(src) ==
  LET s == Codec!Stuffed(src)
  IN  /\ s \in Texts /\ Len(src) <= Len(s)
      /\ \A k \in 1..Len(s) : s[k] # FLAG
      /\ Clean(s) /\ Codec!Unstuffed(s) = src

\* Nothing is sent as nothing.
LEMMA FaithfulNothing == Codec!Stuffed(<<>>) = <<>> /\ Faithful(<<>>)
<1>1. Len(<<>>) = 0 /\ <<>> \in Texts
  BY EmptySeq DEF Texts
<1>2. \A f : [i \in 1..0 |-> f[i]] = <<>>
  OBVIOUS
<1>3. PICK e : e = [i \in 1..0 |-> Piece(<<>>[i])]
  OBVIOUS
<1>4. e = <<>>
  BY <1>3
<1>5. Codec!Stuffed(<<>>) = <<>>
  BY <1>1, <1>3, <1>4, FlattenNothing DEF Codec!Stuffed, Piece
<1>6. PICK u : u = [i \in 1..0 |-> Part(<<>>, i)]
  OBVIOUS
<1>7. u = <<>>
  BY <1>6
<1>8. Codec!Unstuffed(<<>>) = <<>>
  BY <1>1, <1>6, <1>7, FlattenNothing DEF Codec!Unstuffed, Part
<1>9. Clean(<<>>)
  BY <1>1, CleanMeans
<1> QED
  BY <1>1, <1>5, <1>8, <1>9 DEF Faithful

\* One byte more keeps what is sent faithful.
LEMMA FaithfulAppend ==
  ASSUME NEW src \in Texts, NEW b \in Byte, Faithful(src)
  PROVE  Faithful(Append(src, b))
<1>1. PICK s \in Texts : s = Codec!Stuffed(src)
  BY DEF Faithful
<1>2. Len(src) <= Len(s) /\ (\A k \in 1..Len(s) : s[k] # FLAG) /\ Clean(s) /\ Codec!Unstuffed(s) = src
  BY <1>1 DEF Faithful
<1>3. PICK t : t = Codec!Stuffed(Append(src, b))
  OBVIOUS
<1>4. t = s \o Piece(b)
  BY <1>1, <1>3, StuffedAppend
<1>5. Len(Append(src, b)) = Len(src) + 1 /\ Len(src) \in Nat /\ Len(s) \in Nat
  BY AppendProperties, LenProperties DEF Texts
<1>6. CASE ~Codec!Special(b)
  <2>1. b # FLAG /\ b # ESC
    BY <1>6 DEF Codec!Special
  <2>2. t = Append(s, b)
    BY <1>4, <1>6, Behind DEF Piece
  <2>3. t \in Texts /\ Len(t) = Len(s) + 1 /\ (\A k \in 1..Len(s) : t[k] = s[k]) /\ t[Len(s) + 1] = b
    BY <2>2, AppendProperties DEF Texts
  <2>4. Clean(t) /\ Codec!Unstuffed(t) = Append(src, b)
    BY <1>2, <2>1, <2>2, PlainAppend
  <2>5. \A k \in 1..(Len(s) + 1) : k \in 1..Len(s) \/ k = Len(s) + 1
    BY <1>5
  <2>6. \A k \in 1..Len(t) : t[k] # FLAG
    BY <1>2, <2>1, <2>3, <2>5
  <2>7. Len(Append(src, b)) <= Len(t)
    BY <1>2, <1>5, <2>3
  <2> QED
    BY <1>3, <2>3, <2>4, <2>6, <2>7 DEF Faithful
<1>7. CASE Codec!Special(b)
  <2>1. PICK c : c = Complement(b)
    OBVIOUS
  <2>2. c \in Byte /\ c # ESC /\ c # FLAG /\ Complement(c) = b /\ ESC \in Byte /\ ESC # FLAG
    BY <1>7, <2>1, LinkAssumption DEF Codec!Special
  <2>3. PICK mid : mid = Append(s, ESC)
    OBVIOUS
  <2>4. t = Append(mid, c)
    BY <1>4, <1>7, <2>1, <2>2, <2>3, Behind DEF Piece
  <2>5. /\ mid \in Texts /\ Len(mid) = Len(s) + 1
        /\ (\A k \in 1..Len(s) : mid[k] = s[k]) /\ mid[Len(s) + 1] = ESC
    BY <2>2, <2>3, AppendProperties DEF Texts
  <2>6. /\ t \in Texts /\ Len(t) = Len(mid) + 1
        /\ (\A k \in 1..Len(mid) : t[k] = mid[k]) /\ t[Len(mid) + 1] = c
    BY <2>2, <2>4, <2>5, AppendProperties DEF Texts
  <2>7. Clean(t) /\ Codec!Unstuffed(t) = Append(src, b)
    BY <1>2, <2>2, <2>3, <2>4, EscapedAppend
  <2>8. \A k \in 1..(Len(s) + 1) : k \in 1..Len(s) \/ k = Len(s) + 1
    BY <1>5
  <2>9. \A k \in 1..Len(mid) : mid[k] # FLAG
    BY <1>2, <2>2, <2>5, <2>8
  <2>10. \A k \in 1..(Len(mid) + 1) : k \in 1..Len(mid) \/ k = Len(mid) + 1
    BY <1>5, <2>5
  <2>11. \A k \in 1..Len(t) : t[k] # FLAG
    BY <2>2, <2>6, <2>9, <2>10
  <2>12. Len(Append(src, b)) <= Len(t)
    BY <1>2, <1>5, <2>5, <2>6
  <2> QED
    BY <1>3, <2>6, <2>7, <2>11, <2>12 DEF Faithful
<1> QED
  BY <1>6, <1>7

\* Every text is sent faithfully.
LEMMA AllFaithful ==
  ASSUME NEW src \in Texts
  PROVE  Faithful(src)
<1> DEFINE Bad == {n \in Nat : \E s \in Texts : Len(s) = n /\ ~Faithful(s)}
<1> SUFFICES ASSUME ~Faithful(src) PROVE FALSE
  OBVIOUS
<1>1. PICK n \in Bad : \A r \in Bad : n <= r
  <2>1. Bad \in SUBSET Nat /\ Len(src) \in Bad
    BY LenProperties DEF Texts
  <2> HIDE DEF Bad
  <2> QED
    BY <2>1, LeastNatural
<1>2. PICK s \in Texts : Len(s) = n /\ ~Faithful(s)
  BY <1>1
<1>3. s # <<>>
  BY <1>2, FaithfulNothing
<1>4. PICK t \in Texts : \E b \in Byte : s = Append(t, b)
  BY <1>3, SequenceEmptyOrAppend DEF Texts
<1>5. PICK b \in Byte : s = Append(t, b)
  BY <1>4
<1>6. Len(s) = Len(t) + 1 /\ Len(t) \in Nat
  BY <1>5, AppendProperties, LenProperties DEF Texts
<1>7. Len(t) \notin Bad
  BY <1>1, <1>2, <1>6
<1>8. Faithful(t)
  BY <1>6, <1>7
<1> QED
  BY <1>2, <1>5, <1>8, FaithfulAppend

\* What ez_hdlc_encode makes of any bytes holds no FLAG, and ez_hdlc_decode makes them of it again.
THEOREM DecodingUndoesEncoding ==
  \A src \in Texts : LET s == Codec!Stuffed(src)
                     IN  (\A k \in 1..Len(s) : s[k] # FLAG) /\ Codec!Unstuffed(s) = src
  BY AllFaithful DEF Faithful

-----------------------------------------------------------------------------
(*****************************************************************************)
(* The packet: a head, the escaped payload and its checksum.               *)
(*****************************************************************************)
\* What Unstuffed returns is a text.
LEMMA UnstuffedIsText ==
  ASSUME NEW s \in Texts
  PROVE  Codec!Unstuffed(s) \in Texts
<1>1. ESC \in Byte
  BY LinkAssumption
<1> QED
  BY <1>1, UnstuffedAppend

\* A text of no byte, of one or of two.
LEMMA ShortText ==
  ASSUME NEW t \in Texts, Len(t) <= 2
  PROVE  \/ t = <<>>
         \/ \E a \in Byte : t = <<a>> /\ t[1] = a /\ Len(t) = 1
         \/ \E a \in Byte, b \in Byte : t = <<a, b>> /\ t[1] = a /\ t[2] = b /\ Len(t) = 2
<1>1. PICK n \in Nat : n = Len(t) /\ \A i \in 1..n : t[i] \in Byte
  BY LenProperties, ElementOfSeq DEF Texts
<1>2. CASE n = 0
  BY <1>1, <1>2, EmptySeq DEF Texts
<1>3. CASE n = 1
  <2>1. t[1] \in Byte
    BY <1>1, <1>3
  <2>2. PICK e \in Texts : e = <<t[1]>> /\ Len(e) = 1 /\ e[1] = t[1]
    BY <2>1, ShortTexts
  <2>3. t = e
    <3>1. \A i \in 1..1 : i = 1
      OBVIOUS
    <3>2. Len(t) = Len(e) /\ \A i \in 1..Len(t) : t[i] = e[i]
      BY <1>1, <1>3, <2>2, <3>1
    <3> QED
      BY <2>2, <3>2, SeqEqual DEF Texts
  <2> QED
    BY <1>1, <1>3, <2>1, <2>2, <2>3
<1>4. CASE n = 2
  <2>1. t[1] \in Byte /\ t[2] \in Byte
    BY <1>1, <1>4
  <2>2. PICK e \in Texts : e = <<t[1], t[2]>> /\ Len(e) = 2 /\ e[1] = t[1] /\ e[2] = t[2]
    <3>1. /\ <<t[1], t[2]>> \in Texts /\ Len(<<t[1], t[2]>>) = 2
          /\ <<t[1], t[2]>>[1] = t[1] /\ <<t[1], t[2]>>[2] = t[2]
      BY <2>1, ShortTexts, Zenon
    <3> QED
      BY <3>1, Zenon
  <2>3. t = e
    <3>1. \A i \in 1..2 : i = 1 \/ i = 2
      OBVIOUS
    <3> QED
      BY <1>1, <1>4, <2>2, <3>1, SeqEqual DEF Texts
  <2> QED
    BY <1>1, <1>4, <2>1, <2>2, <2>3
<1> QED
  BY <1>1, <1>2, <1>3, <1>4

\* Bytes that are no ESC, behind what was escaped, stand for themselves.
LEMMA PlainTail ==
  ASSUME NEW s \in Texts, Clean(s), NEW t \in Texts, Len(t) <= 2,
         \A k \in 1..Len(t) : t[k] # ESC
  PROVE  Clean(s \o t) /\ Codec!Unstuffed(s \o t) = Codec!Unstuffed(s) \o t
<1>1. PICK u \in Texts : u = Codec!Unstuffed(s)
  BY UnstuffedIsText
<1>2. CASE t = <<>>
  <2>1. s \o t = s /\ u \o t = u
    BY <1>2, ConcatEmptySeq DEF Texts
  <2> QED
    BY <1>1, <2>1
<1>3. ASSUME NEW a \in Byte, t = <<a>>, t[1] = a, Len(t) = 1
      PROVE  Clean(s \o t) /\ Codec!Unstuffed(s \o t) = u \o t
  <2>1. a # ESC
    BY <1>3
  <2>2. s \o t = Append(s, a) /\ u \o t = Append(u, a)
    BY <1>3, Behind
  <2> QED
    BY <1>1, <2>1, <2>2, PlainAppend
<1>4. ASSUME NEW a \in Byte, NEW b \in Byte, t = <<a, b>>, t[1] = a, t[2] = b, Len(t) = 2
      PROVE  Clean(s \o t) /\ Codec!Unstuffed(s \o t) = u \o t
  <2>1. a # ESC /\ b # ESC
    <3>1. 1 \in 1..Len(t) /\ 2 \in 1..Len(t)
      BY <1>4
    <3> QED
      BY <1>4, <3>1
  <2>2. s \o t = Append(Append(s, a), b) /\ u \o t = Append(Append(u, a), b)
    BY <1>4, Behind
  <2>3. PICK m \in Texts : m = Append(s, a)
    BY Behind
  <2>4. Clean(m) /\ Codec!Unstuffed(m) = Append(u, a)
    BY <1>1, <2>1, <2>3, PlainAppend
  <2>5. PICK l : l = Append(m, b)
    OBVIOUS
  <2>6. Clean(l) /\ Codec!Unstuffed(l) = Append(Codec!Unstuffed(m), b)
    BY <2>1, <2>4, <2>5, PlainAppend
  <2> QED
    BY <2>2, <2>3, <2>4, <2>5, <2>6
<1> QED
  BY <1>1, <1>2, <1>3, <1>4, ShortText

\* What a packet carries behind its payload is one byte, two or none.
LEMMA CheckIsText ==
  ASSUME NEW d \in Payloads, NEW sum, sum = Codec!Check(d, Mode)
  PROVE  /\ d \in Texts /\ sum \in Texts /\ Len(sum) <= 2
         /\ \/ Mode = "VERIFY" /\ sum = <<PacketCrc8(d)>> /\ PacketCrc8(d) \in Byte /\ Len(sum) = 1
            \/ Mode = "MOD_BUS" /\ Len(sum) = 2
            \/ Mode = "NOT_VERIFY" /\ sum = <<>> /\ Len(sum) = 0 /\ d # <<>>
<1>1. /\ d \in Texts /\ PacketCrc8(d) \in Byte /\ PacketCrc16(d) \in Texts /\ Len(PacketCrc16(d)) = 2
      /\ Mode \in {"VERIFY", "MOD_BUS", "NOT_VERIFY"} /\ (Mode = "NOT_VERIFY" => d # <<>>)
  BY LinkAssumption DEF Texts, Codec!Modes
<1>2. <<>> \in Texts /\ Len(<<>>) = 0 /\ <<PacketCrc8(d)>> \in Texts /\ Len(<<PacketCrc8(d)>>) = 1
  BY <1>1, ShortTexts
<1>3. 0 <= 2 /\ 1 <= 2 /\ 2 <= 2
  OBVIOUS
<1>4. CASE Mode = "VERIFY"
  <2>1. sum = <<PacketCrc8(d)>>
    BY <1>4 DEF Codec!Check
  <2> QED
    BY <1>1, <1>2, <1>3, <1>4, <2>1, Zenon
<1>5. CASE Mode = "MOD_BUS"
  <2>1. sum = PacketCrc16(d)
    BY <1>5 DEF Codec!Check
  <2> QED
    BY <1>1, <1>3, <1>5, <2>1, Zenon
<1>6. CASE Mode = "NOT_VERIFY"
  <2>1. sum = <<>>
    BY <1>6 DEF Codec!Check
  <2> QED
    BY <1>1, <1>2, <1>3, <1>6, <2>1, Zenon
<1> QED
  BY <1>1, <1>4, <1>5, <1>6

\* p is a packet of d that fits into n bytes.
Packed(d, p, n) ==
  LET s   == Codec!Stuffed(d)
      sum == Codec!Check(d, Mode)
  IN  /\ p.ret = Len(s) + Len(sum) + 2 /\ Len(s) + Len(sum) > 0 /\ p.ret < FLAG /\ p.ret <= n
      /\ p.bytes = <<FLAG, p.ret>> \o (s \o sum)

\* A packet that was made is one.
LEMMA PacketMade ==
  ASSUME NEW d \in Payloads, NEW n \in Nat, NEW p, p = Codec!MakePacket(d, n, Mode), p.ret > 0
  PROVE  Packed(d, p, n)
<1>1. PICK sum : sum = Codec!Check(d, Mode)
  OBVIOUS
<1>2. d \in Texts /\ sum \in Texts /\ (sum = <<>> => d # <<>>) /\ Len(sum) \in Nat
      /\ (sum = <<>> <=> Len(sum) = 0)
  <2>1. d \in Texts /\ sum \in Texts
    BY <1>1, CheckIsText
  <2>2. Len(sum) \in Nat /\ (sum = <<>> <=> Len(sum) = 0)
    BY <2>1, EmptySeq, LenProperties DEF Texts
  <2>3. sum = <<>> => d # <<>>
    <3>1. Len(sum) = 1 \/ Len(sum) = 2 \/ d # <<>>
      BY <1>1, CheckIsText, Zenon
    <3> QED
      BY <2>2, <3>1
  <2> QED
    BY <2>1, <2>2, <2>3
<1>3. PICK s \in Texts : s = Codec!Stuffed(d)
  BY <1>2, AllFaithful DEF Faithful
<1>4. Len(d) <= Len(s) /\ Len(s) \in Nat /\ Len(d) \in Nat /\ (d # <<>> => Len(d) # 0)
  <2>1. Len(d) <= Len(s)
    BY <1>2, <1>3, AllFaithful DEF Faithful
  <2> QED
    BY <1>2, <2>1, EmptySeq, LenProperties DEF Texts
<1>5. PICK body : body = Codec!Encode(d, n - 2)
  OBVIOUS
<1>6. PICK total : total = body.ret + Len(sum) + 2
  OBVIOUS
<1>7. p = IF body.ret < 0 THEN body
          ELSE IF sum # <<>> /\ total > n THEN Codec!Failed(-2)
          ELSE IF total >= FLAG THEN Codec!Failed(-3)
          ELSE Codec!Done(<<FLAG, total>> \o body.bytes \o sum)
  BY <1>1, <1>5, <1>6 DEF Codec!MakePacket, Codec!HEAD_LEN
<1>8. Codec!Failed(-2).ret = -2 /\ Codec!Failed(-3).ret = -3 /\ Codec!Failed(-1).ret = -1
      /\ Codec!Failed(Codec!NO_ROOM).ret = -5
  BY DEF Codec!Failed, Codec!NO_ROOM
<1>9. ~(body.ret < 0) /\ ~(sum # <<>> /\ total > n) /\ ~(total >= FLAG)
      /\ p = Codec!Done(<<FLAG, total>> \o body.bytes \o sum)
  <2>1. ~(body.ret < 0)
    <3> SUFFICES ASSUME body.ret < 0 PROVE FALSE
      OBVIOUS
    <3>1. p = body
      BY <1>7
    <3>2. body.ret \in Int
      <4>1. CASE d = <<>>
        BY <1>5, <4>1 DEF Codec!Encode, Codec!Done
      <4>2. CASE d # <<>>
        BY <1>3, <1>4, <1>5, <1>8, <4>2 DEF Codec!Encode, Codec!Done
      <4> QED
        BY <4>1, <4>2
    <3> QED
      BY <3>1, <3>2
  <2> QED
    BY <1>7, <1>8, <2>1
<1>10. body = Codec!Done(s) /\ (d # <<>> => Len(s) < n - 2)
  <2>1. CASE d = <<>>
    <3>1. s = <<>>
      BY <1>3, <2>1, FaithfulNothing
    <3> QED
      BY <1>5, <2>1, <3>1 DEF Codec!Encode
  <2>2. CASE d # <<>>
    <3>1. ~(Len(d) > n - 2) /\ ~(Len(s) >= n - 2)
      <4>1. body.ret = -1 => body.ret < 0
        OBVIOUS
      <4>2. body.ret = -5 => body.ret < 0
        OBVIOUS
      <4> QED
        BY <1>3, <1>5, <1>8, <1>9, <2>2, <4>1, <4>2 DEF Codec!Encode
    <3> QED
      BY <1>3, <1>4, <1>5, <2>2, <3>1 DEF Codec!Encode
  <2> QED
    BY <2>1, <2>2
<1>11. body.ret = Len(s) /\ body.bytes = s /\ total = Len(s) + Len(sum) + 2
  BY <1>6, <1>10 DEF Codec!Done
<1>12. total \in Nat /\ Len(s) + Len(sum) > 0 /\ total < FLAG /\ total <= n
  <2>1. FLAG \in Nat
    BY ReceiverAssumption DEF Byte
  <2>2. Len(s) + Len(sum) > 0
    BY <1>2, <1>4
  <2>3. total <= n
    BY <1>2, <1>4, <1>9, <1>10, <1>11
  <2> QED
    BY <1>2, <1>4, <1>9, <1>11, <2>1, <2>2, <2>3
<1>13. total \in Byte /\ FLAG \in Byte
  BY <1>12, ReceiverAssumption DEF Byte
<1>14. PICK head \in Texts : head = <<FLAG, total>> /\ Len(head) = 2
  <2>1. <<FLAG, total>> \in Texts /\ Len(<<FLAG, total>>) = 2
    BY <1>13, ShortTexts, Zenon
  <2> QED
    BY <2>1, Zenon
<1>15. p = Codec!Done((head \o s) \o sum)
  BY <1>9, <1>11, <1>14
<1>16. (head \o s) \o sum = head \o (s \o sum)
  BY <1>2, ThreeTexts
<1>17. p.bytes = head \o (s \o sum) /\ p.ret = Len(head \o (s \o sum))
  BY <1>15, <1>16 DEF Codec!Done
<1>18. Len(head \o (s \o sum)) = 2 + (Len(s) + Len(sum))
  <2>1. s \o sum \in Texts /\ Len(s \o sum) = Len(s) + Len(sum)
    BY <1>2, ConcatProperties DEF Texts
  <2> QED
    BY <1>14, <2>1, ConcatProperties DEF Texts
<1>19. p.ret = total
  BY <1>2, <1>4, <1>11, <1>17, <1>18
<1> QED
  BY <1>1, <1>3, <1>11, <1>12, <1>14, <1>17, <1>19 DEF Packed

\* No byte of a checksum is one that the receiver or the codec looks for.
PlainChecks ==
  \A d \in Payloads : \A k \in 1..Len(Codec!Check(d, Mode)) : ~Codec!Special(Codec!Check(d, Mode)[k])

\* A number up to 255 is a byte.
LEMMA SmallIsByte == \A n \in Nat : n <= 255 => n \in Byte
  BY DEF Byte

\* How the total bytes of a packet of at most n are laid out: a head, s and sum.
Laid(n, s, sum, body, all, total) ==
  /\ s \in Texts /\ sum \in Texts /\ body \in Texts /\ Len(s) \in Nat /\ Len(sum) \in Nat
  /\ Len(body) = Len(s) + Len(sum) /\ total = Len(body) + 2 /\ total \in Nat /\ total >= 3
  /\ total < FLAG /\ total <= n
  /\ all \in Texts /\ Len(all) = total /\ all[1] = FLAG /\ all[2] = total
  /\ \A k \in 1..Len(body) : all[k + 2] = body[k]

\* The bytes of a packet.
LEMMA PacketBytes ==
  ASSUME NEW d \in Payloads, NEW n \in Nat, NEW p, Packed(d, p, n),
         NEW s, s = Codec!Stuffed(d), NEW sum, sum = Codec!Check(d, Mode), NEW body, body = s \o sum,
         NEW all, all = p.bytes, NEW total, total = p.ret
  PROVE  Laid(n, s, sum, body, all, total)
<1>1. s \in Texts /\ sum \in Texts
  <2>1. s \in Texts
    BY CheckIsText, AllFaithful DEF Faithful
  <2>2. sum \in Texts
    BY CheckIsText
  <2> QED
    BY <2>1, <2>2
<1>2. body \in Texts /\ Len(body) = Len(s) + Len(sum) /\ Len(s) \in Nat /\ Len(sum) \in Nat
  BY <1>1, ConcatProperties, LenProperties DEF Texts
<1>4. total = Len(s) + Len(sum) + 2 /\ Len(s) + Len(sum) > 0 /\ total < FLAG /\ total <= n
  BY DEF Packed
<1>5. total \in Byte /\ FLAG \in Byte /\ total \in Nat /\ total >= 3 /\ total = Len(body) + 2
  <2>1. FLAG \in Byte /\ FLAG \in Nat /\ FLAG <= 255
    BY ReceiverAssumption DEF Byte
  <2>2. total \in Nat /\ total >= 3 /\ total <= 255 /\ total = Len(body) + 2
    BY <1>2, <1>4, <2>1
  <2>3. total \in Byte
    BY <2>2, SmallIsByte, Zenon
  <2> QED
    BY <2>1, <2>2, <2>3, Zenon
<1>6. PICK head \in Texts : head = <<FLAG, total>> /\ Len(head) = 2 /\ head[1] = FLAG /\ head[2] = total
  <2>1. /\ <<FLAG, total>> \in Texts /\ Len(<<FLAG, total>>) = 2
        /\ <<FLAG, total>>[1] = FLAG /\ <<FLAG, total>>[2] = total
    BY <1>5, ShortTexts, Zenon
  <2> QED
    BY <2>1, Zenon
<1>8. all = head \o body
  BY <1>6 DEF Packed
<1>9. all \in Texts /\ Len(all) = 2 + Len(body)
      /\ \A k \in 1..(2 + Len(body)) : all[k] = IF k <= 2 THEN head[k] ELSE body[k - 2]
  BY <1>2, <1>6, <1>8, ConcatProperties DEF Texts
<1>10. all[1] = FLAG /\ all[2] = total
  <2>1. 1 \in 1..(2 + Len(body)) /\ 2 \in 1..(2 + Len(body)) /\ Len(body) \in Nat
    BY <1>2
  <2> QED
    BY <1>6, <1>9, <2>1
<1>11. ASSUME NEW k \in 1..Len(body) PROVE all[k + 2] = body[k]
  <2>1. k + 2 \in 1..(2 + Len(body)) /\ ~(k + 2 <= 2) /\ (k + 2) - 2 = k
    BY <1>2
  <2> QED
    BY <1>9, <2>1
<1>12. Len(all) = total
  BY <1>2, <1>5, <1>9
<1> QED
  BY <1>1, <1>2, <1>4, <1>5, <1>9, <1>10, <1>11, <1>12 DEF Laid

\* FLAG occurs in a packet at its head only.
LEMMA FlagAtHead ==
  ASSUME PlainChecks, NEW d \in Payloads, NEW n \in Nat, NEW p, Packed(d, p, n)
  PROVE  \A k \in 2..p.ret : p.bytes[k] # FLAG
<1>1. PICK s : s = Codec!Stuffed(d)
  OBVIOUS
<1>2. PICK sum : sum = Codec!Check(d, Mode)
  OBVIOUS
<1>3. PICK body : body = s \o sum
  OBVIOUS
<1>4. PICK all : all = p.bytes
  OBVIOUS
<1>5. PICK total : total = p.ret
  OBVIOUS
<1>6. /\ s \in Texts /\ sum \in Texts /\ Len(s) \in Nat /\ Len(sum) \in Nat
      /\ Len(body) = Len(s) + Len(sum) /\ total = Len(body) + 2 /\ total \in Nat /\ total < FLAG
      /\ all[2] = total /\ \A k \in 1..Len(body) : all[k + 2] = body[k]
  <2>1. Laid(n, s, sum, body, all, total)
    BY <1>1, <1>2, <1>3, <1>4, <1>5, PacketBytes
  <2> QED
    BY <2>1 DEF Laid
<1>7. \A k \in 1..Len(s) : s[k] # FLAG
  BY <1>1, CheckIsText, AllFaithful DEF Faithful
<1>8. \A k \in 1..Len(sum) : sum[k] # FLAG
  BY <1>2 DEF PlainChecks, Codec!Special
<1>9. ASSUME NEW k \in 1..Len(body) PROVE body[k] # FLAG
  <2>1. \A j \in 1..Len(s) + Len(sum) : body[j] = IF j <= Len(s) THEN s[j] ELSE sum[j - Len(s)]
    BY <1>3, <1>6, ConcatProperties DEF Texts
  <2>2. CASE k <= Len(s)
    <3>1. k \in 1..Len(s) /\ k \in 1..Len(s) + Len(sum)
      BY <1>6, <2>2
    <3> QED
      BY <1>7, <2>1, <2>2, <3>1
  <2>3. CASE ~(k <= Len(s))
    <3>1. k - Len(s) \in 1..Len(sum) /\ k \in 1..Len(s) + Len(sum)
      BY <1>6, <2>3
    <3> QED
      BY <1>8, <2>1, <2>3, <3>1
  <2> QED
    BY <2>2, <2>3
<1>10. ASSUME NEW k \in 2..total PROVE all[k] # FLAG
  <2>1. FLAG \in Nat
    BY ReceiverAssumption DEF Byte
  <2>2. CASE k = 2
    BY <1>6, <2>1, <2>2
  <2>3. CASE k # 2
    <3>1. k - 2 \in 1..Len(body) /\ (k - 2) + 2 = k
      BY <1>6, <2>3
    <3> QED
      BY <1>6, <1>9, <3>1
  <2> QED
    BY <2>2, <2>3
<1> QED
  BY <1>4, <1>5, <1>10

\* What was packed is unpacked, whole.
LEMMA GetBack ==
  ASSUME PlainChecks, NEW d \in Payloads, NEW p, Packed(d, p, Room)
  PROVE  Codec!GetData(p.bytes, Room, Mode) = Codec!Done(d)
<1>1. PICK s : s = Codec!Stuffed(d)
  OBVIOUS
<1>2. PICK sum : sum = Codec!Check(d, Mode)
  OBVIOUS
<1>3. PICK body : body = s \o sum
  OBVIOUS
<1>4. PICK all : all = p.bytes
  OBVIOUS
<1>5. PICK total : total = p.ret
  OBVIOUS
<1>6. Room \in Nat
  BY LinkAssumption
<1>7. /\ s \in Texts /\ sum \in Texts /\ body \in Texts /\ Len(s) \in Nat /\ Len(sum) \in Nat
      /\ Len(body) = Len(s) + Len(sum) /\ total = Len(body) + 2 /\ total \in Nat /\ total >= 3
      /\ total <= Room /\ all \in Texts /\ Len(all) = total /\ all[1] = FLAG
      /\ \A k \in 1..Len(body) : all[k + 2] = body[k]
  <2>1. Laid(Room, s, sum, body, all, total)
    BY <1>1, <1>2, <1>3, <1>4, <1>5, <1>6, PacketBytes
  <2> QED
    BY <2>1 DEF Laid
<1>8. d \in Texts /\ Len(d) <= Len(s) /\ Clean(s) /\ Codec!Unstuffed(s) = d /\ Len(d) \in Nat
  BY <1>1, CheckIsText, AllFaithful, LenProperties DEF Faithful, Texts
<1>9. Len(sum) <= 2
  BY <1>2, CheckIsText
<1>10. \A k \in 1..Len(sum) : sum[k] # ESC
  BY <1>2 DEF PlainChecks, Codec!Special
<1>11. Clean(body) /\ Codec!Unstuffed(body) = d \o sum
  BY <1>3, <1>7, <1>8, <1>9, <1>10, PlainTail
<1>12. PICK both \in Texts : both = d \o sum /\ Len(both) = Len(d) + Len(sum)
                             /\ \A k \in 1..Len(d) : both[k] = d[k]
  <2>1. PICK b : b = d \o sum
    OBVIOUS
  <2>2. b \in Texts /\ Len(b) = Len(d) + Len(sum)
        /\ \A k \in 1..Len(d) + Len(sum) : b[k] = IF k <= Len(d) THEN d[k] ELSE sum[k - Len(d)]
    BY <1>7, <1>8, <2>1, ConcatProperties DEF Texts
  <2>3. \A k \in 1..Len(d) : k \in 1..Len(d) + Len(sum) /\ k <= Len(d)
    BY <1>7, <1>8
  <2> QED
    BY <2>1, <2>2, <2>3
<1>13. SubSeq(all, 3, total) = body
  <2>1. \A k \in 3..total : all[k] \in Byte
    BY <1>7, ElementOfSeq DEF Texts
  <2>2. PICK rest : rest = SubSeq(all, 3, total)
    OBVIOUS
  <2>3. rest \in Texts /\ Len(rest) = (IF 3 <= total THEN total - 3 + 1 ELSE 0)
        /\ \A k \in 1..total - 3 + 1 : rest[k] = all[3 + k - 1]
    BY <1>7, <2>1, <2>2, SubSeqProperties DEF Texts
  <2>4. total - 3 + 1 = Len(body) /\ Len(body) \in Nat
    BY <1>7
  <2>5. \A k \in 1..Len(body) : 3 + k - 1 = k + 2
    BY <2>4
  <2>6. Len(rest) = Len(body) /\ \A k \in 1..Len(rest) : rest[k] = body[k]
    BY <1>7, <2>3, <2>4, <2>5
  <2> QED
    BY <1>7, <2>2, <2>3, <2>6, SeqEqual DEF Texts
<1>14. Codec!Decode(body, Room) = Codec!Done(both)
  <2>1. body # <<>>
    BY <1>7, EmptySeq
  <2>2. ~(Room <= 0) /\ ~(Len(both) >= Room)
    BY <1>6, <1>7, <1>8, <1>12
  <2>3. Codec!Malformed(body) = {}
    BY <1>11 DEF Clean
  <2> QED
    BY <1>11, <1>12, <2>1, <2>2, <2>3 DEF Codec!Decode
<1>15. PICK got : got = Codec!Done(both)
  OBVIOUS
<1>16. got.ret = Len(both) /\ got.bytes = both /\ ~(got.ret < 0)
  BY <1>7, <1>8, <1>12, <1>15 DEF Codec!Done
<1>17. Codec!GetData(all, Room, Mode) =
         CASE Mode = "NOT_VERIFY" -> got
           [] Mode = "VERIFY" -> IF PacketCrc8(got.bytes) # 0 THEN Codec!Failed(-3)
                                 ELSE Codec!Done(SubSeq(got.bytes, 1, got.ret - 1))
           [] Mode = "MOD_BUS" -> [ret |-> got.ret - 2,
                                   bytes |-> SubSeq(got.bytes, 1, got.ret - 2)]
  <2>1. Codec!HEAD_LEN = 2 /\ Codec!HEAD_LEN + 1 = 3 /\ ~(Len(all) <= Codec!HEAD_LEN)
    BY <1>7 DEF Codec!HEAD_LEN
  <2>2. Codec!Decode(SubSeq(all, Codec!HEAD_LEN + 1, Len(all)), Room) = got
    BY <1>7, <1>13, <1>14, <1>15, <2>1
  <2> QED
    BY <1>7, <1>16, <2>1, <2>2 DEF Codec!GetData
<1>18. SubSeq(both, 1, Len(d)) = d
  <2>1. PICK pre : pre = SubSeq(both, 1, Len(d))
    OBVIOUS
  <2>2. \A k \in 1..Len(d) : both[k] \in Byte
    BY <1>8, <1>12, ElementOfSeq DEF Texts
  <2>3. pre \in Texts /\ Len(pre) = (IF 1 <= Len(d) THEN Len(d) - 1 + 1 ELSE 0)
        /\ \A k \in 1..Len(d) - 1 + 1 : pre[k] = both[1 + k - 1]
    BY <1>8, <2>1, <2>2, SubSeqProperties DEF Texts
  <2>4. Len(pre) = Len(d) /\ Len(d) - 1 + 1 = Len(d) /\ \A k \in 1..Len(d) : 1 + k - 1 = k
    BY <1>8, <2>3
  <2>5. \A k \in 1..Len(d) : pre[k] = d[k]
    BY <1>12, <2>3, <2>4
  <2> QED
    BY <1>8, <2>1, <2>3, <2>4, <2>5, SeqEqual DEF Texts
<1>19. CASE Mode = "VERIFY" /\ sum = <<PacketCrc8(d)>> /\ PacketCrc8(d) \in Byte /\ Len(sum) = 1
  <2>1. both = Append(d, PacketCrc8(d))
    BY <1>8, <1>12, <1>19, Behind
  <2>2. PacketCrc8(both) = 0
    BY <2>1, LinkAssumption
  <2>3. got.ret - 1 = Len(d)
    BY <1>8, <1>12, <1>16, <1>19
  <2>4. Codec!GetData(all, Room, Mode) = Codec!Done(SubSeq(got.bytes, 1, got.ret - 1))
    BY <1>16, <1>17, <1>19, <2>2
  <2> QED
    BY <1>4, <1>16, <1>18, <2>3, <2>4
<1>20. CASE Mode = "MOD_BUS" /\ Len(sum) = 2
  <2>1. got.ret - 2 = Len(d)
    BY <1>8, <1>12, <1>16, <1>20
  <2>2. Codec!GetData(all, Room, Mode) =
          [ret |-> got.ret - 2, bytes |-> SubSeq(got.bytes, 1, got.ret - 2)]
    BY <1>17, <1>20
  <2> QED
    BY <1>4, <1>16, <1>18, <2>1, <2>2 DEF Codec!Done
<1>21. CASE Mode = "NOT_VERIFY" /\ sum = <<>> /\ Len(sum) = 0
  <2>1. both = d
    BY <1>8, <1>12, <1>21, ConcatEmptySeq DEF Texts
  <2>2. Codec!GetData(all, Room, Mode) = got
    BY <1>17, <1>21
  <2> QED
    BY <1>4, <1>15, <2>1, <2>2
<1>22. \/ Mode = "VERIFY" /\ sum = <<PacketCrc8(d)>> /\ PacketCrc8(d) \in Byte /\ Len(sum) = 1
       \/ Mode = "MOD_BUS" /\ Len(sum) = 2
       \/ Mode = "NOT_VERIFY" /\ sum = <<>> /\ Len(sum) = 0
  BY <1>2, CheckIsText, Zenon
<1> QED
  BY <1>19, <1>20, <1>21, <1>22

-----------------------------------------------------------------------------
(*****************************************************************************)
(* The link: the packets lie on the line as they were sent.                *)
(*****************************************************************************)
SentRecord == [at : Nat \ {0}, len : Nat, data : Payloads, intact : BOOLEAN]

\* What a record of a packet holds.
LEMMA SentFields ==
  ASSUME NEW r \in SentRecord
  PROVE  r.at \in Nat /\ r.at >= 1 /\ r.len \in Nat /\ r.data \in Payloads /\ r.intact \in BOOLEAN
  BY DEF SentRecord

PacketOf(r) == Codec!MakePacket(r.data, Room, Mode)

\* The packet of r is in the stream, at its place, as it was sent.
OnLine(r, stream) == \A k \in 1..r.len : stream[r.at + k - 1] = PacketOf(r).bytes[k]

\* The i-th of the packets lies in the stream, behind those before it, and if it is
\* intact it is there as it was sent.
Lies(records, i, stream) ==
  /\ records[i].len = PacketOf(records[i]).ret /\ records[i].len > 0
  /\ records[i].at + records[i].len - 1 <= Len(stream)
  /\ \A j \in 1..i - 1 : records[j].at + records[j].len <= records[i].at
  /\ records[i].intact => OnLine(records[i], stream)

\* The places of a piece that ends on the line.
LEMMA Within ==
  ASSUME NEW a \in Nat, NEW n \in Nat, NEW e \in Nat, NEW k \in 1..n,
         NEW m, m = a + k - 1, a >= 1, a + n - 1 <= e
  PROVE  m \in Nat /\ 1 <= m /\ m <= e
  OBVIOUS

\* A packet is where it was when the line grows.
LEMMA MoreStream ==
  ASSUME NEW records \in Seq(SentRecord), NEW i \in 1..Len(records),
         NEW stream \in Texts, NEW more \in Texts, Lies(records, i, stream)
  PROVE  Lies(records, i, stream \o more)
<1>1. PICK long : long = stream \o more
  OBVIOUS
<1>2. Len(long) = Len(stream) + Len(more) /\ Len(stream) \in Nat /\ Len(more) \in Nat
      /\ \A q \in 1..Len(stream) + Len(more) :
           long[q] = IF q <= Len(stream) THEN stream[q] ELSE more[q - Len(stream)]
  BY <1>1, ConcatProperties, LenProperties DEF Texts
<1>3. PICK r \in SentRecord : r = records[i]
  BY ElementOfSeq
<1>4. r.at \in Nat /\ r.at >= 1 /\ r.len \in Nat
  BY SentFields
<1>5. r.len = PacketOf(r).ret /\ r.len > 0 /\ r.at + r.len - 1 <= Len(stream)
      /\ (r.intact => OnLine(r, stream))
  BY <1>3 DEF Lies
<1>6. r.at + r.len - 1 <= Len(long)
  BY <1>2, <1>4, <1>5
<1>7. ASSUME OnLine(r, stream) PROVE OnLine(r, long)
  <2> SUFFICES ASSUME NEW k \in 1..r.len PROVE long[r.at + k - 1] = PacketOf(r).bytes[k]
    BY DEF OnLine
  <2>1. PICK q : q = r.at + k - 1
    OBVIOUS
  <2>2. q \in 1..Len(stream) + Len(more) /\ q <= Len(stream)
    <3>1. PICK at \in Nat : at = r.at /\ at >= 1
      BY <1>4
    <3>2. PICK len \in Nat : len = r.len
      BY <1>4
    <3>3. PICK e \in Nat : e = Len(stream)
      BY <1>2
    <3>4. PICK f \in Nat : f = Len(more)
      BY <1>2
    <3>5. at + len - 1 <= e /\ k \in 1..len /\ q = at + k - 1
      BY <1>5, <2>1, <3>1, <3>2, <3>3
    <3>6. q \in Nat /\ 1 <= q /\ q <= e
      <4>1. PICK j \in 1..len : j = k
        BY <3>5
      <4>2. q = at + j - 1
        BY <3>5, <4>1
      <4> QED
        BY <3>1, <3>5, <4>2, Within
    <3>7. q \in 1..e + f
      BY <3>6
    <3> QED
      BY <3>3, <3>4, <3>6, <3>7
  <2>3. stream[q] = PacketOf(r).bytes[k]
    BY <1>7, <2>1 DEF OnLine
  <2> QED
    BY <1>2, <2>1, <2>2, <2>3
<1> QED
  BY <1>1, <1>3, <1>5, <1>6, <1>7 DEF Lies

\* A packet that is written lies behind the others.
LEMMA Written ==
  ASSUME NEW records \in Seq(SentRecord), NEW stream \in Texts, NEW d \in Payloads,
         \A i \in 1..Len(records) : Lies(records, i, stream),
         NEW p, p = Codec!MakePacket(d, Room, Mode), p.ret > 0,
         NEW r, r = [at |-> Len(stream) + 1, len |-> p.ret, data |-> d, intact |-> TRUE],
         NEW longer, longer = Append(records, r)
  PROVE  /\ longer \in Seq(SentRecord) /\ stream \o p.bytes \in Texts
         /\ \A i \in 1..Len(longer) : Lies(longer, i, stream \o p.bytes)
<1>0. Room \in Nat
  BY LinkAssumption
<1>1. Packed(d, p, Room)
  BY <1>0, PacketMade
<1>2. PICK all : all = p.bytes
  OBVIOUS
<1>3. PICK total : total = p.ret
  OBVIOUS
<1>4. total \in Nat /\ total >= 3 /\ all \in Texts /\ Len(all) = total
  <2>1. PICK s : s = Codec!Stuffed(d)
    OBVIOUS
  <2>2. PICK sum : sum = Codec!Check(d, Mode)
    OBVIOUS
  <2>3. Laid(Room, s, sum, s \o sum, all, total)
    BY <1>0, <1>1, <1>2, <1>3, <2>1, <2>2, PacketBytes
  <2> QED
    BY <2>3 DEF Laid
<1>5. PICK n \in Nat : n = Len(records)
  BY LenProperties
<1>6. PICK long : long = stream \o all
  OBVIOUS
<1>7. /\ long \in Texts /\ Len(long) = Len(stream) + total /\ Len(stream) \in Nat
      /\ \A q \in 1..Len(stream) + total :
           long[q] = IF q <= Len(stream) THEN stream[q] ELSE all[q - Len(stream)]
  BY <1>4, <1>6, ConcatProperties, LenProperties DEF Texts
<1>8. r \in SentRecord /\ r.at = Len(stream) + 1 /\ r.len = total /\ r.data = d /\ r.intact
  BY <1>3, <1>4, <1>7 DEF SentRecord
<1>9. /\ longer \in Seq(SentRecord) /\ Len(longer) = n + 1
      /\ (\A i \in 1..n : longer[i] = records[i]) /\ longer[n + 1] = r
  BY <1>5, <1>8, AppendProperties
<1>10. ASSUME NEW i \in 1..n PROVE Lies(longer, i, long)
  <2>1. Lies(records, i, long)
    BY <1>4, <1>5, <1>6, MoreStream
  <2>2. \A j \in 1..i - 1 : longer[j] = records[j]
    BY <1>5, <1>9
  <2> QED
    BY <1>9, <2>1, <2>2 DEF Lies
<1>11. Lies(longer, n + 1, long)
  <2>1. r.len = PacketOf(r).ret /\ r.len > 0
    BY <1>3, <1>4, <1>8 DEF PacketOf
  <2>2. r.at + r.len - 1 <= Len(long)
    BY <1>4, <1>7, <1>8
  <2>3. \A j \in 1..(n + 1) - 1 : longer[j].at + longer[j].len <= r.at
    <3> TAKE j \in 1..(n + 1) - 1
    <3>1. j \in 1..n
      BY <1>5
    <3>2. PICK q \in SentRecord : q = records[j] /\ q = longer[j]
      BY <1>5, <1>9, <3>1, ElementOfSeq
    <3>3. q.at + q.len - 1 <= Len(stream)
      BY <1>5, <3>1, <3>2 DEF Lies
    <3>4. q.at \in Nat /\ q.len \in Nat
      BY SentFields
    <3>5. q.at + q.len <= Len(stream) + 1
      BY <1>7, <3>3, <3>4
    <3> QED
      BY <1>8, <3>2, <3>5
  <2>4. OnLine(r, long)
    <3> SUFFICES ASSUME NEW k \in 1..total PROVE long[r.at + k - 1] = PacketOf(r).bytes[k]
      BY <1>8 DEF OnLine
    <3>1. r.at + k - 1 = Len(stream) + k
      BY <1>7, <1>8
    <3>2. PICK q : q = Len(stream) + k
      OBVIOUS
    <3>3. q \in 1..Len(stream) + total /\ ~(q <= Len(stream)) /\ q - Len(stream) = k
      BY <1>4, <1>7, <3>2
    <3>4. long[q] = all[k]
      BY <1>7, <3>3
    <3>5. PacketOf(r).bytes = all
      BY <1>2, <1>8 DEF PacketOf
    <3> QED
      BY <3>1, <3>2, <3>4, <3>5
  <2> QED
    BY <1>9, <2>1, <2>2, <2>3, <2>4 DEF Lies
<1>12. \A i \in 1..(n + 1) : i \in 1..n \/ i = n + 1
  BY <1>5
<1> QED
  BY <1>2, <1>6, <1>7, <1>9, <1>10, <1>11, <1>12

\* Two pieces of the line, one behind the other, share no place.
LEMMA Apart ==
  ASSUME NEW a \in Nat, NEW n \in Nat, NEW b \in Nat, NEW l \in Nat, NEW e \in Nat,
         NEW k \in 1..n, NEW q \in b..b + l - 1, NEW m, m = a + k - 1, a >= 1, a + n - 1 <= e,
         a + n <= b \/ b + l <= a
  PROVE  m \in 1..e /\ m # q
  OBVIOUS

\* A byte of a packet that turns into another is a byte of no other packet.
LEMMA Damaged ==
  ASSUME NEW records \in Seq(SentRecord), NEW stream \in Texts,
         \A i \in 1..Len(records) : Lies(records, i, stream),
         NEW i \in 1..Len(records), NEW q \in records[i].at..(records[i].at + records[i].len - 1),
         NEW other \in Texts, Len(other) = Len(stream),
         \A m \in 1..Len(stream) : m # q => other[m] = stream[m],
         NEW broken, broken = [records EXCEPT ![i].intact = FALSE]
  PROVE  broken \in Seq(SentRecord) /\ \A j \in 1..Len(broken) : Lies(broken, j, other)
<1>1. PICK r \in SentRecord : r = records[i]
  BY ElementOfSeq
<1>2. PICK s : s = [r EXCEPT !.intact = FALSE]
  OBVIOUS
<1>3. s \in SentRecord /\ s.at = r.at /\ s.len = r.len /\ s.data = r.data /\ ~s.intact
  BY <1>2 DEF SentRecord
<1>4. broken = [records EXCEPT ![i] = s]
  BY <1>1, <1>2
<1>5. /\ broken \in Seq(SentRecord) /\ Len(broken) = Len(records)
      /\ \A j \in 1..Len(records) : broken[j] = IF j = i THEN s ELSE records[j]
  <2>1. /\ [records EXCEPT ![i] = s] \in Seq(SentRecord)
        /\ Len([records EXCEPT ![i] = s]) = Len(records)
        /\ \A j \in 1..Len(records) : [records EXCEPT ![i] = s][j] = IF j = i THEN s ELSE records[j]
    BY <1>3, ExceptSeq
  <2> QED
    BY <1>4, <2>1, Zenon
<1>6. \A j \in 1..Len(records) : /\ broken[j].at = records[j].at /\ broken[j].len = records[j].len
                                  /\ broken[j].data = records[j].data
  BY <1>1, <1>3, <1>5
<1>7. ASSUME NEW j \in 1..Len(records) PROVE Lies(broken, j, other)
  <2>1. Lies(records, j, stream)
    OBVIOUS
  <2>2. PacketOf(broken[j]) = PacketOf(records[j])
    BY <1>6 DEF PacketOf
  <2>3. \A k \in 1..j - 1 : k \in 1..Len(records)
    BY LenProperties
  <2>4. ASSUME broken[j].intact PROVE OnLine(broken[j], other)
    <3>1. j # i /\ broken[j] = records[j]
      BY <1>3, <1>5, <2>4
    <3>2. PICK t \in SentRecord : t = records[j]
      BY ElementOfSeq
    <3>3. OnLine(t, stream) /\ t.at + t.len - 1 <= Len(stream)
      BY <2>1, <2>4, <3>1, <3>2 DEF Lies
    <3>4. /\ t.at \in Nat /\ t.at >= 1 /\ t.len \in Nat /\ r.at \in Nat /\ r.len \in Nat
          /\ i \in Nat /\ j \in Nat /\ Len(stream) \in Nat
      BY SentFields, LenProperties DEF Texts
    <3>5. t.at + t.len <= r.at \/ r.at + r.len <= t.at
      <4>1. CASE j < i
        <5>1. j \in 1..i - 1
          BY <3>4, <4>1
        <5> QED
          BY <1>1, <3>2, <5>1 DEF Lies
      <4>2. CASE j > i
        <5>1. i \in 1..j - 1
          BY <3>4, <4>2
        <5> QED
          BY <1>1, <2>1, <3>2, <5>1 DEF Lies
      <4> QED
        BY <3>1, <3>4, <4>1, <4>2
    <3> SUFFICES ASSUME NEW k \in 1..t.len PROVE other[t.at + k - 1] = PacketOf(t).bytes[k]
      BY <3>1, <3>2 DEF OnLine
    <3>6. PICK m : m = t.at + k - 1
      OBVIOUS
    <3>7. m \in 1..Len(stream) /\ m # q
      <4>1. PICK a \in Nat : a = t.at
        BY <3>4
      <4>2. PICK n \in Nat : n = t.len
        BY <3>4
      <4>3. PICK b \in Nat : b = r.at
        BY <3>4
      <4>4. PICK l \in Nat : l = r.len
        BY <3>4
      <4>5. PICK e \in Nat : e = Len(stream)
        BY <3>4
      <4>6. k \in 1..n /\ q \in b..b + l - 1 /\ m = a + k - 1 /\ a >= 1 /\ a + n - 1 <= e
            /\ (a + n <= b \/ b + l <= a)
        BY <1>1, <3>3, <3>4, <3>5, <3>6, <4>1, <4>2, <4>3, <4>4, <4>5
      <4>7. m \in 1..e /\ m # q
        BY <4>6, Apart
      <4> QED
        BY <4>5, <4>7
    <3>9. stream[m] = PacketOf(t).bytes[k]
      BY <3>3, <3>6 DEF OnLine
    <3> QED
      BY <3>6, <3>7, <3>9
  <2> QED
    BY <1>6, <2>1, <2>2, <2>3, <2>4 DEF Lies
<1> QED
  BY <1>5, <1>7

\* The packets lie on the line behind each other, those that are intact as they were
\* sent, and the callback made of what it was told what ez_hdlc_get_data makes of it.
LinkInv ==
  /\ line \in Texts /\ sent \in Seq(SentRecord)
  /\ \A i \in 1..Len(sent) : Lies(sent, i, heard \o line)
  /\ given = [k \in 1..Len(told) |-> Codec!GetData(told[k].packet, Room, Mode)]

\* The receiver's state in a step that leaves it alone.
LEMMA ReceiverRests ==
  ASSUME IInv, UNCHANGED rxVars
  PROVE  IInv'
  BY DEF rxVars, IInv, TypeOK, BufferIsLine, OnlyPackets, Settled, Scanned

\* What was heard and what is under way are texts.
LEMMA LinkTexts ==
  ASSUME IInv, LinkInv
  PROVE  heard \in Texts /\ line \in Texts /\ heard \o line \in Texts
         /\ Len(heard) \in Nat /\ Len(line) \in Nat
         /\ Len(heard \o line) = Len(heard) + Len(line)
<1>1. heard \in Texts /\ line \in Texts
  BY DEF IInv, TypeOK, LinkInv, Texts
<1> QED
  BY <1>1, ConcatProperties, LenProperties DEF Texts

\* Sending puts a packet at the end of the line.
LEMMA SendInv ==
  ASSUME IInv, LinkInv, NEW d \in Payloads, Send(d)
  PROVE  IInv' /\ LinkInv'
<1>1. PICK p : p = Codec!MakePacket(d, Room, Mode)
  OBVIOUS
<1>2. PICK r : r = [at |-> EndOfLine + 1, len |-> p.ret, data |-> d, intact |-> TRUE]
  OBVIOUS
<1>3. p.ret > 0 /\ sent' = Append(sent, r) /\ line' = line \o p.bytes /\ UNCHANGED rxVars
      /\ given' = given /\ heard' = heard /\ told' = told
  BY <1>1, <1>2 DEF Send, rxVars
<1>4. PICK stream \in Texts : stream = heard \o line
  BY LinkTexts
<1>5. EndOfLine = Len(stream)
  BY <1>4, LinkTexts DEF EndOfLine
<1>6. sent \in Seq(SentRecord) /\ \A i \in 1..Len(sent) : Lies(sent, i, stream)
  BY <1>4 DEF LinkInv
<1>7. /\ sent' \in Seq(SentRecord) /\ stream \o p.bytes \in Texts
      /\ \A i \in 1..Len(sent') : Lies(sent', i, stream \o p.bytes)
  BY <1>1, <1>2, <1>3, <1>5, <1>6, Written
<1>8. p.bytes \in Texts
  <2>1. Room \in Nat
    BY LinkAssumption
  <2>2. Packed(d, p, Room)
    BY <1>1, <1>3, <2>1, PacketMade
  <2>3. PICK s : s = Codec!Stuffed(d)
    OBVIOUS
  <2>4. PICK sum : sum = Codec!Check(d, Mode)
    OBVIOUS
  <2>5. Laid(Room, s, sum, s \o sum, p.bytes, p.ret)
    BY <2>1, <2>2, <2>3, <2>4, PacketBytes
  <2> QED
    BY <2>5 DEF Laid
<1>9. heard' \o line' = stream \o p.bytes /\ line' \in Texts
  <2>1. PICK all \in Texts : all = p.bytes
    BY <1>8
  <2>2. (heard \o line) \o all = heard \o (line \o all)
    <3>1. PICK h \in Texts : h = heard
      BY LinkTexts
    <3>2. PICK l \in Texts : l = line
      BY LinkTexts
    <3>3. (h \o l) \o all = h \o (l \o all)
      BY ThreeTexts
    <3> QED
      BY <3>1, <3>2, <3>3, Zenon
  <2>3. line \o all \in Texts
    BY LinkTexts, JoinedTexts, Zenon
  <2> QED
    BY <1>3, <1>4, <2>1, <2>2, <2>3
<1>10. IInv'
  BY <1>3, ReceiverRests
<1> QED
  BY <1>3, <1>7, <1>9, <1>10 DEF LinkInv

\* Noise makes the line longer.
LEMMA NoiseInv ==
  ASSUME IInv, LinkInv, NEW b \in NoiseBytes, Noise(b)
  PROVE  IInv' /\ LinkInv'
<1>1. b \in Byte
  BY LinkAssumption
<1>2. line' = Append(line, b) /\ UNCHANGED <<rxVars, sent, given>> /\ heard' = heard /\ told' = told
  BY DEF Noise, rxVars
<1>3. PICK more \in Texts : more = <<b>>
  BY <1>1, ShortTexts, Zenon
<1>4. PICK stream \in Texts : stream = heard \o line
  BY LinkTexts
<1>5. line' = line \o more /\ line' \in Texts
  BY <1>1, <1>2, <1>3, LinkTexts, Behind
<1>6. heard' \o line' = stream \o more
  <2>1. (heard \o line) \o more = heard \o (line \o more)
    <3>1. PICK h \in Texts : h = heard
      BY LinkTexts
    <3>2. PICK l \in Texts : l = line
      BY LinkTexts
    <3>3. (h \o l) \o more = h \o (l \o more)
      BY ThreeTexts
    <3> QED
      BY <3>1, <3>2, <3>3, Zenon
  <2> QED
    BY <1>2, <1>4, <1>5, <2>1
<1>7. \A i \in 1..Len(sent) : Lies(sent, i, stream \o more)
  BY <1>4, MoreStream DEF LinkInv
<1>8. IInv'
  BY <1>2, ReceiverRests
<1> QED
  BY <1>2, <1>5, <1>6, <1>7, <1>8 DEF LinkInv

\* Damage changes one byte, of one packet, which is intact no more.
LEMMA DamageInv ==
  ASSUME IInv, LinkInv, NEW i \in 1..Len(sent), NEW b \in Damages, NEW k \in 0..sent[i].len - 1,
         Damage(i, k, b)
  PROVE  IInv' /\ LinkInv'
<1>1. b \in Byte
  BY LinkAssumption
<1>2. PICK at : at = sent[i].at + k - Len(heard)
  OBVIOUS
<1>3. /\ k \in 0..sent[i].len - 1 /\ at \in 1..Len(line) /\ line' = [line EXCEPT ![at] = b]
      /\ sent' = [sent EXCEPT ![i].intact = FALSE]
      /\ UNCHANGED <<rxVars, given>> /\ heard' = heard /\ told' = told
  BY <1>2 DEF Damage, rxVars
<1>4. PICK stream \in Texts : stream = heard \o line
  BY LinkTexts
<1>5. /\ line' \in Texts /\ Len(line') = Len(line)
      /\ \A j \in 1..Len(line) : line'[j] = IF j = at THEN b ELSE line[j]
  <2>1. /\ [line EXCEPT ![at] = b] \in Texts /\ Len([line EXCEPT ![at] = b]) = Len(line)
        /\ \A j \in 1..Len(line) : [line EXCEPT ![at] = b][j] = IF j = at THEN b ELSE line[j]
    BY <1>1, <1>3, LinkTexts, ExceptSeq DEF Texts
  <2> QED
    BY <1>3, <2>1, Zenon
<1>6. PICK e \in Nat : e = Len(heard)
  BY LinkTexts
<1>7. PICK n \in Nat : n = Len(line)
  BY LinkTexts
<1>8. Len(stream) = e + n /\ \A m \in 1..e + n : stream[m] = IF m <= e THEN heard[m] ELSE line[m - e]
  BY <1>4, <1>6, <1>7, LinkTexts, ConcatProperties DEF Texts
<1>9. PICK other : other = heard' \o line'
  OBVIOUS
<1>10. other \in Texts /\ Len(other) = e + n
       /\ \A m \in 1..e + n : other[m] = IF m <= e THEN heard[m] ELSE line'[m - e]
  <2>1. PICK new \in Texts : new = line'
    BY <1>5
  <2>2. other = heard \o new /\ Len(new) = n
    BY <1>3, <1>5, <1>7, <1>9, <2>1
  <2>3. other \in Texts /\ Len(other) = e + n
        /\ \A m \in 1..e + n : other[m] = IF m <= e THEN heard[m] ELSE new[m - e]
    <3>1. heard \in Texts
      BY LinkTexts
    <3>2. /\ heard \o new \in Texts /\ Len(heard \o new) = e + n
          /\ \A m \in 1..e + n : (heard \o new)[m] = IF m <= e THEN heard[m] ELSE new[m - e]
      BY <1>6, <2>2, <3>1, ConcatProperties DEF Texts
    <3> QED
      BY <2>2, <3>2, Zenon
  <2> QED
    BY <2>1, <2>3
<1>11. PICK r \in SentRecord : r = sent[i]
  BY ElementOfSeq DEF LinkInv
<1>12. r.at \in Nat /\ r.len \in Nat
  BY SentFields
<1>13. PICK q : q = e + at
  OBVIOUS
<1>14. q \in sent[i].at..(sent[i].at + sent[i].len - 1) /\ at = q - e /\ q \in Int
  <2>1. PICK a \in Nat : a = r.at
    BY <1>12
  <2>2. PICK l \in Nat : l = r.len
    BY <1>12
  <2>3. k \in 0..l - 1 /\ at = a + k - e /\ q = e + at
    BY <1>2, <1>3, <1>6, <1>11, <1>13, <2>1, <2>2
  <2>4. q \in a..a + l - 1 /\ at = q - e /\ q \in Int
    BY <2>3
  <2> QED
    BY <1>11, <2>1, <2>2, <2>4
<1>15. ASSUME NEW m \in 1..Len(stream), m # q PROVE other[m] = stream[m]
  <2>1. m \in 1..e + n
    BY <1>8
  <2>2. CASE m <= e
    BY <1>8, <1>10, <2>1, <2>2
  <2>3. CASE ~(m <= e)
    <3>1. m - e \in 1..n /\ m - e # at
      BY <1>14, <1>15, <2>1, <2>3
    <3>2. line'[m - e] = line[m - e]
      BY <1>5, <1>7, <3>1
    <3> QED
      BY <1>8, <1>10, <2>1, <2>3, <3>2
  <2> QED
    BY <2>2, <2>3
<1>16. sent \in Seq(SentRecord) /\ \A j \in 1..Len(sent) : Lies(sent, j, stream)
  BY <1>4 DEF LinkInv
<1>17. sent' \in Seq(SentRecord) /\ \A j \in 1..Len(sent') : Lies(sent', j, other)
  <2>1. other \in Texts /\ Len(other) = Len(stream) /\ \A m \in 1..Len(stream) : m # q => other[m] = stream[m]
    BY <1>8, <1>10, <1>15
  <2>2. PICK broken : broken = [sent EXCEPT ![i].intact = FALSE]
    OBVIOUS
  <2>3. broken \in Seq(SentRecord) /\ \A j \in 1..Len(broken) : Lies(broken, j, other)
    BY <1>14, <1>16, <2>1, <2>2, Damaged
  <2> QED
    BY <1>3, <2>2, <2>3
<1>18. IInv'
  BY <1>3, ReceiverRests
<1> QED
  BY <1>3, <1>5, <1>9, <1>17, <1>18 DEF LinkInv

\* A piece handed over is no longer under way and has been heard.
LEMMA HandInv ==
  ASSUME IInv, LinkInv, NEW n \in Pieces, Hand(n)
  PROVE  IInv' /\ LinkInv'
<1>1. n \in 1..Len(line) /\ Len(line) \in Nat /\ line \in Texts
  BY LinkTexts DEF Pieces
<1>2. PICK chunk : chunk = SubSeq(line, 1, n)
  OBVIOUS
<1>3. PICK rest : rest = SubSeq(line, n + 1, Len(line))
  OBVIOUS
<1>4. chunk \in Texts
  <2>1. \A j \in 1..n : line[j] \in Byte
    BY <1>1, ElementOfSeq DEF Texts
  <2>2. 1 \in Int /\ n \in Int
    BY <1>1
  <2> QED
    BY <1>2, <2>1, <2>2, SubSeqProperties DEF Texts
<1>5. rest \in Texts
  <2>1. \A j \in (n + 1)..Len(line) : line[j] \in Byte
    BY <1>1, ElementOfSeq DEF Texts
  <2>2. n + 1 \in Int /\ Len(line) \in Int
    BY <1>1
  <2> QED
    BY <1>3, <2>1, <2>2, SubSeqProperties DEF Texts
<1>6. chunk \o rest = line
  <2>1. 1 \in 1..Len(line) + 1 /\ n \in 1 - 1..Len(line) /\ Len(line) \in n..Len(line)
    BY <1>1
  <2>2. SubSeq(line, 1, n) \o SubSeq(line, n + 1, Len(line)) = SubSeq(line, 1, Len(line))
    BY <1>1, <2>1, ConcatAdjacentSubSeq DEF Texts
  <2> QED
    BY <1>1, <1>2, <1>3, <2>2, SubSeqFull DEF Texts
<1>7. OnData(chunk) /\ line' = rest /\ sent' = sent /\ given' = given
  BY <1>2, <1>3 DEF Hand
<1>8. heard' = heard \o chunk /\ told' = told
  BY <1>7 DEF OnData, Discard
<1>9. heard' \o line' = heard \o line
  <2>1. (heard \o chunk) \o rest = heard \o (chunk \o rest)
    <3>1. PICK h \in Texts : h = heard
      BY LinkTexts
    <3>2. (h \o chunk) \o rest = h \o (chunk \o rest)
      BY <1>4, <1>5, ThreeTexts
    <3> QED
      BY <3>1, <3>2, Zenon
  <2> QED
    BY <1>6, <1>7, <1>8, <2>1
<1>10. IInv'
  BY <1>4, <1>7, OnDataInv DEF Texts
<1> QED
  BY <1>5, <1>7, <1>8, <1>9, <1>10 DEF LinkInv

\* The scan moves nothing on the line; a delivery is told and answered at once.
LEMMA ScanOnInv ==
  ASSUME IInv, LinkInv, ScanOn
  PROVE  IInv' /\ LinkInv'
<1>1. line' = line /\ sent' = sent
  BY DEF ScanOn
<1>2. CASE (SkipByte \/ Restart \/ Compact) /\ given' = given
  <2>1. heard' = heard /\ told' = told
    BY <1>2 DEF SkipByte, Restart, Compact, Advance
  <2>2. IInv'
    BY <1>2, SkipByteInv, RestartInv, CompactInv
  <2> QED
    BY <1>1, <1>2, <2>1, <2>2 DEF LinkInv
<1>3. CASE Deliver /\ given' = Append(given, Codec!GetData(SubSeq(rx, ii + 1, ii + TotalLen), Room, Mode))
  <2>1. PICK packet : packet = SubSeq(rx, ii + 1, ii + TotalLen)
    OBVIOUS
  <2>2. PICK answer : answer = Codec!GetData(packet, Room, Mode)
    OBVIOUS
  <2>3. PICK d : d = [at |-> passed + ii + 1, packet |-> packet]
    OBVIOUS
  <2>4. heard' = heard /\ told' = Append(told, d) /\ given' = Append(given, answer) /\ d.packet = packet
    BY <1>3, <2>1, <2>2, <2>3 DEF Deliver, Advance
  <2>5. IInv'
    BY <1>3, DeliverInv
  <2>6. told \in Seq(Told) /\ told' \in Seq(Told)
    BY <2>5 DEF IInv, TypeOK, Told
  <2>7. PICK n \in Nat : n = Len(told)
    BY <2>6, LenProperties
  <2>8. Len(told') = n + 1 /\ (\A k \in 1..n : told'[k] = told[k]) /\ told'[n + 1] = d
    <3>1. told \in Seq(Told \cup {d}) /\ d \in Told \cup {d}
      BY <2>6, SeqMonotonic
    <3> QED
      BY <2>4, <2>7, <3>1, AppendProperties
  <2> DEFINE A == {Codec!GetData(told[k].packet, Room, Mode) : k \in 1..n} \cup {answer}
  <2>9. given \in [1..n -> A] /\ (\A k \in 1..n : given[k] = Codec!GetData(told[k].packet, Room, Mode))
        /\ answer \in A
    BY <2>7 DEF LinkInv
  <2> HIDE DEF A
  <2>10. given \in Seq(A) /\ Len(given) = n
    BY <2>9, Listed
  <2>11. /\ given' \in Seq(A) /\ Len(given') = n + 1
         /\ (\A k \in 1..n : given'[k] = given[k]) /\ given'[n + 1] = answer
    BY <2>4, <2>9, <2>10, AppendProperties
  <2>12. DOMAIN given' = 1..(n + 1) /\ given' = [k \in 1..(n + 1) |-> given'[k]]
    <3>1. DOMAIN given' = 1..(n + 1) /\ given' \in [1..(n + 1) -> A]
      BY <2>11, LenProperties
    <3> QED
      BY <3>1
  <2>13. \A k \in 1..(n + 1) : given'[k] = Codec!GetData(told'[k].packet, Room, Mode)
    <3> TAKE k \in 1..(n + 1)
    <3>1. CASE k = n + 1
      BY <2>2, <2>4, <2>8, <2>11, <3>1
    <3>2. CASE k # n + 1
      <4>1. k \in 1..n
        BY <2>7, <3>2
      <4> QED
        BY <2>8, <2>9, <2>11, <4>1
    <3> QED
      BY <3>1, <3>2
  <2>14. given' = [k \in 1..Len(told') |-> Codec!GetData(told'[k].packet, Room, Mode)]
    BY <2>8, <2>12, <2>13, Zenon
  <2> QED
    BY <1>1, <2>4, <2>5, <2>14 DEF LinkInv
<1> QED
  BY <1>2, <1>3 DEF ScanOn

\* The link starts within its invariant.
LEMMA InitLinkInv ==
  ASSUME InitLink
  PROVE  IInv /\ LinkInv
<1>1. IInv
  BY InitInv DEF InitLink
<1>2. line = <<>> /\ sent = <<>> /\ given = <<>> /\ told = <<>>
  BY DEF InitLink, InitReceiver
<1>3. line \in Texts /\ sent \in Seq(SentRecord) /\ Len(sent) = 0 /\ Len(told) = 0
  BY <1>2, EmptySeq DEF Texts
<1>4. given = [k \in 1..Len(told) |-> Codec!GetData(told[k].packet, Room, Mode)]
  BY <1>2, <1>3
<1>5. \A i \in 1..Len(sent) : Lies(sent, i, heard \o line)
  BY <1>3
<1> QED
  BY <1>1, <1>3, <1>4, <1>5 DEF LinkInv

\* Every step of the link keeps the invariant.
LEMMA NextLinkInv ==
  ASSUME IInv, LinkInv, [NextLink]_linkVars
  PROVE  IInv' /\ LinkInv'
<1>1. ASSUME NEW d \in Payloads, Send(d) PROVE IInv' /\ LinkInv'
  BY <1>1, SendInv
<1>2. ASSUME NEW b \in NoiseBytes, Noise(b) PROVE IInv' /\ LinkInv'
  BY <1>2, NoiseInv
<1>3. ASSUME NEW i \in 1..Len(sent), NEW b \in Damages, NEW k \in 0..sent[i].len - 1, Damage(i, k, b)
      PROVE  IInv' /\ LinkInv'
  BY <1>3, DamageInv
<1>4. ASSUME NEW n \in Pieces, Hand(n) PROVE IInv' /\ LinkInv'
  BY <1>4, HandInv
<1>5. CASE ScanOn
  BY <1>5, ScanOnInv
<1>6. CASE UNCHANGED linkVars
  <2>1. UNCHANGED rxVars /\ line' = line /\ sent' = sent /\ given' = given /\ heard' = heard /\ told' = told
    BY <1>6 DEF linkVars, rxVars
  <2>2. IInv'
    BY <2>1, ReceiverRests
  <2> QED
    BY <2>1, <2>2 DEF LinkInv
<1> QED
  BY <1>1, <1>2, <1>3, <1>4, <1>5, <1>6 DEF NextLink

\* An intact packet that the scan is past was delivered, and yields its payload.
LEMMA IntactArrives ==
  ASSUME IInv, LinkInv, PlainChecks, NEW i \in 1..Len(sent),
         sent[i].intact, sent[i].at <= Scanned, sent[i].at \notin gap
  PROVE  \E k \in 1..Len(told) : told[k].at = sent[i].at /\ given[k] = Codec!Done(sent[i].data)
<1>1. PICK r \in SentRecord : r = sent[i]
  BY ElementOfSeq DEF LinkInv
<1>2. PICK d \in Payloads : d = r.data
  BY SentFields
<1>3. PICK p : p = Codec!MakePacket(d, Room, Mode)
  OBVIOUS
<1>4. PICK all : all = p.bytes
  OBVIOUS
<1>5. PICK total : total = p.ret
  OBVIOUS
<1>6. PICK stream \in Texts : stream = heard \o line
  BY LinkTexts
<1>7. PacketOf(r) = p
  BY <1>2, <1>3 DEF PacketOf
<1>8. r.len = total /\ total > 0 /\ OnLine(r, stream)
  <2>1. Lies(sent, i, stream)
    BY <1>6 DEF LinkInv
  <2> QED
    BY <1>1, <1>5, <1>7, <2>1 DEF Lies
<1>9. Packed(d, p, Room) /\ Room \in Nat
  BY <1>3, <1>5, <1>8, PacketMade, LinkAssumption
<1>10. all \in Texts /\ Len(all) = total /\ all[1] = FLAG /\ all[2] = total /\ total \in Nat /\ total >= 3
  <2>1. PICK s : s = Codec!Stuffed(d)
    OBVIOUS
  <2>2. PICK sum : sum = Codec!Check(d, Mode)
    OBVIOUS
  <2>3. Laid(Room, s, sum, s \o sum, all, total)
    BY <1>4, <1>5, <1>9, <2>1, <2>2, PacketBytes
  <2> QED
    BY <2>3 DEF Laid
<1>11. \A j \in 2..total : all[j] # FLAG
  BY <1>4, <1>5, <1>9, FlagAtHead
<1>12. PICK at \in Nat : at = r.at /\ at >= 1
  BY SentFields
<1>13. PICK e \in Nat : e = Len(heard)
  BY LinkTexts
<1>14. \A m \in 1..e : stream[m] = heard[m]
  <2>1. \A m \in 1..Len(heard) + Len(line) : (heard \o line)[m] = IF m <= Len(heard) THEN heard[m] ELSE line[m - Len(heard)]
    BY LinkTexts, ConcatProperties DEF Texts
  <2>2. \A m \in 1..e : m \in 1..Len(heard) + Len(line) /\ m <= Len(heard)
    BY <1>13, LinkTexts
  <2> QED
    BY <1>6, <2>1, <2>2
<1>15. ASSUME NEW j \in 1..total, at + j - 1 <= e PROVE heard[at + j - 1] = all[j]
  <2>1. PICK m : m = at + j - 1
    OBVIOUS
  <2>2. m \in 1..e
    BY <1>10, <1>12, <1>15, <2>1
  <2>3. stream[m] = all[j]
    BY <1>4, <1>7, <1>8, <1>12, <2>1 DEF OnLine
  <2> QED
    BY <1>14, <2>1, <2>2, <2>3
<1>16. at <= e /\ at \in 1..Scanned /\ heard[at] = FLAG
  <2>1. Scanned \in Nat /\ Scanned <= e
    BY <1>13, Types DEF IInv, BufferIsLine, Scanned
  <2>2. at \in 1..Scanned /\ at <= e
    BY <1>1, <1>12, <2>1
  <2>3. 1 \in 1..total /\ at + 1 - 1 = at
    BY <1>10, <1>12
  <2> QED
    BY <1>10, <1>15, <2>2, <2>3
<1>17. ~RefutedAt(heard, at)
  <2> SUFFICES ASSUME RefutedAt(heard, at) PROVE FALSE
    OBVIOUS
  <2>1. at + 1 <= e /\ (heard[at + 1] < Shortest \/ \E q \in (at + 1)..e : q <= at + heard[at + 1] - 1 /\ heard[q] = FLAG)
    BY <1>13, <1>16 DEF RefutedAt
  <2>2. heard[at + 1] = total
    <3>1. 2 \in 1..total /\ at + 2 - 1 = at + 1
      BY <1>10, <1>12
    <3> QED
      BY <1>10, <1>15, <2>1, <3>1
  <2>3. PICK q \in (at + 1)..e : q <= at + total - 1 /\ heard[q] = FLAG
    BY <1>10, <2>1, <2>2 DEF Shortest, HEAD_LEN
  <2>4. PICK j : j = q - at + 1
    OBVIOUS
  <2>5. j \in 2..total /\ j \in 1..total /\ at + j - 1 = q /\ q <= e
    <3>1. q \in Int /\ q >= at + 1 /\ q <= e /\ q <= at + total - 1 /\ at \in Nat /\ e \in Nat
      BY <1>12, <1>13, <2>3
    <3>2. total \in Nat
      BY <1>10
    <3> QED
      BY <2>4, <3>1, <3>2
  <2> QED
    BY <1>11, <1>15, <2>3, <2>5
<1>18. PICK k \in 1..Len(told) : told[k].at = at
  BY <1>1, <1>12, <1>16, <1>17 DEF IInv, Settled
<1>19. PICK packet : packet = told[k].packet
  OBVIOUS
<1>20. packet \in Texts
  BY <1>19, Types, ElementOfSeq, ToldFields DEF IInv, Texts
<1>21. PICK n \in Nat : n = Len(packet)
  BY <1>20, LenProperties DEF Texts
<1>22. /\ PacketAt(heard, at) /\ n = heard[at + 1]
       /\ \A j \in 1..n : packet[j] = heard[at + j - 1]
  BY <1>18, <1>19, <1>21 DEF IInv, OnlyPackets
<1>23. at + 1 <= e /\ at + n - 1 <= e
  BY <1>13, <1>22 DEF PacketAt
<1>24. n = total
  <2>1. 2 \in 1..total /\ at + 2 - 1 = at + 1
    BY <1>10, <1>12
  <2> QED
    BY <1>10, <1>15, <1>22, <1>23, <2>1
<1>25. \A j \in 1..n : packet[j] = all[j]
  <2> TAKE j \in 1..n
  <2>1. at + j - 1 <= e
    BY <1>12, <1>23
  <2> QED
    BY <1>15, <1>22, <1>24, <2>1
<1>26. packet = all
  BY <1>10, <1>20, <1>21, <1>24, <1>25, SeqEqual DEF Texts
<1>27. given[k] = Codec!GetData(all, Room, Mode)
  BY <1>19, <1>26 DEF LinkInv
<1>28. given[k] = Codec!Done(d)
  BY <1>4, <1>9, <1>27, GetBack
<1> QED
  BY <1>1, <1>2, <1>12, <1>18, <1>28

\* Where a checksum is sent, the length that is announced leaves the byte that
\* ez_hdlc_encode keeps free.
LEMMA AnnouncedFits ==
  ASSUME Mode # "NOT_VERIFY", NEW d \in Payloads, NEW n, n = Codec!DstBufLen(d, Mode), n > 0
  PROVE  Codec!MakePacket(d, n, Mode).ret = n
<1>1. PICK s : s = Codec!Stuffed(d)
  OBVIOUS
<1>2. PICK sum : sum = Codec!Check(d, Mode)
  OBVIOUS
<1>3. d \in Texts /\ sum \in Texts
  BY <1>2, CheckIsText
<1>4. s \in Texts /\ Len(d) <= Len(s)
  BY <1>1, <1>3, AllFaithful DEF Faithful
<1>5. Len(d) \in Nat /\ Len(s) \in Nat /\ Len(sum) \in Nat /\ FLAG \in Nat /\ FLAG >= 3
  BY <1>3, <1>4, LenProperties, ReceiverAssumption DEF Texts, Byte
<1>6. Len(sum) >= 1
  <2>1. Len(sum) = 1 \/ Len(sum) = 2
    BY <1>2, CheckIsText, Zenon
  <2> QED
    BY <2>1
<1>7. PICK all : all = Len(s) + Len(sum) + 2
  OBVIOUS
<1>8. n = IF d = <<>> THEN 0 ELSE IF all >= FLAG THEN -all ELSE all
  BY <1>1, <1>2, <1>7 DEF Codec!DstBufLen, Codec!HEAD_LEN
<1>9. d # <<>> /\ n = all /\ n < FLAG /\ n \in Nat
  BY <1>5, <1>7, <1>8
<1>10. Codec!Encode(d, n - 2) = Codec!Done(s)
  <2>1. ~(Len(d) > n - 2) /\ ~(Len(s) >= n - 2)
    BY <1>4, <1>5, <1>6, <1>7, <1>9
  <2> QED
    BY <1>1, <1>9, <2>1 DEF Codec!Encode
<1>11. PICK body : body = Codec!Encode(d, n - 2)
  OBVIOUS
<1>12. body.ret = Len(s) /\ body.bytes = s /\ body.ret + Len(sum) + 2 = n
       /\ ~(body.ret < 0) /\ ~(n > n) /\ ~(n >= FLAG)
  <2>1. body.ret = Len(s) /\ body.bytes = s
    BY <1>10, <1>11 DEF Codec!Done
  <2> QED
    BY <1>5, <1>7, <1>9, <2>1
<1>13. Codec!MakePacket(d, n, Mode) = Codec!Done(<<FLAG, n>> \o s \o sum)
  BY <1>2, <1>11, <1>12 DEF Codec!MakePacket, Codec!HEAD_LEN
<1>14. n \in Byte /\ FLAG \in Byte
  <2>1. FLAG \in Byte /\ FLAG <= 255
    BY ReceiverAssumption DEF Byte
  <2>2. n <= 255
    BY <1>5, <1>9, <2>1
  <2> QED
    BY <1>9, <2>1, <2>2, SmallIsByte
<1>15. PICK head \in Texts : head = <<FLAG, n>> /\ Len(head) = 2
  <2>1. <<FLAG, n>> \in Texts /\ Len(<<FLAG, n>>) = 2
    BY <1>14, ShortTexts, Zenon
  <2> QED
    BY <2>1, Zenon
<1>16. PICK front \in Texts : front = head \o s /\ Len(front) = 2 + Len(s)
  <2>1. head \o s \in Texts /\ Len(head \o s) = 2 + Len(s)
    BY <1>4, <1>15, ConcatProperties DEF Texts
  <2> QED
    BY <2>1
<1>17. Len(front \o sum) = (2 + Len(s)) + Len(sum)
  <2>1. Len(front \o sum) = Len(front) + Len(sum)
    BY <1>3, JoinedTexts, Zenon
  <2> QED
    BY <1>16, <2>1
<1>18. Codec!MakePacket(d, n, Mode).ret = Len(front \o sum)
  BY <1>13, <1>15, <1>16 DEF Codec!Done
<1>19. (2 + Len(s)) + Len(sum) = n
  BY <1>5, <1>7, <1>9
<1> QED
  BY <1>17, <1>18, <1>19
-----------------------------------------------------------------------------
\* The two ends of a link start and stay within their invariant.
THEOREM LinkInvariant == FairLink => [](IInv /\ LinkInv)
<1>1. InitLink => IInv /\ LinkInv
  BY InitLinkInv
<1>2. (IInv /\ LinkInv) /\ [NextLink]_linkVars => (IInv /\ LinkInv)'
  BY NextLinkInv
<1> QED
  BY <1>1, <1>2, PTL DEF FairLink

\* Whatever noise surrounds a packet, however the line is cut and whatever is damaged
\* elsewhere, a packet that is whole yields its payload, in each mode, as long as no byte
\* of a checksum is FLAG or ESC, which the sender does not escape.
THEOREM PacketsArriveIntact == PlainChecks => (FairLink => []ArrivesIntact)
<1> SUFFICES ASSUME PlainChecks PROVE FairLink => []ArrivesIntact
  OBVIOUS
<1>1. IInv /\ LinkInv => ArrivesIntact
  BY IntactArrives DEF ArrivesIntact
<1> QED
  BY <1>1, LinkInvariant, PTL

\* The buffer length that is announced is enough, in the modes that send a checksum.
THEOREM BufferLengthSuffices == Mode # "NOT_VERIFY" => (FairLink => []BufLenSuffices)
<1> SUFFICES ASSUME Mode # "NOT_VERIFY" PROVE FairLink => []BufLenSuffices
  OBVIOUS
<1>1. IInv /\ LinkInv => BufLenSuffices
  <2> SUFFICES ASSUME LinkInv, NEW i \in 1..Len(sent), Codec!DstBufLen(sent[i].data, Mode) > 0
               PROVE  Codec!MakePacket(sent[i].data, Codec!DstBufLen(sent[i].data, Mode), Mode).ret
                        = Codec!DstBufLen(sent[i].data, Mode)
    BY DEF BufLenSuffices
  <2>1. PICK r \in SentRecord : r = sent[i]
    BY ElementOfSeq DEF LinkInv
  <2>2. sent[i].data \in Payloads
    BY <2>1, SentFields
  <2> QED
    BY <2>2, AnnouncedFits
<1> QED
  BY <1>1, LinkInvariant, PTL
=============================================================================
