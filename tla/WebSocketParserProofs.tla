------------------------ MODULE WebSocketParserProofs ------------------------
(***************************************************************************)
(* Proofs about WebSocketParser for every set of streams, every mask       *)
(* operator on bytes and every choice of callbacks that refuse.            *)
(***************************************************************************)
EXTENDS WebSocketParser, TLAPS, SequenceTheorems

IInv == TypeOK /\ FrameInv /\ FramesExact /\ UnmaskedInPhase

-----------------------------------------------------------------------------
(***************************************************************************)
(* Pieces of a sequence of bytes.                                          *)
(***************************************************************************)
\* A prefix and the rest of a byte sequence are byte sequences of the right length.
LEMMA Pieces ==
  ASSUME NEW s \in Seq(Byte), NEW n \in 0..Len(s)
  PROVE  /\ SubSeq(s, 1, n) \in Seq(Byte)
         /\ Len(SubSeq(s, 1, n)) = n
         /\ \A i \in 1..n : SubSeq(s, 1, n)[i] = s[i]
         /\ SubSeq(s, n + 1, Len(s)) \in Seq(Byte)
         /\ Len(SubSeq(s, n + 1, Len(s))) = Len(s) - n
  <1>1. /\ n \in Int /\ 1 \in Int /\ n + 1 \in Int /\ Len(s) \in Nat
        /\ \A i \in 1..Len(s) : s[i] \in Byte
    BY ElementOfSeq, LenProperties
  <1>2. /\ SubSeq(s, 1, n) \in Seq(Byte)
        /\ Len(SubSeq(s, 1, n)) = (IF 1 <= n THEN n - 1 + 1 ELSE 0)
        /\ \A i \in 1 .. n - 1 + 1 : SubSeq(s, 1, n)[i] = s[1 + i - 1]
    <2>1. \A i \in 1..n : s[i] \in Byte
      BY <1>1
    <2>2. QED
      BY <1>1, <2>1, SubSeqProperties
  <1>3. /\ SubSeq(s, n + 1, Len(s)) \in Seq(Byte)
        /\ Len(SubSeq(s, n + 1, Len(s))) =
             (IF n + 1 <= Len(s) THEN Len(s) - (n + 1) + 1 ELSE 0)
    <2>1. \A i \in n + 1 .. Len(s) : s[i] \in Byte
      BY <1>1
    <2>2. QED
      BY <1>1, <2>1, SubSeqProperties
  <1>4. QED
    BY <1>1, <1>2, <1>3

\* Unmasking turns bytes into as many bytes, the i-th with the key byte of its phase.
LEMMA UnmaskBytes ==
  ASSUME NEW f \in Frame, NEW s \in Seq(Byte)
  PROVE  /\ Unmask(f, s) \in Seq(Byte)
         /\ Len(Unmask(f, s)) = Len(s)
         /\ \A i \in 1..Len(s) :
              Unmask(f, s)[i] =
                IF f.mask THEN XorByte(s[i], f.masking_key[((f.mask_index + i - 1) % 4) + 1])
                          ELSE s[i]
  <1>1. \A i \in 1..Len(s) : s[i] \in Byte
    BY ElementOfSeq
  <1>2. \A i \in 1..Len(s) : f.masking_key[((f.mask_index + i - 1) % 4) + 1] \in Byte
    <2> TAKE i \in 1..Len(s)
    <2>1. ((f.mask_index + i - 1) % 4) + 1 \in 1..4
      BY DEF Frame
    <2>2. QED
      BY <2>1 DEF Frame
  <1>3. Len(s) \in Nat
    BY LenProperties
  <1>4. \A i \in 1..Len(s) :
          (IF f.mask THEN XorByte(s[i], f.masking_key[((f.mask_index + i - 1) % 4) + 1])
                     ELSE s[i]) \in Byte
    BY <1>1, <1>2, XorAssumption
  <1>5. Unmask(f, s) \in [1..Len(s) -> Byte]
    BY <1>4 DEF Unmask
  <1>6. QED
    BY <1>3, <1>5, IsASeq, LenProperties DEF Unmask

-----------------------------------------------------------------------------
\* Going on and returning both move n bytes of the call to what is parsed.
LEMMA CallMoves ==
  ASSUME TypeOK, NEW n \in 0..Len(data), Continue(n) \/ Return(n)
  PROVE  /\ data' \in Seq(Byte) /\ wire' \in Seq(Byte) /\ seen' \in Seq(Byte)
         /\ running' \in BOOLEAN
         /\ Len(seen) \in Nat /\ Len(seen') = Len(seen) + n
         /\ \A i \in 1..Len(seen) : seen'[i] = seen[i]
         /\ \A i \in 1..n : seen'[Len(seen) + i] = data[i]
  <1>1. data \in Seq(Byte) /\ wire \in Seq(Byte) /\ seen \in Seq(Byte)
    BY DEF TypeOK
  <1>2. /\ SubSeq(data, 1, n) \in Seq(Byte)
        /\ Len(SubSeq(data, 1, n)) = n
        /\ \A i \in 1..n : SubSeq(data, 1, n)[i] = data[i]
        /\ Rest(n) \in Seq(Byte)
    BY <1>1, Pieces DEF Rest
  <1>3. seen' = seen \o SubSeq(data, 1, n)
    BY DEF Continue, Return
  <1>4. Len(seen) \in Nat
    BY <1>1, LenProperties
  <1>5. /\ seen' \in Seq(Byte)
        /\ Len(seen') = Len(seen) + n
        /\ \A i \in 1 .. Len(seen) + n :
             seen'[i] = IF i <= Len(seen) THEN seen[i] ELSE SubSeq(data, 1, n)[i - Len(seen)]
    BY <1>1, <1>2, <1>3, ConcatProperties
  <1>6. data' \in Seq(Byte) /\ wire' \in Seq(Byte) /\ running' \in BOOLEAN
    <2>1. CASE Continue(n)
      BY <1>1, <1>2, <2>1 DEF Continue, TypeOK
    <2>2. CASE Return(n)
      <3>1. Rest(n) \o wire \in Seq(Byte)
        BY <1>1, <1>2, ConcatProperties
      <3>2. QED
        BY <2>2, <3>1, EmptySeq DEF Return
    <2>3. QED
      BY <2>1, <2>2
  <1>7. \A i \in 1..Len(seen) : seen'[i] = seen[i]
    BY <1>4, <1>5
  <1>8. \A i \in 1..n : seen'[Len(seen) + i] = data[i]
    <2> TAKE i \in 1..n
    <2>1. Len(seen) + i \in 1..Len(seen) + n /\ ~(Len(seen) + i <= Len(seen))
          /\ Len(seen) + i - Len(seen) = i
      BY <1>4
    <2>2. QED
      BY <1>2, <1>5, <2>1
  <1>9. QED
    BY <1>4, <1>5, <1>6, <1>7, <1>8

\* A fresh frame is a frame, whatever key is left in it.
LEMMA FreshFrameType ==
  ASSUME NEW f \in Frame
  PROVE  FreshFrame(f.masking_key) \in Frame
  BY DEF FreshFrame, Frame

\* Completing a frame whose payload has the length it declared keeps the invariant.
LEMMA Completing ==
  ASSUME IInv, running, ws_errno = "OK",
         NEW f \in Frame, NEW payload \in Seq(Byte), NEW n \in 0..Len(data),
         Len(payload) = f.payload_len,
         HandleFrameComplete(f, payload, n)
  PROVE  IInv'
  <1> USE DEF IInv
  <1>1. Continue(n) \/ Return(n)
    BY DEF HandleFrameComplete, Fail
  <1>2. /\ data' \in Seq(Byte) /\ wire' \in Seq(Byte) /\ seen' \in Seq(Byte)
        /\ running' \in BOOLEAN
    BY <1>1, CallMoves
  <1>3. state' \in {"start", "complete"} /\ left' = 0 /\ cur' = payload
    BY DEF HandleFrameComplete
  <1>4. frame' \in Frame /\ (state' = "complete" => frame' = f)
    <2>1. FreshFrame(f.masking_key) \in Frame
      BY FreshFrameType
    <2>2. QED
      BY <2>1 DEF HandleFrameComplete
  <1>5. ws_errno' \in {"OK", "UNKNOWN"} /\ (ws_errno' # "OK" => running' = FALSE)
    BY DEF HandleFrameComplete, Fail, Return
  <1>6. close_received' \in BOOLEAN
    BY DEF HandleFrameComplete, TypeOK
  <1>7. frames' \in Seq(Delivered) /\ FramesExact'
    <2> DEFINE r == [fin |-> f.fin, opcode |-> f.opcode,
                     declared |-> f.payload_len, payload |-> payload]
    <2>1. r \in Delivered
      BY DEF Delivered, Frame
    <2>2. frames \in Seq(Delivered) /\ Len(frames) \in Nat
      BY LenProperties DEF TypeOK
    <2>3. CASE UNCHANGED frames
      BY <2>2, <2>3 DEF FramesExact
    <2>4. CASE frames' = Append(frames, r)
      <3> HIDE DEF r
      <3>1. /\ frames' \in Seq(Delivered)
            /\ Len(frames') = Len(frames) + 1
            /\ \A i \in 1..Len(frames) : frames'[i] = frames[i]
            /\ frames'[Len(frames) + 1] = r
        BY <2>1, <2>2, <2>4, AppendProperties
      <3>2. Len(r.payload) = r.declared
        BY DEF r
      <3>3. \A i \in 1..Len(frames') : Len(frames'[i].payload) = frames'[i].declared
        BY <2>2, <3>1, <3>2 DEF FramesExact
      <3>4. QED
        BY <3>1, <3>3 DEF FramesExact
    <2>5. QED
      BY <2>3, <2>4 DEF HandleFrameComplete
  <1>8. TypeOK'
    BY <1>2, <1>3, <1>4, <1>5, <1>6, <1>7 DEF TypeOK
  <1>9. FrameInv' /\ UnmaskedInPhase'
    BY <1>3, <1>4, <1>5 DEF FrameInv, UnmaskedInPhase
  <1>10. QED
    BY <1>7, <1>8, <1>9

(***************************************************************************)
(* The updates of frame, one field at a time: still a frame.               *)
(***************************************************************************)
LEMMA SetMaskIndex ==
  ASSUME NEW f \in Frame, NEW n \in 0..3
  PROVE  [f EXCEPT !.mask_index = n] \in Frame
  BY DEF Frame

LEMMA SetKey ==
  ASSUME NEW f \in Frame, NEW k \in [1..4 -> Byte]
  PROVE  [f EXCEPT !.masking_key = k] \in Frame
  BY DEF Frame

LEMMA SetMask ==
  ASSUME NEW f \in Frame, NEW b \in BOOLEAN
  PROVE  [f EXCEPT !.mask = b] \in Frame
  BY DEF Frame

LEMMA SetPayloadLen ==
  ASSUME NEW f \in Frame, NEW n \in Nat
  PROVE  [f EXCEPT !.payload_len = n] \in Frame
  BY DEF Frame

LEMMA SetReceived ==
  ASSUME NEW f \in Frame, NEW n \in Nat
  PROVE  [f EXCEPT !.payload_received = n] \in Frame
  BY DEF Frame

\* The header of an unmasked frame leaves a frame with no mask.
LEMMA NoMaskFields ==
  ASSUME NEW f \in Frame, ~f.mask, f.payload_received = 0
  PROVE  LET g == [f EXCEPT !.mask_index = 0, !.masking_key = ZeroKey]
         IN  g \in Frame /\ g.payload_received = 0 /\ ~g.mask
  <1> DEFINE g == [f EXCEPT !.mask_index = 0, !.masking_key = ZeroKey]
             h == [f EXCEPT !.mask_index = 0]
  <1>1. h \in Frame
    <2>1. 0 \in 0..3
      OBVIOUS
    <2>2. QED
      BY <2>1, SetMaskIndex, Zenon
  <1>2. ZeroKey \in [1..4 -> Byte]
    BY DEF ZeroKey, Byte
  <1>3. g = [h EXCEPT !.masking_key = ZeroKey]
    OBVIOUS
  <1>4. g \in Frame
    <2> HIDE DEF h, g
    <2>1. QED
      BY <1>1, <1>2, <1>3, SetKey
  <1>5. g.payload_received = f.payload_received
    BY DEF Frame
  <1>6. g.mask = f.mask
    BY DEF Frame
  <1>7. QED
    BY <1>4, <1>5, <1>6

\* The first byte of a frame sets its FIN and opcode.
LEMMA StartFields ==
  ASSUME NEW f \in Frame, NEW ch \in Byte
  PROVE  [f EXCEPT !.fin = TopBit(ch), !.opcode = OpcodeOf(ch)] \in Frame
  <1> DEFINE b == TopBit(ch)
             op == OpcodeOf(ch)
             h == [f EXCEPT !.fin = b]
             g == [f EXCEPT !.fin = b, !.opcode = op]
  <1>1. b \in BOOLEAN
    BY DEF TopBit
  <1>2. op \in 0..15
    BY DEF OpcodeOf, Byte
  <1> HIDE DEF b, op
  <1>3. h \in Frame
    BY <1>1 DEF Frame
  <1>4. g = [h EXCEPT !.opcode = op]
    OBVIOUS
  <1>5. g \in Frame
    <2> HIDE DEF g, h
    <2>1. QED
      BY <1>2, <1>3, <1>4 DEF Frame
  <1>6. QED
    BY <1>5 DEF b, op

\* A length, once known, starts the count of the payload.
LEMMA LengthFields ==
  ASSUME NEW f \in Frame, NEW n \in Nat
  PROVE  LET g == [f EXCEPT !.payload_len = n, !.payload_received = 0]
         IN  g \in Frame /\ g.payload_received = 0
  <1> DEFINE g == [f EXCEPT !.payload_len = n, !.payload_received = 0]
             h == [f EXCEPT !.payload_len = n]
  <1>1. h \in Frame
    BY SetPayloadLen, Zenon
  <1>2. g = [h EXCEPT !.payload_received = 0]
    OBVIOUS
  <1>3. g \in Frame
    <2> HIDE DEF g, h
    <2>1. QED
      BY <1>1, <1>2, SetReceived
  <1>4. g.payload_received = 0
    BY DEF Frame
  <1>5. QED
    BY <1>3, <1>4

\* A byte of the masking key goes to its place; the first one resets the phase.
LEMMA KeyFields ==
  ASSUME NEW f \in Frame, NEW ch \in Byte, NEW i \in 1..4, NEW n \in 0..3
  PROVE  [f EXCEPT !.masking_key = [f.masking_key EXCEPT ![i] = ch], !.mask_index = n] \in Frame
  <1> DEFINE k == [f.masking_key EXCEPT ![i] = ch]
             h == [f EXCEPT !.masking_key = k]
             g == [f EXCEPT !.masking_key = k, !.mask_index = n]
  <1>1. k \in [1..4 -> Byte]
    BY DEF Frame
  <1> HIDE DEF k
  <1>2. h \in Frame
    BY <1>1 DEF Frame
  <1>3. g = [h EXCEPT !.mask_index = n]
    OBVIOUS
  <1>4. g \in Frame
    <2> HIDE DEF g, h
    <2>1. QED
      BY <1>2, <1>3, SetMaskIndex
  <1>5. QED
    BY <1>4 DEF k

\* Payload moves the count and the phase and nothing else.
LEMMA PayloadFields ==
  ASSUME NEW f \in Frame, NEW m \in Nat, NEW i \in 0..3
  PROVE  [f EXCEPT !.payload_received = m, !.mask_index = i] \in Frame
  <1> DEFINE h == [f EXCEPT !.payload_received = m]
             g == [f EXCEPT !.payload_received = m, !.mask_index = i]
  <1>1. h \in Frame
    BY DEF Frame
  <1>2. g = [h EXCEPT !.mask_index = i]
    OBVIOUS
  <1>3. QED
    <2> HIDE DEF g, h
    <2>1. g \in Frame
      BY <1>1, <1>2, SetMaskIndex
    <2>2. QED
      BY <2>1 DEF g

\* The phase of the key may be counted from any multiple of four.
LEMMA PhaseShift ==
  ASSUME NEW a \in Nat, NEW i \in Nat
  PROVE  ((a % 4) + i) % 4 = (a + i) % 4
  OBVIOUS

\* The header is read: payload is awaited in phase 0, or the empty frame is done.
LEMMA Beginning ==
  ASSUME IInv, running, ws_errno = "OK", data # <<>>, cur = <<>>,
         NEW f \in Frame, f.payload_received = 0, f.mask => f.mask_index = 0,
         BeginPayload(f)
  PROVE  IInv'
  <1>1. 1 \in 0..Len(data) /\ 0 \in 0..Len(data)
    BY EmptySeq DEF IInv, TypeOK
  <1>2. CASE f.payload_len = 0
    <2>1. HandleFrameComplete(f, cur, 1)
      BY <1>2 DEF BeginPayload
    <2>2. cur \in Seq(Byte) /\ Len(cur) = 0
      BY EmptySeq
    <2>3. QED
      BY <1>1, <1>2, <2>1, <2>2, Completing
  <1>3. CASE f.payload_len # 0
    <2>1. Continue(1) /\ state' = "payload" /\ left' = 0 /\ frame' = f
          /\ UNCHANGED <<ws_errno, close_received, cur, frames>>
      BY <1>3 DEF BeginPayload, clientVars
    <2>2. TypeOK'
      BY <1>1, <2>1, CallMoves DEF TypeOK, IInv
    <2>3. FrameInv'
      <3>1. f.payload_len \in Nat \ {0} /\ Len(cur) = 0
        BY <1>3, EmptySeq DEF Frame
      <3>2. Len(seen') \in Nat
        BY <2>2, LenProperties DEF TypeOK
      <3>3. QED
        BY <2>1, <3>1, <3>2 DEF FrameInv
    <2>4. FramesExact' /\ UnmaskedInPhase'
      BY <2>1, EmptySeq DEF FramesExact, UnmaskedInPhase, IInv
    <2>5. QED
      BY <2>2, <2>3, <2>4 DEF IInv
  <1>4. QED
    BY <1>2, <1>3

\* The length is read: the key comes next, or the header is read.
LEMMA Announcing ==
  ASSUME IInv, running, ws_errno = "OK", data # <<>>, cur = <<>>,
         NEW f \in Frame, f.payload_received = 0,
         LengthKnown(f)
  PROVE  IInv'
  <1>1. CASE f.mask
    <2>1. Continue(1) /\ state' = "key" /\ left' = 4 /\ frame' = f
          /\ UNCHANGED <<ws_errno, close_received, cur, frames>>
      BY <1>1 DEF LengthKnown, clientVars
    <2>2. 1 \in 0..Len(data)
      BY EmptySeq DEF IInv, TypeOK
    <2>3. TypeOK'
      BY <2>1, <2>2, CallMoves DEF TypeOK, IInv
    <2>4. FrameInv' /\ FramesExact' /\ UnmaskedInPhase'
      BY <2>1 DEF FrameInv, FramesExact, UnmaskedInPhase, IInv
    <2>5. QED
      BY <2>3, <2>4 DEF IInv
  <1>2. CASE ~f.mask
    <2> DEFINE g == [f EXCEPT !.mask_index = 0, !.masking_key = ZeroKey]
    <2>1. g \in Frame /\ g.payload_received = 0 /\ ~g.mask
      BY <1>2, NoMaskFields
    <2>2. BeginPayload(g)
      BY <1>2 DEF LengthKnown
    <2> HIDE DEF g
    <2>3. QED
      BY <2>1, <2>2, Beginning
  <1>3. QED
    BY <1>1, <1>2

-----------------------------------------------------------------------------
(***************************************************************************)
(* Every step keeps the invariant.                                         *)
(***************************************************************************)
\* The bytes of a header stand for natural numbers.
LEMMA HeaderNumbers ==
  ASSUME NEW ch \in Byte, NEW len \in Nat
  PROVE  Len7(ch) \in Nat /\ Accumulate(len, ch) \in Nat
  BY LenCapAssumption DEF Len7, Accumulate, Byte

\* What a step of the loop on a byte finds.
LEMMA AtByte ==
  ASSUME IInv, running, data # <<>>
  PROVE  /\ ws_errno = "OK"
         /\ Head(data) \in Byte
         /\ 0 \in 0..Len(data) /\ 1 \in 0..Len(data)
         /\ frame \in Frame
  <1>1. data \in Seq(Byte) /\ frame \in Frame
    BY DEF IInv, TypeOK
  <1>2. ws_errno = "OK"
    BY DEF IInv, FrameInv
  <1>3. Len(data) \in Nat \ {0}
    BY <1>1, EmptySeq
  <1>4. Head(data) \in Byte
    BY <1>1, HeadTailProperties
  <1>5. QED
    BY <1>1, <1>2, <1>3, <1>4

LEMMA FrameStartInv ==
  ASSUME IInv, FrameStart
  PROVE  IInv'
  <1> DEFINE ch == Head(data)
             f  == [frame EXCEPT !.fin = TopBit(ch), !.opcode = OpcodeOf(ch)]
  <1>1. running /\ data # <<>> /\ state = "start"
    BY DEF FrameStart, Parsing
  <1>2. ws_errno = "OK" /\ ch \in Byte /\ 0 \in 0..Len(data) /\ 1 \in 0..Len(data)
    BY <1>1, AtByte
  <1>3. f \in Frame
    <2>1. frame \in Frame /\ ch \in Byte
      BY <1>1, AtByte
    <2>2. QED
      BY <2>1, StartFields, Zenon
  <1>4. frame' = f /\ UNCHANGED <<left, close_received, frames>>
    BY DEF FrameStart
  <1> HIDE DEF f, ch
  <1>5. CASE UNCHANGED <<state, cur>> /\ Return(0) /\ ws_errno' \in {"INVALID_OPCODE", "UNKNOWN"}
    <2>1. TypeOK'
      BY <1>2, <1>3, <1>4, <1>5, CallMoves DEF IInv, TypeOK
    <2>2. ~running'
      BY <1>5 DEF Return
    <2>3. FrameInv' /\ UnmaskedInPhase'
      BY <1>1, <1>5, <2>2 DEF FrameInv, UnmaskedInPhase
    <2>4. QED
      BY <1>4, <2>1, <2>3 DEF IInv, FramesExact
  <1>6. CASE state' = "opcode" /\ cur' = <<>> /\ Continue(1) /\ UNCHANGED ws_errno
    <2>1. TypeOK'
      BY <1>2, <1>3, <1>4, <1>6, CallMoves, EmptySeq DEF IInv, TypeOK
    <2>2. FrameInv' /\ UnmaskedInPhase'
      BY <1>2, <1>6 DEF FrameInv, UnmaskedInPhase
    <2>3. QED
      BY <1>4, <2>1, <2>2 DEF IInv, FramesExact
  <1>7. QED
    BY <1>5, <1>6 DEF FrameStart, Fail

LEMMA FrameOpcodeInv ==
  ASSUME IInv, FrameOpcode
  PROVE  IInv'
  <1> DEFINE ch == Head(data)
             f  == [frame EXCEPT !.mask = TopBit(ch)]
             g  == [f EXCEPT !.payload_len = Len7(ch), !.payload_received = 0]
             h  == [f EXCEPT !.payload_len = 0]
  <1>1. running /\ data # <<>> /\ state = "opcode"
    BY DEF FrameOpcode, Parsing
  <1>2. ws_errno = "OK" /\ ch \in Byte /\ 1 \in 0..Len(data) /\ frame \in Frame
    BY <1>1, AtByte
  <1>3. cur = <<>>
    BY <1>1 DEF IInv, FrameInv
  <1>4. f \in Frame
    <2>1. TopBit(ch) \in BOOLEAN
      BY DEF TopBit
    <2>2. QED
      BY <1>2, <2>1, SetMask, Zenon
  <1>5. Len7(ch) \in Nat /\ 0 \in Nat
    <2>1. 0 \in Nat
      OBVIOUS
    <2>2. QED
      BY <1>2, <2>1, HeaderNumbers, Zenon
  <1>6. g \in Frame /\ g.payload_received = 0 /\ h \in Frame
    <2> HIDE DEF f
    <2>1. QED
      BY <1>4, <1>5, LengthFields, SetPayloadLen, Zenon
  <1>7. CASE Len7(ch) < 126
    <2>1. LengthKnown(g)
      BY <1>7 DEF FrameOpcode
    <2> HIDE DEF f, g, h, ch
    <2>2. QED
      BY <1>1, <1>2, <1>3, <1>6, <2>1, Announcing
  <1>8. CASE ~(Len7(ch) < 126)
    <2>1. /\ state' = "len" /\ left' \in {2, 8} /\ frame' = h /\ Continue(1)
          /\ UNCHANGED <<ws_errno, close_received, cur, frames>>
      BY <1>8 DEF FrameOpcode, clientVars
    <2> HIDE DEF f, g, h, ch
    <2>2. TypeOK'
      BY <1>2, <1>6, <2>1, CallMoves DEF IInv, TypeOK
    <2>3. FrameInv' /\ UnmaskedInPhase' /\ FramesExact'
      BY <1>2, <1>3, <2>1 DEF FrameInv, UnmaskedInPhase, FramesExact, IInv
    <2>4. QED
      BY <2>2, <2>3 DEF IInv
  <1>9. QED
    BY <1>7, <1>8

LEMMA FrameLengthInv ==
  ASSUME IInv, FrameLength
  PROVE  IInv'
  <1> DEFINE n == Accumulate(frame.payload_len, Head(data))
             f == [frame EXCEPT !.payload_len = n]
             g == [f EXCEPT !.payload_received = 0]
  <1>1. running /\ data # <<>> /\ state = "len"
    BY DEF FrameLength, Parsing
  <1>2. ws_errno = "OK" /\ Head(data) \in Byte /\ 1 \in 0..Len(data) /\ frame \in Frame
    BY <1>1, AtByte
  <1>3. cur = <<>> /\ left \in 1..8
    BY <1>1 DEF IInv, FrameInv
  <1>4. n \in Nat
    <2>1. frame.payload_len \in Nat
      BY <1>2 DEF Frame
    <2>2. QED
      BY <1>2, <2>1, HeaderNumbers, Zenon
  <1>5. f \in Frame /\ g \in Frame /\ g.payload_received = 0
    <2> HIDE DEF n
    <2>1. f \in Frame
      BY <1>2, <1>4, SetPayloadLen, Zenon
    <2> HIDE DEF f
    <2>2. 0 \in Nat
      OBVIOUS
    <2>3. g \in Frame
      BY <2>1, <2>2, SetReceived, Zenon
    <2>4. g.payload_received = 0
      BY <2>1 DEF Frame
    <2>5. QED
      BY <2>1, <2>3, <2>4
  <1>6. CASE left = 1
    <2>1. LengthKnown(g)
      BY <1>6 DEF FrameLength
    <2> HIDE DEF f, g, n
    <2>2. QED
      BY <1>1, <1>2, <1>3, <1>5, <2>1, Announcing
  <1>7. CASE left # 1
    <2>1. /\ left' = left - 1 /\ frame' = f /\ Continue(1)
          /\ UNCHANGED <<state, ws_errno, close_received, cur, frames>>
      BY <1>7 DEF FrameLength, clientVars
    <2> HIDE DEF f, g, n
    <2>2. TypeOK'
      BY <1>2, <1>3, <1>5, <2>1, CallMoves DEF IInv, TypeOK
    <2>3. FrameInv' /\ UnmaskedInPhase' /\ FramesExact'
      BY <1>1, <1>2, <1>3, <1>7, <2>1 DEF FrameInv, UnmaskedInPhase, FramesExact, IInv
    <2>4. QED
      BY <2>2, <2>3 DEF IInv
  <1>8. QED
    BY <1>6, <1>7

LEMMA FrameMaskKeyInv ==
  ASSUME IInv, FrameMaskKey
  PROVE  IInv'
  <1> DEFINE i == 5 - left
             n == IF left = 4 THEN 0 ELSE frame.mask_index
             f == [frame EXCEPT !.masking_key = [frame.masking_key EXCEPT ![i] = Head(data)], !.mask_index = n]
             g == [f EXCEPT !.payload_received = 0]
  <1>1. running /\ data # <<>> /\ state = "key"
    BY DEF FrameMaskKey, Parsing
  <1>2. ws_errno = "OK" /\ Head(data) \in Byte /\ 1 \in 0..Len(data) /\ frame \in Frame
    BY <1>1, AtByte
  <1>3. cur = <<>> /\ left \in 1..4 /\ n = 0 /\ i \in 1..4
    BY <1>1 DEF IInv, FrameInv
  <1>4. FrameMaskKey => IF left = 1 THEN BeginPayload(g)
                        ELSE /\ left' = left - 1 /\ frame' = f /\ Continue(1)
                             /\ UNCHANGED <<state, ws_errno, close_received, cur, frames>>
    BY DEF FrameMaskKey, clientVars
  <1>5. f \in Frame /\ f.mask_index = 0
    <2> HIDE DEF n, i
    <2>1. n \in 0..3
      BY <1>3
    <2>2. i \in 1..4
      BY <1>3
    <2>3. f \in Frame
      BY <1>2, <2>1, <2>2, KeyFields, Zenon
    <2>4. f.mask_index = n
      BY <1>2 DEF Frame
    <2>5. QED
      BY <1>3, <2>3, <2>4
  <1>6. g \in Frame /\ g.payload_received = 0 /\ g.mask_index = 0
    <2> HIDE DEF f
    <2>1. 0 \in Nat
      OBVIOUS
    <2>2. g \in Frame
      BY <1>5, <2>1, SetReceived, Zenon
    <2>3. g.payload_received = 0
      BY <1>5 DEF Frame
    <2>4. g.mask_index = 0
      BY <1>5 DEF Frame
    <2>5. QED
      BY <2>2, <2>3, <2>4
  <1> HIDE DEF f, g, n, i
  <1>7. CASE left = 1
    BY <1>1, <1>2, <1>3, <1>4, <1>6, <1>7, Beginning
  <1>8. CASE left # 1
    <2>1. /\ left' = left - 1 /\ frame' = f /\ Continue(1)
          /\ UNCHANGED <<state, ws_errno, close_received, cur, frames>>
      BY <1>4, <1>8
    <2>2. TypeOK'
      BY <1>2, <1>3, <1>5, <2>1, CallMoves DEF IInv, TypeOK
    <2>3. FrameInv' /\ UnmaskedInPhase' /\ FramesExact'
      BY <1>1, <1>2, <1>3, <1>5, <1>8, <2>1 DEF FrameInv, UnmaskedInPhase, FramesExact, IInv
    <2>4. QED
      BY <2>2, <2>3 DEF IInv
  <1>9. QED
    BY <1>7, <1>8

\* The payload the client holds, with the next piece unmasked, is still the raw
\* stream unmasked from phase 0.
LEMMA PayloadGrows ==
  ASSUME IInv, running, data # <<>>, state = "payload",
         NEW k \in 0..Len(data), Continue(k) \/ Return(k),
         NEW payload, payload = cur \o Unmask(frame, SubSeq(data, 1, k))
  PROVE  /\ payload \in Seq(Byte)
         /\ Len(payload) = frame.payload_received + k
         /\ Len(payload) <= Len(seen')
         /\ \A j \in 1..Len(payload) :
              payload[j] = IF frame.mask
                             THEN XorByte(seen'[Len(seen') - Len(payload) + j],
                                          frame.masking_key[((j - 1) % 4) + 1])
                             ELSE seen'[Len(seen') - Len(payload) + j]
  <1> DEFINE s == SubSeq(data, 1, k)
             u == Unmask(frame, s)
             r == frame.payload_received
  <1>1. /\ cur \in Seq(Byte) /\ data \in Seq(Byte) /\ frame \in Frame
        /\ ws_errno = "OK"
    BY AtByte DEF IInv, TypeOK
  <1>2. /\ Len(cur) = r /\ r \in Nat /\ Len(cur) <= Len(seen)
        /\ frame.mask => frame.mask_index = r % 4
    BY <1>1, LenProperties DEF IInv, FrameInv
  <1>3. s \in Seq(Byte) /\ Len(s) = k /\ \A i \in 1..k : s[i] = data[i]
    BY <1>1, Pieces
  <1>4. /\ u \in Seq(Byte) /\ Len(u) = k
        /\ \A i \in 1..k :
             u[i] = IF frame.mask
                      THEN XorByte(s[i], frame.masking_key[((frame.mask_index + i - 1) % 4) + 1])
                      ELSE s[i]
    <2> HIDE DEF s
    <2>1. QED
      BY <1>1, <1>3, UnmaskBytes
  <1>5. /\ payload \in Seq(Byte) /\ Len(payload) = r + k
        /\ \A j \in 1 .. r + k : payload[j] = IF j <= r THEN cur[j] ELSE u[j - r]
    <2>1. payload = cur \o u
      OBVIOUS
    <2> HIDE DEF u, s, r
    <2>2. /\ cur \o u \in Seq(Byte)
          /\ Len(cur \o u) = Len(cur) + Len(u)
          /\ \A j \in 1 .. Len(cur) + Len(u) :
               (cur \o u)[j] = IF j <= Len(cur) THEN cur[j] ELSE u[j - Len(cur)]
      BY <1>1, <1>4, ConcatProperties
    <2>3. QED
      BY <1>2, <1>4, <2>1, <2>2
  <1>6. /\ Len(seen) \in Nat /\ Len(seen') = Len(seen) + k
        /\ \A i \in 1..Len(seen) : seen'[i] = seen[i]
        /\ \A i \in 1..k : seen'[Len(seen) + i] = data[i]
    BY CallMoves DEF IInv
  <1> HIDE DEF s, u, r
  <1>7. ASSUME NEW j \in 1 .. r + k
        PROVE  payload[j] = IF frame.mask
                              THEN XorByte(seen'[Len(seen') - Len(payload) + j],
                                           frame.masking_key[((j - 1) % 4) + 1])
                              ELSE seen'[Len(seen') - Len(payload) + j]
    <2>0. k \in Nat /\ r \in Nat /\ j \in Int
      BY <1>2
    <2>1. Len(seen') - Len(payload) + j = Len(seen) - r + j
      <3>1. Len(payload) = r + k
        BY <1>5
      <3>2. Len(seen) \in Nat /\ Len(seen') = Len(seen) + k
        BY <1>6
      <3>3. \A x, a, b, c \in Int : (x + b) - (a + b) + c = x - a + c
        OBVIOUS
      <3>4. QED
        BY <2>0, <3>1, <3>2, <3>3
    <2>2. CASE j <= r
      <3>1. payload[j] = cur[j]
        BY <1>5, <2>2
      <3>2. seen'[Len(seen) - r + j] = seen[Len(seen) - r + j]
        <4>1. Len(seen) - r + j \in 1..Len(seen)
          BY <1>2, <1>6, <2>2
        <4>2. QED
          BY <1>6, <4>1
      <3>3. cur[j] = IF frame.mask
                       THEN XorByte(seen[Len(seen) - r + j], frame.masking_key[((j - 1) % 4) + 1])
                       ELSE seen[Len(seen) - r + j]
        <4>1. j \in 1..Len(cur)
          BY <1>2, <2>2
        <4>2. QED
          BY <1>2, <4>1 DEF IInv, UnmaskedInPhase
      <3>4. QED
        BY <2>1, <3>1, <3>2, <3>3
    <2>3. CASE j > r
      <3>1. j - r \in 1..k
        BY <1>2, <2>3
      <3>2. payload[j] = u[j - r]
        BY <1>2, <1>5, <2>3
      <3>3. seen'[Len(seen) - r + j] = data[j - r]
        <4>1. Len(seen) - r + j = Len(seen) + (j - r)
          BY <1>2, <1>6
        <4>2. QED
          BY <1>6, <3>1, <4>1
      <3>4. frame.mask => (frame.mask_index + (j - r) - 1) % 4 = (j - 1) % 4
        <4>1. j - r - 1 \in Nat
          BY <1>2, <2>3
        <4>2. ((r % 4) + (j - r - 1)) % 4 = (r + (j - r - 1)) % 4
          BY <1>2, <4>1, PhaseShift
        <4>3. r + (j - r - 1) = j - 1 /\ (r % 4) + (j - r - 1) = (r % 4) + (j - r) - 1
          BY <1>2
        <4>4. QED
          BY <1>2, <4>2, <4>3
      <3>5. u[j - r] = IF frame.mask
                         THEN XorByte(data[j - r], frame.masking_key[((j - 1) % 4) + 1])
                         ELSE data[j - r]
        BY <1>3, <1>4, <3>1, <3>4
      <3>6. QED
        BY <2>1, <3>2, <3>3, <3>5
    <2>4. j <= r \/ j > r
      BY <2>0
    <2>5. QED
      BY <2>2, <2>3, <2>4, Zenon
  <1>8. QED
    BY <1>2, <1>5, <1>6, <1>7, SMTT(60) DEF r

LEMMA FramePayloadInv ==
  ASSUME IInv, FramePayload
  PROVE  IInv'
  <1> DEFINE remaining == frame.payload_len - frame.payload_received
             n == IF remaining < Len(data) THEN remaining ELSE Len(data)
             i == NextMaskIndex(frame, n)
             f == [frame EXCEPT !.payload_received = @ + n, !.mask_index = i]
             sum == frame.payload_received + n
  <1>1. running /\ data # <<>> /\ state = "payload"
    BY DEF FramePayload, Parsing
  <1>2. ws_errno = "OK" /\ 1 \in 0..Len(data) /\ frame \in Frame
    BY <1>1, AtByte
  <1>3. /\ frame.payload_received \in Nat /\ frame.payload_len \in Nat
        /\ frame.payload_received < frame.payload_len
        /\ frame.mask_index \in 0..3
    BY <1>1, <1>2 DEF IInv, FrameInv, Frame
  <1>4. Len(data) \in Nat /\ Len(data) >= 1
    BY <1>2, LenProperties DEF IInv, TypeOK
  <1>5. n \in 1..Len(data) /\ n <= remaining
    BY <1>3, <1>4
  <1>6. PICK taken \in PayloadTaken(n) :
          LET payload == cur \o Unmask(frame, SubSeq(data, 1, taken))
          IN  IF taken < n
                THEN /\ Fail("UNKNOWN", taken)
                     /\ cur' = payload
                     /\ UNCHANGED <<state, left, frame, close_received, frames>>
                ELSE IF PayloadComplete(f)
                THEN HandleFrameComplete(f, payload, n)
                ELSE /\ Continue(n)
                     /\ frame' = f /\ cur' = payload
                     /\ UNCHANGED <<state, left, ws_errno, close_received, frames>>
    BY DEF FramePayload
  <1> DEFINE payload == cur \o Unmask(frame, SubSeq(data, 1, taken))
  <1>7. taken \in 0..n
    <2> HIDE DEF n
    <2>1. QED
      BY <1>4, <1>5 DEF PayloadTaken
  <1>8. f \in Frame /\ f.payload_received = sum /\ f.mask_index = i
        /\ f.payload_len = frame.payload_len /\ f.mask = frame.mask
        /\ f.masking_key = frame.masking_key
    <2>1. i \in 0..3
      <3> HIDE DEF n
      <3>1. QED
        BY <1>3, <1>4, <1>5, SMTT(60) DEF NextMaskIndex
    <2>2. sum \in Nat
      BY <1>3, <1>5
    <2>3. f = [frame EXCEPT !.payload_received = sum, !.mask_index = i]
      OBVIOUS
    <2> HIDE DEF i, sum, n
    <2>4. f \in Frame
      BY <1>2, <2>1, <2>2, <2>3, PayloadFields, Zenon
    <2>5. f.payload_received = sum /\ f.mask_index = i /\ f.payload_len = frame.payload_len
      BY <1>2, <2>3 DEF Frame
    <2>6. f.mask = frame.mask
      BY <1>2, <2>3 DEF Frame
    <2>7. f.masking_key = frame.masking_key
      BY <1>2, <2>3 DEF Frame
    <2>8. QED
      BY <2>4, <2>5, <2>6, <2>7
  <1> HIDE DEF f, payload
  <1>9. CASE taken < n
    <2>1. /\ Return(taken) /\ ws_errno' = "UNKNOWN" /\ cur' = payload
          /\ UNCHANGED <<state, left, frame, close_received, frames>>
      BY <1>6, <1>9 DEF Fail, payload
    <2>2. taken \in 0..Len(data)
      BY <1>4, <1>5, <1>7
    <2>3. /\ payload \in Seq(Byte) /\ Len(payload) <= Len(seen')
          /\ \A j \in 1..Len(payload) :
               payload[j] = IF frame.mask
                              THEN XorByte(seen'[Len(seen') - Len(payload) + j],
                                           frame.masking_key[((j - 1) % 4) + 1])
                              ELSE seen'[Len(seen') - Len(payload) + j]
      BY <1>1, <2>1, <2>2, PayloadGrows DEF payload
    <2>4. TypeOK'
      BY <2>1, <2>2, <2>3, CallMoves DEF IInv, TypeOK
    <2>5. FrameInv'
      <3>1. ~running'
        BY <2>1 DEF Return
      <3>2. QED
        BY <1>1, <1>3, <2>1, <2>3, <3>1 DEF FrameInv
    <2>6. UnmaskedInPhase'
      BY <2>1, <2>3 DEF UnmaskedInPhase
    <2>7. QED
      BY <2>1, <2>4, <2>5, <2>6 DEF IInv, FramesExact
  <1>10. CASE ~(taken < n) /\ PayloadComplete(f)
    <2>1. taken = n /\ n \in 0..Len(data)
      BY <1>5, <1>7, <1>10
    <2>2. HandleFrameComplete(f, payload, n)
      BY <1>6, <1>10 DEF payload
    <2>3. Continue(n) \/ Return(n)
      BY <2>2 DEF HandleFrameComplete, Fail
    <2>4. payload \in Seq(Byte) /\ Len(payload) = sum
      BY <1>1, <2>1, <2>3, PayloadGrows DEF payload
    <2>5. sum = f.payload_len
      BY <1>3, <1>5, <1>8, <1>10 DEF PayloadComplete
    <2>6. QED
      BY <1>1, <1>2, <1>8, <2>1, <2>2, <2>4, <2>5, Completing
  <1>11. CASE ~(taken < n) /\ ~PayloadComplete(f)
    <2>1. taken = n /\ n \in 0..Len(data)
      BY <1>5, <1>7, <1>11
    <2>2. /\ Continue(n) /\ frame' = f /\ cur' = payload
          /\ UNCHANGED <<state, left, ws_errno, close_received, frames>>
      BY <1>6, <1>11 DEF payload
    <2>3. /\ payload \in Seq(Byte) /\ Len(payload) = sum /\ Len(payload) <= Len(seen')
          /\ \A j \in 1..Len(payload) :
               payload[j] = IF frame.mask
                              THEN XorByte(seen'[Len(seen') - Len(payload) + j],
                                           frame.masking_key[((j - 1) % 4) + 1])
                              ELSE seen'[Len(seen') - Len(payload) + j]
      <3>1. Continue(taken) \/ Return(taken)
        BY <2>1, <2>2
      <3>2. taken \in 0..Len(data) /\ sum = frame.payload_received + taken
        BY <2>1
      <3> HIDE DEF sum, n
      <3>3. QED
        <4>1. /\ payload \in Seq(Byte)
              /\ Len(payload) = frame.payload_received + taken
              /\ Len(payload) <= Len(seen')
              /\ \A j \in 1..Len(payload) :
                   payload[j] = IF frame.mask
                                  THEN XorByte(seen'[Len(seen') - Len(payload) + j],
                                               frame.masking_key[((j - 1) % 4) + 1])
                                  ELSE seen'[Len(seen') - Len(payload) + j]
          BY <1>1, <3>1, <3>2, PayloadGrows DEF payload
        <4>2. QED
          BY <3>2, <4>1, Zenon
    <2>4. TypeOK'
      BY <1>8, <2>1, <2>2, <2>3, CallMoves DEF IInv, TypeOK
    <2>5. FrameInv'
      <3>1. sum < f.payload_len
        BY <1>3, <1>5, <1>8, <1>11 DEF PayloadComplete
      <3>2. f.mask => f.mask_index = sum % 4
        <4>1. frame.mask => frame.mask_index = frame.payload_received % 4
          BY <1>1, <1>2 DEF IInv, FrameInv
        <4>2. frame.mask => i = ((frame.payload_received % 4) + n) % 4
          BY <4>1 DEF NextMaskIndex
        <4>3. n \in Nat
          BY <1>4, <1>5
        <4> HIDE DEF n
        <4>4. ((frame.payload_received % 4) + n) % 4 = sum % 4
          BY <1>3, <4>3, PhaseShift
        <4>5. QED
          BY <1>8, <4>2, <4>4
      <3>3. QED
        BY <1>1, <1>2, <1>8, <2>2, <2>3, <3>1, <3>2 DEF FrameInv
    <2>6. UnmaskedInPhase'
      BY <1>8, <2>2, <2>3 DEF UnmaskedInPhase
    <2>7. QED
      BY <2>2, <2>4, <2>5, <2>6 DEF IInv, FramesExact
  <1>12. QED
    BY <1>9, <1>10, <1>11

LEMMA FrameCompleteInv ==
  ASSUME IInv, FrameComplete
  PROVE  IInv'
  <1>1. running /\ data # <<>> /\ state = "complete" /\ HandleFrameComplete(frame, cur, 0)
    BY DEF FrameComplete, Parsing
  <1>2. ws_errno = "OK" /\ 0 \in 0..Len(data) /\ frame \in Frame
    BY <1>1, AtByte
  <1>3. cur \in Seq(Byte) /\ Len(cur) = frame.payload_len
    BY <1>1, <1>2 DEF IInv, FrameInv, TypeOK
  <1>4. QED
    BY <1>1, <1>2, <1>3, Completing

LEMMA EndOfDataInv ==
  ASSUME IInv, EndOfData
  PROVE  IInv'
  <1>1. 0 \in 0..Len(data)
    BY LenProperties DEF IInv, TypeOK
  <1>2. Return(0) /\ UNCHANGED <<state, left, frame, ws_errno, close_received, cur, frames>>
    BY DEF EndOfData, parserVars, clientVars
  <1>3. TypeOK'
    BY <1>1, <1>2, CallMoves DEF IInv, TypeOK
  <1>4. seen' = seen
    <2>1. seen \in Seq(Byte) /\ seen' \in Seq(Byte)
      BY <1>3 DEF IInv, TypeOK
    <2>2. Len(seen') = Len(seen) /\ \A j \in 1..Len(seen) : seen'[j] = seen[j]
      BY <1>1, <1>2, CallMoves DEF IInv
    <2>3. QED
      BY <2>1, <2>2, SeqEqual
  <1>5. FrameInv'
    <2>1. ~running'
      BY <1>2 DEF Return
    <2>2. QED
      BY <1>2, <1>4, <2>1 DEF FrameInv, IInv
  <1>6. FramesExact' /\ UnmaskedInPhase'
    BY <1>2, <1>4 DEF FramesExact, UnmaskedInPhase, IInv
  <1>7. QED
    BY <1>3, <1>5, <1>6 DEF IInv

LEMMA ExecuteInv ==
  ASSUME IInv, NEW n \in 1..Len(wire), Execute(n)
  PROVE  IInv'
  <1>1. /\ data' = SubSeq(wire, 1, n) /\ wire' = SubSeq(wire, n + 1, Len(wire))
        /\ running' = TRUE /\ ws_errno = "OK"
        /\ UNCHANGED <<state, left, frame, ws_errno, close_received, seen, cur, frames>>
    BY DEF Execute, Accepting, parserVars, clientVars
  <1>2. wire \in Seq(Byte) /\ n \in 0..Len(wire)
    BY LenProperties DEF IInv, TypeOK
  <1>3. data' \in Seq(Byte) /\ wire' \in Seq(Byte)
    BY <1>1, <1>2, Pieces
  <1>4. TypeOK'
    BY <1>1, <1>3 DEF IInv, TypeOK
  <1>5. FrameInv' /\ FramesExact' /\ UnmaskedInPhase'
    BY <1>1 DEF FrameInv, FramesExact, UnmaskedInPhase, IInv
  <1>6. QED
    BY <1>4, <1>5 DEF IInv

\* A fresh parser meets the invariant.
LEMMA FreshInv ==
  ASSUME wire \in Wires, seen = <<>>, data = <<>>, running = FALSE,
         state = "start", left = 0, frame = NoFrame,
         ws_errno = "OK", close_received = FALSE, cur = <<>>, frames = <<>>
  PROVE  IInv
  <1>1. NoFrame \in Frame
    <2>1. ZeroKey \in [1..4 -> Byte]
      BY DEF ZeroKey, Byte
    <2>2. QED
      BY <2>1 DEF NoFrame, FreshFrame, Frame
  <1>2. wire \in Seq(Byte)
    BY WiresAssumption
  <1>3. TypeOK
    <2>1. <<>> \in Seq(Byte) /\ <<>> \in Seq(Delivered)
      BY EmptySeq
    <2>2. running \in BOOLEAN /\ close_received \in BOOLEAN
      OBVIOUS
    <2>3. left \in 0..8 /\ state = "start" /\ ws_errno = "OK"
      OBVIOUS
    <2>4. frame \in Frame
      BY <1>1
    <2>5. /\ data \in Seq(Byte) /\ seen \in Seq(Byte) /\ cur \in Seq(Byte)
          /\ frames \in Seq(Delivered)
      BY <2>1
    <2>6. QED
      BY <1>2, <2>2, <2>3, <2>4, <2>5 DEF TypeOK
  <1>4. FrameInv /\ UnmaskedInPhase
    BY DEF FrameInv, UnmaskedInPhase
  <1>5. FramesExact
    BY EmptySeq DEF FramesExact
  <1>6. QED
    BY <1>3, <1>4, <1>5 DEF IInv

\* So does one that InitParser leaves behind.
LEMMA NextFresh ==
  ASSUME wire' \in Wires, seen' = <<>>, data' = <<>>, running' = FALSE,
         state' = "start", left' = 0, frame' = NoFrame,
         ws_errno' = "OK", close_received' = FALSE, cur' = <<>>, frames' = <<>>
  PROVE  IInv'
  <1>1. NoFrame \in Frame
    <2>1. ZeroKey \in [1..4 -> Byte]
      BY DEF ZeroKey, Byte
    <2>2. QED
      BY <2>1 DEF NoFrame, FreshFrame, Frame
  <1>2. wire' \in Seq(Byte)
    BY WiresAssumption
  <1>3. TypeOK'
    <2>1. <<>> \in Seq(Byte) /\ <<>> \in Seq(Delivered)
      BY EmptySeq
    <2>2. running' \in BOOLEAN /\ close_received' \in BOOLEAN
      OBVIOUS
    <2>3. left' \in 0..8 /\ state' = "start" /\ ws_errno' = "OK"
      OBVIOUS
    <2>4. frame' \in Frame
      BY <1>1
    <2>5. /\ data' \in Seq(Byte) /\ seen' \in Seq(Byte) /\ cur' \in Seq(Byte)
          /\ frames' \in Seq(Delivered)
      BY <2>1
    <2>6. QED
      BY <1>2, <2>2, <2>3, <2>4, <2>5 DEF TypeOK
  <1>4. FrameInv' /\ UnmaskedInPhase'
    BY DEF FrameInv, UnmaskedInPhase
  <1>5. FramesExact'
    BY EmptySeq DEF FramesExact
  <1>6. QED
    BY <1>3, <1>4, <1>5 DEF IInv

\* The parser keeps its invariant: the base of every theorem below.
THEOREM Invariant == Spec => []IInv
  <1>1. Init => IInv
    BY FreshInv DEF Init
  <1>2. IInv /\ [Next]_vars => IInv'
    <2> SUFFICES ASSUME IInv, [Next]_vars PROVE IInv'
      OBVIOUS
    <2>1. ASSUME NEW n \in 1..Len(wire), Execute(n) PROVE IInv'
      BY <2>1, ExecuteInv
    <2>2. CASE Step
      BY <2>2, FrameStartInv, FrameOpcodeInv, FrameLengthInv, FrameMaskKeyInv,
         FramePayloadInv, FrameCompleteInv, EndOfDataInv DEF Step
    <2>3. CASE InitParser
      <3>1. /\ wire' \in Wires /\ seen' = <<>> /\ data' = <<>> /\ running' = FALSE
            /\ state' = "start" /\ left' = 0 /\ frame' = NoFrame
            /\ ws_errno' = "OK" /\ close_received' = FALSE /\ cur' = <<>> /\ frames' = <<>>
        <4>1. running = FALSE
          BY <2>3 DEF InitParser, IInv, TypeOK
        <4>2. QED
          BY <2>3, <4>1, WiresAssumption DEF InitParser
      <3>2. QED
        BY <3>1, NextFresh
    <2>4. CASE UNCHANGED vars
      BY <2>4 DEF vars, parserVars, callVars, clientVars, IInv, TypeOK, FrameInv,
                  FramesExact, UnmaskedInPhase
    <2>5. QED
      BY <2>1, <2>2, <2>3, <2>4 DEF Next
  <1>3. QED
    BY <1>1, <1>2, PTL DEF Spec

\* Whatever streams arrive, however they are cut, every field of the parser and
\* every byte given to the client keeps to its range.
THEOREM TypeCorrect == Spec => []TypeOK
  BY Invariant, PTL DEF IInv

\* A frame is reported complete only with as much payload as it declared.
THEOREM FramesAreExact == Spec => []FramesExact
  BY Invariant, PTL DEF IInv

\* The client holds the payload of the frame in progress, unmasked in phase: the
\* cut of the stream into calls and into pieces of temp_buf cannot be seen in it.
THEOREM UnmaskingIsInPhase == Spec => []UnmaskedInPhase
  BY Invariant, PTL DEF IInv
-----------------------------------------------------------------------------
(***************************************************************************)
(* The promise of the callbacks: every step of the parser is a step of     *)
(* FrameStream, or nothing the client can see.                             *)
(***************************************************************************)
\* What the client records of a frame.
Told(f, payload) ==
  [fin |-> f.fin, opcode |-> f.opcode, declared |-> f.payload_len, payload |-> payload]

\* A CLOSE frame leaves the parser in the state in which it notifies that frame again, and nothing else does.
CloseInv ==
  /\ close_received => state = "complete"
  /\ state = "complete" /\ ws_errno = "OK" =>
       /\ close_received /\ frame.opcode = CLOSE
       /\ Len(frames) > 0 /\ frames[Len(frames)] = Told(frame, cur)

Promises == Client!Next \/ UNCHANGED Client!vars

LEMMA Prefixes ==
  ASSUME NEW s \in Seq(Byte), NEW u \in Seq(Byte)
  PROVE  Client!IsPrefix(s, s \o u) /\ Client!IsPrefix(s, s)
  <1>1. /\ s \o u \in Seq(Byte) /\ Len(s \o u) = Len(s) + Len(u) /\ Len(s) \in Nat /\ Len(u) \in Nat
        /\ \A j \in 1 .. Len(s) + Len(u) : (s \o u)[j] = IF j <= Len(s) THEN s[j] ELSE u[j - Len(s)]
    BY ConcatProperties, LenProperties
  <1>2. SubSeq(s, 1, Len(s)) = s
    BY SubSeqFull
  <1>3. PICK w : w = s \o u
    OBVIOUS
  <1>4. PICK n \in 0..Len(w) : n = Len(s)
    BY <1>1, <1>3
  <1>5. SubSeq(w, 1, n) = s
    <2>1. /\ SubSeq(w, 1, n) \in Seq(Byte) /\ Len(SubSeq(w, 1, n)) = n
          /\ \A j \in 1..n : SubSeq(w, 1, n)[j] = w[j]
      BY <1>1, <1>3, Pieces
    <2>2. \A j \in 1..n : w[j] = s[j]
      BY <1>1, <1>3, <1>4
    <2>3. QED
      BY <1>4, <2>1, <2>2, SeqEqual
  <1>6. QED
    BY <1>1, <1>2, <1>3, <1>4, <1>5 DEF Client!IsPrefix

LEMMA CompletingIsComplete ==
  ASSUME IInv, CloseInv, running, ws_errno = "OK", state \in {"opcode", "len", "key", "payload"},
         NEW f \in Frame, NEW payload \in Seq(Byte), NEW n, Len(payload) = f.payload_len,
         f.payload_len = (IF state = "payload" THEN frame.payload_len ELSE 0),
         Client!IsPrefix(cur, payload), HandleFrameComplete(f, payload, n)
  PROVE  CloseInv' /\ Promises
  <1>1. ~close_received /\ close_received \in BOOLEAN /\ frames \in Seq(Delivered)
    BY DEF CloseInv, IInv, TypeOK
  <1>2. cur' = payload /\ close_received' = (f.opcode = CLOSE)
    BY <1>1 DEF HandleFrameComplete
  <1>3. CASE ws_errno' = "UNKNOWN" /\ state' = "complete" /\ UNCHANGED frames
    <2>1. CloseInv'
      BY <1>3 DEF CloseInv
    <2>2. Client!Refuse
      BY <1>1, <1>2, <1>3 DEF Client!Refuse
    <2>3. QED
      BY <2>1, <2>2 DEF Promises, Client!Next
  <1>4. CASE /\ frames' = Append(frames, Told(f, payload)) /\ UNCHANGED ws_errno
             /\ IF close_received' THEN state' = "complete" /\ frame' = f
                                   ELSE state' = "start"
    <2>1. PICK r : r = Told(f, payload)
      OBVIOUS
    <2>2. r \in Delivered /\ r.opcode = f.opcode /\ r.declared = f.payload_len /\ r.payload = payload
      BY <2>1 DEF Told, Delivered, Frame
    <2>3. /\ Len(frames) \in Nat /\ Len(frames') = Len(frames) + 1 /\ frames'[Len(frames) + 1] = r
          /\ frames' = Append(frames, r)
      BY <1>1, <1>4, <2>1, <2>2, AppendProperties, LenProperties
    <2>4. CloseInv'
      <3>1. CASE close_received'
        <4>1. /\ f.opcode = CLOSE
              /\ frame' = f /\ cur' = payload /\ Len(frames') > 0
          <5>1. f.opcode = CLOSE
            BY <1>2, <3>1, Zenon
          <5>2. QED
            BY <1>2, <1>4, <2>3, <3>1, <5>1
        <4>2. frames'[Len(frames')] = Told(f, payload)
          BY <2>1, <2>3
        <4>3. state' = "complete"
          BY <1>4, <3>1
        <4>4. close_received' /\ frame'.opcode = CLOSE
          BY <3>1, <4>1
        <4>5. Len(frames') > 0 /\ frames'[Len(frames')] = Told(frame', cur')
          BY <4>1, <4>2
        <4>6. QED
          BY <4>3, <4>4, <4>5 DEF CloseInv
      <3>2. CASE ~close_received'
        BY <1>4, <3>2 DEF CloseInv
      <3>3. QED
        BY <3>1, <3>2
    <2>5. Client!Complete
      <3>1. Client!ReportedFrame = r
        BY <2>3 DEF Client!ReportedFrame
      <3>2. ~(ws_errno # "OK" \/ close_received) /\ state \notin {"start", "complete"}
        BY <1>1
      <3>3. Len(cur') = (IF (IF state = "payload" THEN frame.payload_len ELSE -1) = -1 THEN 0
                         ELSE IF state = "payload" THEN frame.payload_len ELSE -1)
        <4>1. frame.payload_len \in Nat
          BY DEF IInv, TypeOK, Frame
        <4>2. QED
          BY <1>2, <4>1
      <3>4. state' \in {"start", "complete"}
        BY <1>4
      <3>5. (ws_errno' # "OK" \/ close_received') = (r.opcode = 8)
        BY <1>2, <1>4, <2>2 DEF CLOSE
      <3>6. r.payload = cur' /\ r.declared = Len(cur') /\ Client!IsPrefix(cur, cur')
        BY <1>2, <2>2
      <3>7. QED
        BY <2>3, <3>1, <3>2, <3>3, <3>4, <3>5, <3>6 DEF Client!Complete, Client!Unknown, Client!CLOSE
    <2>6. QED
      BY <2>4, <2>5 DEF Promises, Client!Next
  <1>5. QED
    BY <1>3, <1>4 DEF HandleFrameComplete, Fail, Told

LEMMA BeginningIsAnnouncing ==
  ASSUME IInv, CloseInv, running, ws_errno = "OK", state \in {"opcode", "len", "key"}, cur = <<>>,
         NEW f \in Frame, BeginPayload(f)
  PROVE  CloseInv' /\ Promises
  <1>1. CASE f.payload_len = 0
    <2>1. HandleFrameComplete(f, cur, 1)
      BY <1>1 DEF BeginPayload
    <2>2. cur \in Seq(Byte) /\ Len(cur) = 0
      BY EmptySeq
    <2>3. Client!IsPrefix(cur, cur)
      BY <2>2, Prefixes
    <2>4. QED
      BY <1>1, <2>1, <2>2, <2>3, CompletingIsComplete
  <1>2. CASE f.payload_len # 0
    <2>1. state' = "payload" /\ frame' = f /\ UNCHANGED <<ws_errno, close_received, cur, frames>>
      BY <1>2 DEF BeginPayload, clientVars
    <2>2. ~close_received
      BY DEF CloseInv
    <2>3. f.payload_len \in Nat \ {0}
      BY <1>2 DEF Frame
    <2>4. CloseInv'
      BY <2>1, <2>2 DEF CloseInv
    <2>5. Client!Announce
      BY <2>1, <2>2, <2>3 DEF Client!Announce, Client!Unknown
    <2>6. QED
      BY <2>4, <2>5 DEF Promises, Client!Next
  <1>3. QED
    BY <1>1, <1>2

\* A step within a header, which the client does not see.
LEMMA HeaderIsSilent ==
  ASSUME CloseInv, state \in {"opcode", "len", "key"}, state' \in {"opcode", "len", "key"},
         UNCHANGED <<ws_errno, close_received, cur, frames>>
  PROVE  CloseInv' /\ Promises
  <1>1. CloseInv'
    BY DEF CloseInv
  <1>2. UNCHANGED Client!vars
    BY DEF Client!vars
  <1>3. QED
    BY <1>1, <1>2 DEF Promises

LEMMA AnnouncingPromises ==
  ASSUME IInv, CloseInv, running, ws_errno = "OK", state \in {"opcode", "len", "key"}, cur = <<>>,
         NEW f \in Frame, f.payload_received = 0, LengthKnown(f)
  PROVE  CloseInv' /\ Promises
  <1>1. CASE f.mask
    <2>1. state' = "key" /\ UNCHANGED <<ws_errno, close_received, cur, frames>>
      BY <1>1 DEF LengthKnown, clientVars
    <2>2. QED
      BY <2>1, HeaderIsSilent
  <1>2. CASE ~f.mask
    <2> DEFINE g == [f EXCEPT !.mask_index = 0, !.masking_key = ZeroKey]
    <2>1. g \in Frame
      BY <1>2, NoMaskFields
    <2>2. BeginPayload(g)
      BY <1>2 DEF LengthKnown
    <2> HIDE DEF g
    <2>3. QED
      BY <2>1, <2>2, BeginningIsAnnouncing
  <1>3. QED
    BY <1>1, <1>2

LEMMA StartPromises ==
  ASSUME IInv, CloseInv, FrameStart
  PROVE  CloseInv' /\ Promises
  <1>1. running /\ data # <<>> /\ state = "start" /\ UNCHANGED <<close_received, frames>>
    BY DEF FrameStart, Parsing
  <1>2. ws_errno = "OK" /\ ~close_received
    BY <1>1, AtByte DEF CloseInv
  <1>3. CASE UNCHANGED <<state, cur>> /\ ws_errno' \in {"INVALID_OPCODE", "UNKNOWN"}
    <2>1. cur \in Seq(Byte)
      BY DEF IInv, TypeOK
    <2>2. Client!IsPrefix(cur, cur)
      BY <2>1, EmptySeq, Prefixes
    <2>3. Client!Refuse
      BY <1>1, <1>2, <1>3, <2>2 DEF Client!Refuse
    <2>4. CloseInv'
      BY <1>1, <1>2, <1>3 DEF CloseInv
    <2>5. QED
      BY <2>3, <2>4 DEF Promises, Client!Next
  <1>4. CASE state' = "opcode" /\ cur' = <<>> /\ UNCHANGED ws_errno
    <2>1. Client!Begin
      BY <1>1, <1>2, <1>4 DEF Client!Begin, Client!Unknown
    <2>2. CloseInv'
      BY <1>1, <1>2, <1>4 DEF CloseInv
    <2>3. QED
      BY <2>1, <2>2 DEF Promises, Client!Next
  <1>5. QED
    BY <1>3, <1>4 DEF FrameStart, Fail

LEMMA OpcodePromises ==
  ASSUME IInv, CloseInv, FrameOpcode
  PROVE  CloseInv' /\ Promises
  <1> DEFINE ch == Head(data)
             f  == [frame EXCEPT !.mask = TopBit(ch)]
             g  == [f EXCEPT !.payload_len = Len7(ch), !.payload_received = 0]
  <1>1. running /\ data # <<>> /\ state = "opcode"
    BY DEF FrameOpcode, Parsing
  <1>2. ws_errno = "OK" /\ ch \in Byte /\ frame \in Frame
    BY <1>1, AtByte
  <1>3. cur = <<>>
    BY <1>1 DEF IInv, FrameInv
  <1>4. CASE Len7(ch) < 126
    <2>1. f \in Frame
      <3>1. TopBit(ch) \in BOOLEAN
        BY DEF TopBit
      <3>2. QED
        BY <1>2, <3>1, SetMask, Zenon
    <2>2. Len7(ch) \in Nat
      BY <1>2 DEF Len7, Byte
    <2>3. g \in Frame /\ g.payload_received = 0
      <3> HIDE DEF f
      <3>1. QED
        BY <2>1, <2>2, LengthFields, Zenon
    <2>4. LengthKnown(g)
      BY <1>4 DEF FrameOpcode
    <2> HIDE DEF f, g, ch
    <2>5. QED
      BY <1>1, <1>2, <1>3, <2>3, <2>4, AnnouncingPromises
  <1>5. CASE ~(Len7(ch) < 126)
    <2>1. state' = "len" /\ UNCHANGED <<ws_errno, close_received, cur, frames>>
      BY <1>5 DEF FrameOpcode, clientVars
    <2>2. QED
      BY <1>1, <2>1, HeaderIsSilent
  <1>6. QED
    BY <1>4, <1>5

LEMMA LengthPromises ==
  ASSUME IInv, CloseInv, FrameLength
  PROVE  CloseInv' /\ Promises
  <1> DEFINE n == Accumulate(frame.payload_len, Head(data))
             f == [frame EXCEPT !.payload_len = n]
             g == [f EXCEPT !.payload_received = 0]
  <1>1. running /\ data # <<>> /\ state = "len"
    BY DEF FrameLength, Parsing
  <1>2. ws_errno = "OK" /\ Head(data) \in Byte /\ frame \in Frame
    BY <1>1, AtByte
  <1>3. cur = <<>>
    BY <1>1 DEF IInv, FrameInv
  <1>4. CASE left = 1
    <2>1. n \in Nat
      <3>1. frame.payload_len \in Nat
        BY <1>2 DEF Frame
      <3>2. QED
        BY <1>2, <3>1, HeaderNumbers, Zenon
    <2>2. f \in Frame
      <3> HIDE DEF n
      <3>1. QED
        BY <1>2, <2>1, SetPayloadLen, Zenon
    <2>3. LengthKnown(g)
      BY <1>4 DEF FrameLength
    <2>4. g \in Frame /\ g.payload_received = 0
      <3> HIDE DEF f
      <3>1. 0 \in Nat
        OBVIOUS
      <3>2. g \in Frame
        BY <2>2, <3>1, SetReceived, Zenon
      <3>3. g.payload_received = 0
        BY <2>2 DEF Frame
      <3>4. QED
        BY <3>2, <3>3
    <2> HIDE DEF f, g, n
    <2>5. QED
      BY <1>1, <1>2, <1>3, <2>3, <2>4, AnnouncingPromises
  <1>5. CASE left # 1
    <2>1. UNCHANGED <<state, ws_errno, close_received, cur, frames>>
      BY <1>5 DEF FrameLength, clientVars
    <2>2. QED
      BY <1>1, <2>1, HeaderIsSilent
  <1>6. QED
    BY <1>4, <1>5

LEMMA MaskKeyPromises ==
  ASSUME IInv, CloseInv, FrameMaskKey
  PROVE  CloseInv' /\ Promises
  <1> DEFINE i == 5 - left
             n == IF left = 4 THEN 0 ELSE frame.mask_index
             f == [frame EXCEPT !.masking_key = [frame.masking_key EXCEPT ![i] = Head(data)], !.mask_index = n]
             g == [f EXCEPT !.payload_received = 0]
  <1>1. running /\ data # <<>> /\ state = "key"
    BY DEF FrameMaskKey, Parsing
  <1>2. ws_errno = "OK" /\ Head(data) \in Byte /\ frame \in Frame
    BY <1>1, AtByte
  <1>3. cur = <<>> /\ n \in 0..3 /\ i \in 1..4
    BY <1>1 DEF IInv, FrameInv
  <1>4. IF left = 1 THEN BeginPayload(g)
                    ELSE UNCHANGED <<state, ws_errno, close_received, cur, frames>>
    BY DEF FrameMaskKey, clientVars
  <1>5. g \in Frame
    <2>1. f \in Frame
      <3> HIDE DEF n, i
      <3>1. QED
        BY <1>2, <1>3, KeyFields, Zenon
    <2> HIDE DEF f
    <2>2. 0 \in Nat
      OBVIOUS
    <2>3. QED
      BY <2>1, <2>2, SetReceived, Zenon
  <1> HIDE DEF f, g, n, i
  <1>6. CASE left = 1
    BY <1>1, <1>2, <1>3, <1>4, <1>5, <1>6, BeginningIsAnnouncing
  <1>7. CASE left # 1
    BY <1>1, <1>4, <1>7, HeaderIsSilent
  <1>8. QED
    BY <1>6, <1>7

LEMMA PayloadPromises ==
  ASSUME IInv, CloseInv, FramePayload
  PROVE  CloseInv' /\ Promises
  <1> DEFINE remaining == frame.payload_len - frame.payload_received
             n == IF remaining < Len(data) THEN remaining ELSE Len(data)
             i == NextMaskIndex(frame, n)
             f == [frame EXCEPT !.payload_received = @ + n, !.mask_index = i]
             sum == frame.payload_received + n
  <1>1. running /\ data # <<>> /\ state = "payload"
    BY DEF FramePayload, Parsing
  <1>2. ws_errno = "OK" /\ 1 \in 0..Len(data) /\ frame \in Frame /\ ~close_received
    BY <1>1, AtByte DEF CloseInv
  <1>3. /\ frame.payload_received \in Nat /\ frame.payload_len \in Nat
        /\ frame.payload_received < frame.payload_len
        /\ frame.mask_index \in 0..3
    BY <1>1, <1>2 DEF IInv, FrameInv, Frame
  <1>4. Len(data) \in Nat /\ Len(data) >= 1
    BY <1>2, LenProperties DEF IInv, TypeOK
  <1>5. n \in 1..Len(data) /\ n <= remaining
    BY <1>3, <1>4
  <1>6. PICK taken \in PayloadTaken(n) :
          LET payload == cur \o Unmask(frame, SubSeq(data, 1, taken))
          IN  IF taken < n
                THEN /\ Fail("UNKNOWN", taken)
                     /\ cur' = payload
                     /\ UNCHANGED <<state, left, frame, close_received, frames>>
                ELSE IF PayloadComplete(f)
                THEN HandleFrameComplete(f, payload, n)
                ELSE /\ Continue(n)
                     /\ frame' = f /\ cur' = payload
                     /\ UNCHANGED <<state, left, ws_errno, close_received, frames>>
    BY DEF FramePayload
  <1> DEFINE payload == cur \o Unmask(frame, SubSeq(data, 1, taken))
  <1>7. taken \in 0..n
    <2> HIDE DEF n
    <2>1. QED
      BY <1>4, <1>5 DEF PayloadTaken
  <1>8. f \in Frame /\ f.payload_received = sum /\ f.payload_len = frame.payload_len
    <2>1. i \in 0..3
      <3> HIDE DEF n
      <3>1. QED
        BY <1>3, <1>4, <1>5, SMTT(60) DEF NextMaskIndex
    <2>2. sum \in Nat
      BY <1>3, <1>5
    <2>3. f = [frame EXCEPT !.payload_received = sum, !.mask_index = i]
      OBVIOUS
    <2> HIDE DEF i, sum, n
    <2>4. f \in Frame
      BY <1>2, <2>1, <2>2, <2>3, PayloadFields, Zenon
    <2>5. f.payload_received = sum /\ f.payload_len = frame.payload_len
      BY <1>2, <2>3 DEF Frame
    <2>6. QED
      BY <2>4, <2>5
  <1>9. /\ payload \in Seq(Byte) /\ Client!IsPrefix(cur, payload)
        /\ Len(payload) = frame.payload_received + taken
    <2>1. cur \in Seq(Byte) /\ data \in Seq(Byte) /\ taken \in 0..Len(data)
      BY <1>4, <1>5, <1>7 DEF IInv, TypeOK
    <2> DEFINE piece == SubSeq(data, 1, taken)
               u == Unmask(frame, piece)
    <2>2. piece \in Seq(Byte) /\ Len(piece) = taken
      BY <2>1, Pieces
    <2>3. u \in Seq(Byte) /\ Len(u) = taken
      <3> HIDE DEF piece
      <3>1. QED
        BY <1>2, <2>2, UnmaskBytes
    <2>4. Len(cur) = frame.payload_received
      BY <1>1, <1>2 DEF IInv, FrameInv
    <2>5. payload = cur \o u
      OBVIOUS
    <2> HIDE DEF u, payload
    <2>6. payload \in Seq(Byte) /\ Len(payload) = Len(cur) + Len(u)
      BY <2>1, <2>3, <2>5, ConcatProperties
    <2>7. Client!IsPrefix(cur, payload)
      BY <2>1, <2>3, <2>5, Prefixes
    <2>8. QED
      BY <2>3, <2>4, <2>6, <2>7
  <1> HIDE DEF f, payload
  <1>10. CASE taken < n
    <2>1. /\ ws_errno' = "UNKNOWN" /\ cur' = payload
          /\ UNCHANGED <<state, close_received, frames>>
      BY <1>6, <1>10 DEF Fail, payload
    <2>2. Client!Refuse
      BY <1>2, <1>9, <2>1 DEF Client!Refuse
    <2>3. CloseInv'
      BY <1>2, <2>1 DEF CloseInv
    <2>4. QED
      BY <2>2, <2>3 DEF Promises, Client!Next
  <1>11. CASE ~(taken < n) /\ PayloadComplete(f)
    <2>1. taken = n
      BY <1>5, <1>7, <1>11
    <2>2. HandleFrameComplete(f, payload, n)
      BY <1>6, <1>11 DEF payload
    <2>3. Len(payload) = f.payload_len
      BY <1>3, <1>5, <1>8, <1>9, <1>11, <2>1 DEF PayloadComplete
    <2> HIDE DEF n
    <2>4. QED
      BY <1>1, <1>2, <1>8, <1>9, <2>2, <2>3, CompletingIsComplete
  <1>12. CASE ~(taken < n) /\ ~PayloadComplete(f)
    <2>1. taken = n
      BY <1>5, <1>7, <1>12
    <2>2. /\ frame' = f /\ cur' = payload
          /\ UNCHANGED <<state, ws_errno, close_received, frames>>
      BY <1>6, <1>12 DEF payload
    <2>3. Len(payload) < frame.payload_len
      BY <1>3, <1>5, <1>8, <1>9, <1>12, <2>1 DEF PayloadComplete
    <2>4. frame'.payload_len = frame.payload_len
      BY <1>8, <2>2
    <2>5. Client!Fill
      BY <1>1, <1>2, <1>3, <1>9, <2>2, <2>3, <2>4 DEF Client!Fill, Client!Unknown
    <2>6. CloseInv'
      BY <1>1, <1>2, <2>2 DEF CloseInv
    <2>7. QED
      BY <2>5, <2>6 DEF Promises, Client!Next
  <1>13. QED
    BY <1>10, <1>11, <1>12

LEMMA ClosePromises ==
  ASSUME IInv, CloseInv, FrameComplete
  PROVE  CloseInv' /\ Promises
  <1>1. running /\ data # <<>> /\ state = "complete" /\ HandleFrameComplete(frame, cur, 0)
    BY DEF FrameComplete, Parsing
  <1>2. ws_errno = "OK"
    BY <1>1, AtByte
  <1>3. /\ close_received /\ frame.opcode = CLOSE
        /\ Len(frames) > 0 /\ frames[Len(frames)] = Told(frame, cur)
    BY <1>1, <1>2 DEF CloseInv
  <1>4. cur' = cur /\ close_received' = TRUE
    BY <1>1, <1>3 DEF HandleFrameComplete
  <1>5. CASE ws_errno' = "UNKNOWN" /\ state' = "complete" /\ UNCHANGED frames
    <2>1. CloseInv'
      BY <1>5 DEF CloseInv
    <2>2. UNCHANGED Client!vars
      BY <1>1, <1>2, <1>3, <1>4, <1>5 DEF Client!vars
    <2>3. QED
      BY <2>1, <2>2 DEF Promises
  <1>6. CASE /\ frames' = Append(frames, Told(frame, cur)) /\ UNCHANGED ws_errno
             /\ state' = "complete" /\ frame' = frame
    <2>1. PICK r : r = Told(frame, cur)
      OBVIOUS
    <2>2. r \in Delivered /\ r.opcode = CLOSE /\ frames \in Seq(Delivered)
      <3>1. frame \in Frame /\ cur \in Seq(Byte) /\ frames \in Seq(Delivered)
        BY DEF IInv, TypeOK
      <3>2. QED
        BY <1>3, <2>1, <3>1 DEF Told, Delivered, Frame
    <2>3. /\ Len(frames) \in Nat /\ Len(frames') = Len(frames) + 1
          /\ frames'[Len(frames) + 1] = r /\ frames' = Append(frames, r)
      BY <1>6, <2>1, <2>2, AppendProperties, LenProperties
    <2>4. Client!Last(frames) = r /\ frames # <<>>
      BY <1>3, <2>1, EmptySeq DEF Client!Last
    <2>5. Client!RepeatClose
      BY <1>1, <1>2, <1>3, <1>4, <1>6, <2>2, <2>3, <2>4
         DEF Client!RepeatClose, Client!CLOSE, CLOSE
    <2>6. CloseInv'
      <3>1. frames'[Len(frames')] = Told(frame', cur') /\ Len(frames') > 0
        BY <1>4, <1>6, <2>1, <2>3
      <3>2. QED
        BY <1>3, <1>4, <1>6, <3>1 DEF CloseInv
    <2>7. QED
      BY <2>5, <2>6 DEF Promises, Client!Next
  <1>7. QED
    BY <1>1, <1>3, <1>4, <1>5, <1>6 DEF HandleFrameComplete, Fail, Told

\* What the client hears is what FrameStream allows, for every stream, every cut of
\* it into calls and every choice of callbacks that refuse.
THEOREM CallbacksKeepTheirPromise == Spec => Client!Spec
  <1>1. Init => Client!Init /\ CloseInv
    BY DEF Init, Client!Init, Client!Unknown, CloseInv
  <1>2. IInv /\ CloseInv /\ [Next]_vars => CloseInv' /\ [Client!Next]_(Client!vars)
    <2> SUFFICES ASSUME IInv, CloseInv, [Next]_vars
                 PROVE  CloseInv' /\ Promises
      BY DEF Promises
    <2>1. CASE UNCHANGED <<state, frame, ws_errno, close_received, cur, frames>>
      BY <2>1 DEF CloseInv, Promises, Client!vars
    <2>2. ASSUME NEW n \in 1..Len(wire), Execute(n) PROVE CloseInv' /\ Promises
      BY <2>1, <2>2 DEF Execute, parserVars, clientVars
    <2>3. CASE Step
      <3>1. CASE EndOfData
        BY <2>1, <3>1 DEF EndOfData, parserVars, clientVars
      <3>2. QED
        BY <2>3, <3>1, StartPromises, OpcodePromises, LengthPromises, MaskKeyPromises,
           PayloadPromises, ClosePromises DEF Step
    <2>4. CASE InitParser
      <3>1. CloseInv'
        BY <2>4 DEF InitParser, CloseInv
      <3>2. Client!Reconnect
        BY <2>4 DEF InitParser, Client!Reconnect, Client!Init, Client!Unknown
      <3>3. QED
        BY <3>1, <3>2 DEF Promises, Client!Next
    <2>5. CASE UNCHANGED vars
      BY <2>1, <2>5 DEF vars, parserVars, clientVars
    <2>6. QED
      BY <2>2, <2>3, <2>4, <2>5 DEF Next
  <1>3. QED
    BY <1>1, <1>2, Invariant, PTL DEF Spec, Client!Spec

=============================================================================
