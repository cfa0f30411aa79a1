--------------------------- MODULE WebSocketParser ---------------------------
(***************************************************************************)
(* The streaming WebSocket frame parser of ez_websocket_parser.c.          *)
(*                                                                         *)
(* A caller hands the bytes of a connection to the parser in pieces of any *)
(* size (ez_websocket_parser_execute); the parser keeps its place between  *)
(* calls and reports frames through three callbacks, each of which may     *)
(* refuse (return non-zero).  One action is one iteration of the loop over *)
(* the switch on parser->state, so a call is a run of steps from Execute   *)
(* to the step that returns.  The eight states that read a length and the  *)
(* four that read a masking key are one state each with a count of the     *)
(* bytes left.                                                             *)
(*                                                                         *)
(* The client is the simplest one there is: on_frame_payload appends to    *)
(* cur, on_frame_complete moves cur to frames.                             *)
(***************************************************************************)
EXTENDS Integers, Sequences

CONSTANTS
  Wires,      \* the byte streams a peer may send over one connection
  NextWires,  \* those a later connection that reuses the parser may bring
  XorByte(_, _),  \* exclusive or of two bytes
  TempBuf,    \* sizeof(temp_buf): masked payload is delivered in such pieces
  LenCap,     \* lengths are counted up to this bound, above any stream's length
  CanFail,    \* the callbacks that may return non-zero
  MaxFrames   \* the caller makes no further call once this many are delivered

Byte == 0..255

ASSUME WiresAssumption   == Wires \subseteq Seq(Byte) /\ NextWires \subseteq Wires
ASSUME TempBufAssumption == TempBuf \in Nat \ {0}
ASSUME LenCapAssumption  == LenCap \in Nat
ASSUME MaxFramesAssumption == MaxFrames \in Nat
ASSUME XorAssumption     == \A a, b \in Byte : XorByte(a, b) \in Byte

VARIABLES
  \* struct ez_websocket_parser
  state, left,     \* parser->state and the length or key bytes it still wants
  frame,           \* the fields that describe the frame in progress
  ws_errno, close_received,
  \* the call of ez_websocket_parser_execute in progress
  running, data,   \* data is what lies between p and end
  \* the caller: the stream not yet handed over, and the part parsed
  wire, seen,
  \* the client behind the callbacks
  cur, frames

parserVars == <<state, left, frame, ws_errno, close_received>>
callVars   == <<running, data, wire, seen>>
clientVars == <<cur, frames>>
vars       == <<parserVars, callVars, clientVars>>

CLOSE == 8
ZeroKey == <<0, 0, 0, 0>>
\* Between frames only the masking key of the last one is left.
FreshFrame(key) ==
  [fin |-> FALSE, opcode |-> 0, mask |-> FALSE, payload_len |-> 0,
   payload_received |-> 0, mask_index |-> 0, masking_key |-> key]
NoFrame == FreshFrame(ZeroKey)

(***************************************************************************)
(* What a byte of the header says.                                         *)
(***************************************************************************)
TopBit(ch)        == ch >= 128
Len7(ch)          == ch % 128
OpcodeOf(ch)      == ch % 16
ValidOpcode(op)   == op \in 0..2 \cup 8..10

\* Mutant of Accumulate: the bytes of a length taken least significant first.
AccumulateLittleEndian(len, ch) ==
  IF len + 256 * ch < LenCap THEN len + 256 * ch ELSE LenCap

\* (len << 8) | ch, counted up to LenCap.
Accumulate(len, ch) ==
  IF len * 256 + ch < LenCap THEN len * 256 + ch ELSE LenCap

\* apply_mask over a piece of payload, which the parser undoes from mask_index.
Unmask(f, bytes) ==
  [i \in 1..Len(bytes) |->
     IF f.mask THEN XorByte(bytes[i], f.masking_key[((f.mask_index + i - 1) % 4) + 1])
               ELSE bytes[i]]

\* Mutants of NextMaskIndex: without the modulus, and without the advance.
NextMaskIndexUnbounded(f, n) == f.mask_index + n
NextMaskIndexStuck(f, n)     == f.mask_index

\* mask_index after n bytes of payload.
NextMaskIndex(f, n) == IF f.mask THEN (f.mask_index + n) % 4 ELSE f.mask_index

\* Mutant of PayloadComplete: one byte early.
PayloadCompleteEarly(f) == f.payload_received + 1 >= f.payload_len

\* The frame has all the payload it announced.
PayloadComplete(f) == f.payload_received >= f.payload_len

(***************************************************************************)
(* How a step leaves the call: it goes on with the next byte, or returns   *)
(* p - data and the caller keeps the bytes from p on.                      *)
(***************************************************************************)
Rest(n) == SubSeq(data, n + 1, Len(data))

Continue(n) ==
  /\ seen' = seen \o SubSeq(data, 1, n)
  /\ data' = Rest(n)
  /\ UNCHANGED <<running, wire>>

Return(n) ==
  /\ seen' = seen \o SubSeq(data, 1, n)
  /\ wire' = Rest(n) \o wire
  /\ data' = <<>>
  /\ running' = FALSE

Fail(e, n) == ws_errno' = e /\ Return(n)

\* A callback that may be refused.
Refused(cb) == cb \in CanFail

(***************************************************************************)
(* handle_frame_complete, for the frame f whose payload the client holds,  *)
(* after n more bytes.  A CLOSE frame returns without the reset.           *)
(***************************************************************************)
HandleFrameComplete(f, payload, n) ==
  /\ cur' = payload
  /\ left' = 0
  /\ close_received' = (close_received \/ f.opcode = CLOSE)
  /\ \/ /\ Refused("complete")
        /\ Fail("UNKNOWN", n)
        /\ state' = "complete" /\ frame' = f
        /\ UNCHANGED frames
     \/ /\ frames' = Append(frames, [fin |-> f.fin, opcode |-> f.opcode,
                                     declared |-> f.payload_len, payload |-> payload])
        /\ UNCHANGED ws_errno
        /\ IF close_received'
             THEN state' = "complete" /\ frame' = f /\ Return(n)
             ELSE /\ state' = "start"
                  /\ frame' = FreshFrame(f.masking_key)
                  /\ Continue(n)

\* The header is complete after the byte at p: payload follows unless it is empty.
BeginPayload(f) ==
  IF f.payload_len = 0
    THEN HandleFrameComplete(f, cur, 1)
    ELSE /\ state' = "payload" /\ left' = 0 /\ frame' = f
         /\ Continue(1)
         /\ UNCHANGED <<ws_errno, close_received, clientVars>>

\* The length is complete after the byte at p: a masking key follows or the payload.
LengthKnown(f) ==
  IF f.mask
    THEN /\ state' = "key" /\ left' = 4 /\ frame' = f
         /\ Continue(1)
         /\ UNCHANGED <<ws_errno, close_received, clientVars>>
    ELSE BeginPayload([f EXCEPT !.mask_index = 0, !.masking_key = ZeroKey])

-----------------------------------------------------------------------------
(***************************************************************************)
(* The steps of a call.                                                    *)
(***************************************************************************)
Parsing(s) == running /\ data # <<>> /\ state = s

\* Mutant of Accepting: a parser in error parses on.
AcceptingAlways == TRUE

\* A parser in error stays so.
Accepting == ws_errno = "OK"

\* ez_websocket_parser_execute on the next n bytes; in error it takes nothing.
Execute(n) ==
  /\ ~running
  /\ Accepting
  /\ Len(frames) < MaxFrames
  /\ running' = TRUE
  /\ data' = SubSeq(wire, 1, n)
  /\ wire' = SubSeq(wire, n + 1, Len(wire))
  /\ UNCHANGED <<parserVars, seen, clientVars>>

\* First byte of a frame: FIN and opcode.
FrameStart ==
  /\ Parsing("start")
  /\ LET ch == Head(data)
         f  == [frame EXCEPT !.fin = TopBit(ch), !.opcode = OpcodeOf(ch)]
     IN  /\ frame' = f
         /\ \/ /\ ~ValidOpcode(f.opcode)
               /\ Fail("INVALID_OPCODE", 0)
               /\ UNCHANGED <<state, cur>>
            \/ /\ ValidOpcode(f.opcode) /\ Refused("begin")
               /\ Fail("UNKNOWN", 0)
               /\ UNCHANGED <<state, cur>>
            \/ /\ ValidOpcode(f.opcode)
               /\ state' = "opcode" /\ cur' = <<>>
               /\ Continue(1)
               /\ UNCHANGED ws_errno
  /\ UNCHANGED <<left, close_received, frames>>

\* Second byte: MASK and the 7-bit length, or the announcement of a longer one.
FrameOpcode ==
  /\ Parsing("opcode")
  /\ LET ch == Head(data)
         f  == [frame EXCEPT !.mask = TopBit(ch)]
     IN  IF Len7(ch) < 126
           THEN LengthKnown([f EXCEPT !.payload_len = Len7(ch), !.payload_received = 0])
           ELSE /\ state' = "len"
                /\ left' = (IF Len7(ch) = 126 THEN 2 ELSE 8)
                /\ frame' = [f EXCEPT !.payload_len = 0]
                /\ Continue(1)
                /\ UNCHANGED <<ws_errno, close_received, clientVars>>

\* A byte of a 16-bit or 64-bit length, most significant first.
FrameLength ==
  /\ Parsing("len")
  /\ LET f == [frame EXCEPT !.payload_len = Accumulate(@, Head(data))]
     IN  IF left = 1
           THEN LengthKnown([f EXCEPT !.payload_received = 0])
           ELSE /\ left' = left - 1 /\ frame' = f
                /\ Continue(1)
                /\ UNCHANGED <<state, ws_errno, close_received, clientVars>>

\* A byte of the masking key.
FrameMaskKey ==
  /\ Parsing("key")
  /\ LET f == [frame EXCEPT !.masking_key = [@ EXCEPT ![5 - left] = Head(data)],
                            !.mask_index = IF left = 4 THEN 0 ELSE @]
     IN  IF left = 1
           THEN BeginPayload([f EXCEPT !.payload_received = 0])
           ELSE /\ left' = left - 1 /\ frame' = f
                /\ Continue(1)
                /\ UNCHANGED <<state, ws_errno, close_received, clientVars>>

\* How many of n payload bytes the client takes before it refuses, or all of them.
PayloadTaken(n) ==
  {n} \cup IF ~Refused("payload") THEN {}
           ELSE IF frame.mask THEN {k \in 0..n-1 : k % TempBuf = 0} ELSE {0}

\* Payload: as much of the frame as the call brings.
FramePayload ==
  /\ Parsing("payload")
  /\ LET remaining == frame.payload_len - frame.payload_received
         n == IF remaining < Len(data) THEN remaining ELSE Len(data)
     IN  \E taken \in PayloadTaken(n) :
           LET payload == cur \o Unmask(frame, SubSeq(data, 1, taken))
               f == [frame EXCEPT !.payload_received = @ + n,
                                  !.mask_index = NextMaskIndex(frame, n)]
           IN  IF taken < n
                 THEN /\ Fail("UNKNOWN", taken)
                      /\ cur' = payload
                      /\ UNCHANGED <<state, left, frame, close_received, frames>>
                 ELSE IF PayloadComplete(f)
                 THEN HandleFrameComplete(f, payload, n)
                 ELSE /\ Continue(n)
                      /\ frame' = f /\ cur' = payload
                      /\ UNCHANGED <<state, left, ws_errno, close_received, frames>>

\* The state a CLOSE frame stays in: any byte that follows notifies it once more.
FrameComplete ==
  /\ Parsing("complete")
  /\ HandleFrameComplete(frame, cur, 0)

\* The loop has run out of bytes.
EndOfData ==
  /\ running /\ data = <<>>
  /\ Return(0)
  /\ UNCHANGED <<parserVars, clientVars>>

\* A new connection reuses the parser: ez_websocket_parser_init.
InitParser ==
  /\ ~running
  /\ wire' \in NextWires /\ seen' = <<>> /\ data' = <<>>
  /\ state' = "start" /\ left' = 0 /\ frame' = NoFrame
  /\ ws_errno' = "OK" /\ close_received' = FALSE
  /\ cur' = <<>> /\ frames' = <<>>
  /\ UNCHANGED running

Init ==
  /\ wire \in Wires /\ seen = <<>> /\ data = <<>>
  /\ state = "start" /\ left = 0 /\ frame = NoFrame
  /\ ws_errno = "OK" /\ close_received = FALSE
  /\ cur = <<>> /\ frames = <<>>
  /\ running = FALSE

Step ==
  \/ FrameStart   \/ FrameOpcode  \/ FrameLength   \/ FrameMaskKey
  \/ FramePayload \/ FrameComplete \/ EndOfData

Next ==
  \/ \E n \in 1..Len(wire) : Execute(n)
  \/ Step
  \/ InitParser

\* A call, once made, runs: nothing but the parser's own loop can stop it.
Fairness == WF_vars(Step)

Spec     == Init /\ [][Next]_vars
FairSpec == Spec /\ Fairness
-----------------------------------------------------------------------------
Frame == [fin : BOOLEAN, opcode : 0..15, mask : BOOLEAN, payload_len : Nat,
          payload_received : Nat, mask_index : 0..3, masking_key : [1..4 -> Byte]]

Delivered == [fin : BOOLEAN, opcode : 0..15, declared : Nat, payload : Seq(Byte)]

\* Every field keeps to its range; mask_index is an index into masking_key.
TypeOK ==
  /\ state \in {"start", "opcode", "len", "key", "payload", "complete"}
  /\ left \in 0..8
  /\ frame \in Frame
  /\ ws_errno \in {"OK", "INVALID_OPCODE", "UNKNOWN"}
  /\ close_received \in BOOLEAN /\ running \in BOOLEAN
  /\ data \in Seq(Byte) /\ wire \in Seq(Byte) /\ seen \in Seq(Byte)
  /\ cur \in Seq(Byte)
  /\ frames \in Seq(Delivered)

\* Where the parser is in a frame, as every step needs it: the bytes a header
\* still wants, the payload the client holds, the phase of the key; and a parser
\* in error is in no call.
FrameInv ==
  /\ ws_errno # "OK" => ~running
  /\ state = "len" => left \in 1..8
  /\ state = "key" => left \in 1..4 /\ (left < 4 => frame.mask_index = 0)
  /\ state \in {"opcode", "len", "key"} => cur = <<>>
  /\ state = "payload" =>
       /\ frame.payload_received < frame.payload_len
       /\ Len(cur) <= Len(seen)
       /\ ws_errno = "OK" => /\ Len(cur) = frame.payload_received
                             /\ frame.mask => frame.mask_index = frame.payload_received % 4
  /\ state = "complete" /\ ws_errno = "OK" => Len(cur) = frame.payload_len

\* However the stream was cut into calls, a frame is reported complete exactly
\* when the client has been given as many payload bytes as its header declared.
FramesExact ==
  \A i \in 1..Len(frames) : Len(frames[i].payload) = frames[i].declared

\* The bytes given to the client are those of the stream, unmasked with the key
\* in the phase that counts from the first byte of the payload, not from the
\* first byte of a call (ez_websocket_parser.c:374, 396).
UnmaskedInPhase ==
  state = "payload" =>
    \A j \in 1..Len(cur) :
      LET raw == seen[Len(seen) - Len(cur) + j]
      IN  cur[j] = IF frame.mask THEN XorByte(raw, frame.masking_key[((j - 1) % 4) + 1])
                                 ELSE raw

\* "If a close frame was received, stop parsing" (ez_websocket_parser.c:92): once
\* a CLOSE frame was notified the client hears nothing more.
SilentAfterClose ==
  [][close_received => UNCHANGED clientVars \/ InitParser]_vars

(***************************************************************************)
(* The callbacks seen from the client: a begun frame is open, the length   *)
(* counts as announced once payload is awaited, and the stream is over     *)
(* after an error or a CLOSE frame.                                        *)
(***************************************************************************)
Client == INSTANCE FrameStream WITH
  open   <- state \notin {"start", "complete"},
  due    <- IF state = "payload" THEN frame.payload_len ELSE -1,
  halted <- ws_errno # "OK" \/ close_received

\* The parser keeps the promise of its callbacks (ez_websocket_parser.h, struct
\* ez_websocket_parser_settings), whatever they refuse and however calls cut frames; and
\* every call returns, with no state that takes no byte for ever.
KeepsPromise == Client!Spec /\ (running ~> ~running)
=============================================================================
