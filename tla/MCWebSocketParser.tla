-------------------------- MODULE MCWebSocketParser --------------------------
(***************************************************************************)
(* WebSocketParser over every stream of up to three bytes of a small       *)
(* alphabet, and over pairs of well-formed frames of each length form,     *)
(* masked and not, each cut into calls in every way.                       *)
(***************************************************************************)
EXTENDS WebSocketParser, SequencesExt, Bitwise

MCXor(a, b) == a ^^ b

G == INSTANCE WebSocketGrammar WITH XorByte <- MCXor

\* FIN+text, text fragment, FIN+close, FIN+ping, a reserved opcode, and header bytes.
Alphabet == {129, 2, 136, 137, 131, 0, 1, 128}

Short == UNION {[1..n -> Alphabet] : n \in 1..3}

Key == <<1, 2, 4, 8>>
Length(form, n) ==
  CASE form = 0 -> <<>> [] form = 126 -> <<0, n>> [] form = 127 -> <<0, 0, 0, 0, 0, 0, 0, n>>

\* A frame of n payload bytes whose length is written in the given form.
WireFrame(first, masked, form, n) ==
  <<first, (IF masked THEN 128 ELSE 0) + (IF form = 0 THEN n ELSE form)>>
    \o Length(form, n) \o (IF masked THEN Key ELSE <<>>) \o [i \in 1..n |-> 16 * i]

Frames ==
  {WireFrame(first, m, 0, n) : first \in {129, 2, 136}, m \in BOOLEAN, n \in {0, 1, 6}}
    \cup {WireFrame(129, m, form, n) : m \in BOOLEAN, form \in {126, 127}, n \in {0, 2}}

\* The streams of a connection that reuses the parser.
MCFewWires ==
  {WireFrame(129, TRUE, 0, 6) \o WireFrame(136, FALSE, 0, 1) \o WireFrame(129, FALSE, 0, 0),
   WireFrame(2, FALSE, 0, 2) \o WireFrame(137, TRUE, 0, 0) \o WireFrame(129, FALSE, 126, 2),
   WireFrame(129, TRUE, 127, 5) \o <<131, 0>>,
   WireFrame(136, TRUE, 0, 2) \o WireFrame(129, FALSE, 0, 1)}

MCWires == Short \cup {f \o g : f \in Frames, g \in Frames} \cup MCFewWires

\* The client's record up to and with the first CLOSE frame.
UpToClose(fs) ==
  LET closes == {i \in 1..Len(fs) : fs[i].opcode = CLOSE}
  IN  IF closes = {} THEN fs ELSE SubSeq(fs, 1, CHOOSE i \in closes : \A j \in closes : i <= j)

\* The client has been told exactly the frames of the bytes parsed so far, and
\* holds the payload of the frame in progress, however the stream was cut into
\* calls; a refused on_frame_complete loses the frame it refused and no other.
ReportsTheStream ==
  LET whole == G!Decode(seen)
  IN  /\ \/ UpToClose(frames) = whole.frames
         \/ ws_errno = "UNKNOWN" /\ state = "complete" /\ frames = Front(whole.frames)
      /\ state \notin {"start", "complete"} => cur = whole.partial

=============================================================================
