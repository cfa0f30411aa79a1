----------------------------- MODULE FrameStream -----------------------------
(***************************************************************************)
(* What the three callbacks of a WebSocket parser promise to the client,   *)
(* with no header, key or call in sight: a frame is begun, its payload is  *)
(* announced and arrives in order, and it is reported complete when it is  *)
(* all there.  Nothing follows a refusal; a CLOSE frame ends the stream,   *)
(* and may only be reported again.                                         *)
(***************************************************************************)
EXTENDS Integers, Sequences, SequencesExt

VARIABLES
  open,     \* a frame has been begun and is not complete
  due,      \* the payload announced for it, or Unknown
  halted,   \* no frame follows
  cur,      \* the payload received of the frame begun last
  frames    \* the frames reported complete

vars == <<open, due, halted, cur, frames>>

Unknown == -1
CLOSE   == 8

\* The frame reported last when the step has reported one.
ReportedFrame == frames'[Len(frames) + 1]

Init == ~open /\ due = Unknown /\ ~halted /\ cur = <<>> /\ frames = <<>>

Begin ==
  /\ ~halted /\ ~open
  /\ open' = TRUE /\ due' = Unknown /\ cur' = <<>>
  /\ UNCHANGED <<halted, frames>>

Announce ==
  /\ ~halted /\ open /\ due = Unknown /\ cur = <<>>
  /\ due' \in Nat \ {0}
  /\ UNCHANGED <<open, halted, cur, frames>>

Fill ==
  /\ ~halted /\ open /\ due # Unknown
  /\ IsPrefix(cur, cur') /\ Len(cur') < due
  /\ UNCHANGED <<open, due, halted, frames>>

Complete ==
  /\ ~halted /\ open
  /\ IsPrefix(cur, cur') /\ Len(cur') = (IF due = Unknown THEN 0 ELSE due)
  /\ Len(frames') = Len(frames) + 1
  /\ frames' = Append(frames, ReportedFrame)
  /\ ReportedFrame.payload = cur' /\ ReportedFrame.declared = Len(cur')
  /\ open' = FALSE /\ due' = Unknown
  /\ halted' = (ReportedFrame.opcode = CLOSE)

Refuse ==
  /\ ~halted /\ halted' = TRUE
  /\ IsPrefix(cur, cur')
  /\ UNCHANGED frames

RepeatClose ==
  /\ halted /\ frames # <<>> /\ Last(frames).opcode = CLOSE
  /\ frames' = Append(frames, Last(frames))
  /\ UNCHANGED <<open, due, halted, cur>>

Reconnect == Init'

Next == Begin \/ Announce \/ Fill \/ Complete \/ Refuse \/ RepeatClose \/ Reconnect

Spec == Init /\ [][Next]_vars
=============================================================================
