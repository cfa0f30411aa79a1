------------------------------- MODULE Channel -------------------------------
(***************************************************************************)
(* What an HDLC link is for: the payloads sent arrive, each once, whole    *)
(* and in order.                                                           *)
(***************************************************************************)
EXTENDS Integers, Sequences

CONSTANT Payload
VARIABLES sent, received

Init == sent = <<>> /\ received = <<>>

Send(d) == sent' = Append(sent, d) /\ UNCHANGED received

Receive ==
  /\ Len(received) < Len(sent)
  /\ received' = Append(received, sent[Len(received) + 1])
  /\ UNCHANGED sent

Next == Receive \/ \E d \in Payload : Send(d)

\* What was sent is received in the end.
Spec == Init /\ [][Next]_<<sent, received>> /\ WF_<<sent, received>>(Receive)
=============================================================================
