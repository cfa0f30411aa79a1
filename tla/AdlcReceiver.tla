----------------------------- MODULE AdlcReceiver -----------------------------
(***************************************************************************)
(* ez_adlc.c: adlc_ondata cuts a line of bytes into packets.  A packet     *)
(* begins with FLAG and has no length of its own: it ends before the next  *)
(* FLAG, at MaxPacketLen bytes, or where the callback says so.  At the end *)
(* of a call the callback is asked whether what there is of the last       *)
(* packet is all of it; if it says no, the packet is offered again when    *)
(* more bytes have come.                                                   *)
(*                                                                         *)
(* One action handles one byte, so that every callback is a step.  The     *)
(* callback is the application's and may answer anything; it is given, not *)
(* NULL.  heard and told record the line and the callbacks.                *)
(***************************************************************************)
EXTENDS Integers, Sequences

CONSTANTS
  FLAG,         \* headFlag
  MaxPacketLen, \* iMaxPacketLen
  Byte,         \* the bytes of the line
  Chunks,       \* the pieces of the line a caller may hand over
  MaxHeard      \* the line is followed for so many bytes

\* adlc_create refuses a shorter MaxPacketLen.
ASSUME AdlcAssumption ==
  /\ FLAG \in Byte
  /\ MaxPacketLen \in Nat /\ MaxPacketLen >= 2 /\ MaxHeard \in Nat
  /\ Chunks \subseteq Seq(Byte) \ {<<>>}

VARIABLES
  rxBuf,   \* rxBuf[0 .. rxBufLen - 1]: what waits for the next call
  execBuf, \* execBuf[0 .. execBufLen - 1]: the packet under way
  todo,    \* the bytes of the call not looked at yet
  calling, \* adlc_ondata is running
  heard,   \* every byte handed over
  told     \* the callbacks: place in heard, bytes, asked at the end of a call, taken

vars == <<rxBuf, execBuf, todo, calling, heard, told>>

\* The callback gets execBuf; the last call of it asks whether that is all.
Notify(asked, taken) ==
  told' = Append(told, [at |-> Len(heard) - Len(todo) - Len(execBuf) + 1,
                        packet |-> execBuf, asked |-> asked, taken |-> taken])

Headed == execBuf # <<>> /\ execBuf[1] = FLAG

\* Mutant of OnData: what waited is forgotten.
OnDataAfresh(chunk) ==
  /\ ~calling
  /\ calling' = TRUE /\ todo' = chunk /\ heard' = heard \o chunk
  /\ execBuf' = <<>> /\ rxBuf' = <<>>
  /\ UNCHANGED told

\* A call begins: what waited comes first.
OnData(chunk) ==
  /\ ~calling
  /\ calling' = TRUE /\ todo' = chunk /\ heard' = heard \o chunk
  /\ execBuf' = IF rxBuf # <<>> THEN rxBuf ELSE execBuf
  /\ rxBuf' = <<>>
  /\ UNCHANGED told

AtByte == calling /\ todo # <<>>
NextByte == todo' = Tail(todo) /\ UNCHANGED <<rxBuf, calling, heard>>

\* A byte before any FLAG is dropped.
Garbage ==
  /\ AtByte /\ Head(todo) # FLAG /\ ~Headed
  /\ NextByte /\ UNCHANGED <<execBuf, told>>

\* A byte of the packet under way.
Collect ==
  /\ AtByte /\ Head(todo) # FLAG /\ Headed
  /\ Len(execBuf) + 1 < MaxPacketLen
  /\ execBuf' = Append(execBuf, Head(todo))
  /\ NextByte /\ UNCHANGED told

\* The packet under way has reached MaxPacketLen: it is released whatever the
\* callback answers.
Release ==
  /\ AtByte /\ Head(todo) # FLAG /\ Headed
  /\ Len(execBuf) + 1 >= MaxPacketLen
  /\ \E taken \in BOOLEAN :
       told' = Append(told, [at |-> Len(heard) - Len(todo) - Len(execBuf) + 1,
                             packet |-> Append(execBuf, Head(todo)),
                             asked |-> FALSE, taken |-> taken])
  /\ execBuf' = <<>>
  /\ NextByte

\* Mutant of HeadFlag: the packet before it is not handed over.
HeadFlagSilent ==
  /\ AtByte /\ Head(todo) = FLAG
  /\ execBuf' = <<FLAG>>
  /\ NextByte /\ UNCHANGED told

\* A FLAG ends the packet under way, if any, and begins the next.
HeadFlag ==
  /\ AtByte /\ Head(todo) = FLAG
  /\ IF execBuf # <<>> THEN \E taken \in BOOLEAN : Notify(FALSE, taken) ELSE UNCHANGED told
  /\ execBuf' = <<FLAG>>
  /\ NextByte

AtEnd == calling /\ todo = <<>>

\* The call ends with no packet under way.
ReturnEmpty ==
  /\ AtEnd /\ ~Headed
  /\ execBuf' = <<>> /\ calling' = FALSE
  /\ UNCHANGED <<rxBuf, todo, heard, told>>

\* Mutant of Ask: a packet that was taken waits as well.
AskAndKeep ==
  /\ AtEnd /\ Headed
  /\ \E taken \in BOOLEAN : Notify(TRUE, taken)
  /\ rxBuf' = execBuf
  /\ calling' = FALSE
  /\ UNCHANGED <<execBuf, todo, heard>>

\* The call ends inside a packet: the callback takes it or has it wait.
Ask ==
  /\ AtEnd /\ Headed
  /\ \E taken \in BOOLEAN :
       /\ Notify(TRUE, taken)
       /\ IF taken THEN execBuf' = <<>> /\ UNCHANGED rxBuf
                   ELSE rxBuf' = execBuf /\ UNCHANGED execBuf
  /\ calling' = FALSE
  /\ UNCHANGED <<todo, heard>>

Init ==
  /\ rxBuf = <<>> /\ execBuf = <<>> /\ todo = <<>> /\ calling = FALSE
  /\ heard = <<>> /\ told = <<>>

Run == Garbage \/ Collect \/ Release \/ HeadFlag \/ ReturnEmpty \/ Ask

Next ==
  \/ \E chunk \in Chunks : Len(heard) + Len(chunk) <= MaxHeard /\ OnData(chunk)
  \/ Run

\* The loop of a call runs until it returns.
Spec     == Init /\ [][Next]_vars
FairSpec == Spec /\ WF_vars(Run)
-----------------------------------------------------------------------------
(***************************************************************************)
(* What a packet is, said of the line alone.                               *)
(***************************************************************************)
Scanned == Len(heard) - Len(todo)

\* The packet that begins with the FLAG at p ends at q at the latest.
EndsBy(p, q) == \/ q = p + MaxPacketLen - 1
                \/ q < Scanned /\ heard[q + 1] = FLAG

\* line[p .. q] begins with a FLAG, the only one, and is not too long.
IsRun(p, q) ==
  /\ heard[p] = FLAG /\ q < p + MaxPacketLen
  /\ \A r \in (p + 1)..q : heard[r] # FLAG

Last(k) == told[k].at + Len(told[k].packet) - 1

\* The buffers stay inside their allocation: a byte can always be added to
\* execBuf, and rxBuf holds what is copied to it (ez_adlc.c:93, 136).
TypeOK ==
  /\ rxBuf \in Seq(Byte) /\ Len(rxBuf) < MaxPacketLen
  /\ execBuf \in Seq(Byte) /\ Len(execBuf) < MaxPacketLen
  /\ todo \in Seq(Byte) /\ heard \in Seq(Byte) /\ calling \in BOOLEAN
  /\ told \in Seq([at : Nat \ {0}, packet : Seq(Byte), asked : BOOLEAN, taken : BOOLEAN])

\* Every callback is given a run of the line as it came, in the order of the line:
\* nothing is skipped, mixed or repeated inside a packet, however it was cut, and a
\* packet is offered again only if the callback had it wait.
ToldRuns ==
  \A k \in 1..Len(told) :
    /\ Last(k) <= Scanned /\ IsRun(told[k].at, Last(k))
    /\ \A j \in 1..Len(told[k].packet) : told[k].packet[j] = heard[told[k].at + j - 1]
    /\ \A l \in 1..k - 1 :
         \/ told[l].at < told[k].at
         \/ told[l].at = told[k].at /\ told[l].asked /\ ~told[l].taken

\* Every packet the scan is past was handed over whole, unless the callback took a
\* beginning of it: garbage, a full buffer or the end of a call never costs one.
NoPacketLost ==
  \A p \in 1..Scanned : \A q \in p..Scanned :
    IsRun(p, q) /\ EndsBy(p, q) =>
      \E k \in 1..Len(told) :
        told[k].at = p /\ (Last(k) = q \/ (told[k].asked /\ told[k].taken))

\* Every call returns, and between calls whatever the line has brought has been offered
\* to the callback.
OfferedInTime ==
  /\ [](~calling => \A p \in 1..Scanned :
          heard[p] = FLAG => \E k \in 1..Len(told) : told[k].at = p)
  /\ calling ~> ~calling
=============================================================================
