-------------------------- MODULE AdlcReceiverProofs --------------------------
(***************************************************************************)
(* Proofs about the ADLC receiver, for any head flag, any length of        *)
(* packets, any cutting of the line and any answers of the callback.       *)
(***************************************************************************)
EXTENDS AdlcReceiver, TLAPS, SequenceTheorems

-----------------------------------------------------------------------------
(***************************************************************************)
(* The inductive invariant.                                                *)
(***************************************************************************)
\* Where the packet under way begins in the line.
Begun == Scanned - Len(execBuf) + 1

\* What is left of a call is the end of the line.
Placed ==
  /\ Len(todo) <= Len(heard)
  /\ \A j \in 1..Len(todo) : todo[j] = heard[Scanned + j]

\* Between calls all is scanned and the packet under way is what waits in rxBuf.
Waits ==
  /\ calling => rxBuf = <<>>
  /\ ~calling => todo = <<>> /\ rxBuf = execBuf

\* The packet under way is the run at the end of what is scanned, and the callback was
\* given it only to have it wait.
UnderWay ==
  execBuf # <<>> =>
    /\ Len(execBuf) <= Scanned /\ IsRun(Begun, Scanned)
    /\ \A j \in 1..Len(execBuf) : execBuf[j] = heard[Begun + j - 1]
    /\ \A k \in 1..Len(told) :
         told[k].at < Begun \/ (told[k].at = Begun /\ told[k].asked /\ ~told[k].taken)

NoneEmpty == \A k \in 1..Len(told) : told[k].packet # <<>>

Callbacks == [at : Nat \ {0}, packet : Seq(Byte), asked : BOOLEAN, taken : BOOLEAN]

\* What ToldRuns says of one callback.
RunAt(k) ==
  /\ Last(k) <= Scanned /\ IsRun(told[k].at, Last(k))
  /\ \A j \in 1..Len(told[k].packet) : told[k].packet[j] = heard[told[k].at + j - 1]
  /\ \A l \in 1..k - 1 :
       \/ told[l].at < told[k].at
       \/ told[l].at = told[k].at /\ told[l].asked /\ ~told[l].taken

\* The callback was given the packet at p to its end, or took what there was of it.
Done(k, p) ==
  /\ told[k].at = p
  /\ (told[k].asked /\ told[k].taken) \/ EndsBy(p, Last(k))

\* A packet is done or under way, and between calls the callback has been asked.
Handed ==
  \A p \in 1..Scanned : heard[p] = FLAG =>
    (execBuf # <<>> /\ p = Begun) \/ \E k \in 1..Len(told) : Done(k, p)

Asked == ~calling /\ execBuf # <<>> => \E k \in 1..Len(told) : told[k].at = Begun

IInv == TypeOK /\ Placed /\ Waits /\ UnderWay /\ NoneEmpty /\ ToldRuns /\ Handed /\ Asked

-----------------------------------------------------------------------------
(***************************************************************************)
(* The callbacks so far.                                                   *)
(***************************************************************************)
LEMMA Lengths ==
  ASSUME TypeOK
  PROVE  /\ Len(rxBuf) \in Nat /\ Len(execBuf) \in Nat /\ Len(todo) \in Nat /\ Len(heard) \in Nat /\ Len(told) \in Nat
         /\ Scanned \in Int /\ Begun \in Int
         /\ \A k \in 1..Len(told) : /\ told[k].at \in Nat \ {0} /\ told[k].packet \in Seq(Byte)
                                    /\ told[k].asked \in BOOLEAN /\ told[k].taken \in BOOLEAN
                                    /\ Len(told[k].packet) \in Nat /\ Last(k) \in Int
         /\ execBuf # <<>> <=> Len(execBuf) # 0
  <1>1. /\ Len(rxBuf) \in Nat /\ Len(execBuf) \in Nat /\ Len(todo) \in Nat /\ Len(heard) \in Nat /\ Len(told) \in Nat
    BY LenProperties DEF TypeOK
  <1>2. Scanned \in Int /\ Begun \in Int
    BY <1>1 DEF Scanned, Begun
  <1>3. ASSUME NEW k \in 1..Len(told)
        PROVE  /\ told[k].at \in Nat \ {0} /\ told[k].packet \in Seq(Byte)
               /\ told[k].asked \in BOOLEAN /\ told[k].taken \in BOOLEAN
               /\ Len(told[k].packet) \in Nat /\ Last(k) \in Int
    <2>1. told[k] \in [at : Nat \ {0}, packet : Seq(Byte), asked : BOOLEAN, taken : BOOLEAN]
      BY ElementOfSeq DEF TypeOK
    <2>2. /\ told[k].at \in Nat \ {0} /\ told[k].packet \in Seq(Byte)
          /\ told[k].asked \in BOOLEAN /\ told[k].taken \in BOOLEAN
      BY <2>1
    <2>3. Len(told[k].packet) \in Nat
      BY <2>2, LenProperties
    <2>4. QED
      BY <2>2, <2>3 DEF Last
  <1>4. execBuf # <<>> <=> Len(execBuf) # 0
    BY EmptySeq DEF TypeOK
  <1>5. QED
    BY <1>1, <1>2, <1>3, <1>4

LEMMA PlacesOf ==
  ASSUME NEW a \in Nat \ {0}, NEW n \in Nat, NEW s \in Int, a + n - 1 <= s
  PROVE  \A j \in 1..n : a + j - 1 \in 1..s
  OBVIOUS

\* What has been told stays true of a line that goes on.
LEMMA ToldStays ==
  ASSUME IInv, \A k \in 1..Len(told) : told'[k] = told[k],
         Scanned' \in Int, Scanned' >= Scanned, \A p \in 1..Scanned : heard'[p] = heard[p]
  PROVE  /\ \A k \in 1..Len(told) : RunAt(k)' /\ told'[k].packet # <<>>
         /\ \A k \in 1..Len(told), p \in Int : Done(k, p) => Done(k, p)'
  <1> USE DEF IInv
  <1>1. ASSUME NEW k \in 1..Len(told)
        PROVE  /\ Last(k)' = Last(k) /\ Last(k) <= Scanned /\ told[k].at \in Nat \ {0} /\ Last(k) \in Int
               /\ Last(k) >= told[k].at /\ Last(k) = told[k].at + Len(told[k].packet) - 1
               /\ Len(told[k].packet) \in Nat
    <2>1. Len(told[k].packet) # 0 /\ Len(told[k].packet) \in Nat
      BY Lengths, EmptySeq DEF NoneEmpty
    <2>2. Last(k) = told[k].at + Len(told[k].packet) - 1 /\ Last(k)' = Last(k)
      BY DEF Last
    <2>3. Last(k) <= Scanned /\ told[k].at \in Nat \ {0}
      BY Lengths DEF ToldRuns
    <2>4. QED
      BY <2>1, <2>2, <2>3
  <1>2. Scanned \in Int
    BY Lengths
  <1>3. ASSUME NEW k \in 1..Len(told)
        PROVE  /\ IsRun(told[k].at, Last(k))'
               /\ \A j \in 1..Len(told[k].packet) : told[k].packet[j] = heard'[told[k].at + j - 1]
    <2>1. IsRun(told[k].at, Last(k)) /\ \A j \in 1..Len(told[k].packet) : told[k].packet[j] = heard[told[k].at + j - 1]
      BY DEF ToldRuns
    <2>2. told[k].at \in 1..Scanned /\ \A r \in (told[k].at + 1)..Last(k) : r \in 1..Scanned
      BY <1>1, <1>2
    <2>3. IsRun(told[k].at, Last(k))'
      BY <1>1, <2>1, <2>2 DEF IsRun
    <2>4. \A j \in 1..Len(told[k].packet) : told[k].at + j - 1 \in 1..Scanned
      BY <1>1, <1>2, PlacesOf
    <2>5. QED
      BY <2>1, <2>3, <2>4
  <1>4. ASSUME NEW k \in 1..Len(told)
        PROVE  RunAt(k)' /\ told'[k].packet # <<>>
    <2>1. Last(k)' <= Scanned'
      BY <1>1, <1>2
    <2>2. \A l \in 1..k - 1 : l \in 1..Len(told) /\ told'[l] = told[l]
      BY Lengths
    <2>3. \A l \in 1..k - 1 : told[l].at < told[k].at \/ (told[l].at = told[k].at /\ told[l].asked /\ ~told[l].taken)
      BY DEF ToldRuns
    <2>4. QED
      BY <1>3, <2>1, <2>2, <2>3, SMTT(60) DEF RunAt, NoneEmpty
  <1>5. ASSUME NEW k \in 1..Len(told), NEW p \in Int, Done(k, p)
        PROVE  Done(k, p)'
    <2>1. told[k].at = p /\ (told'[k].at = p)
      BY <1>5 DEF Done
    <2>2. CASE told[k].asked /\ told[k].taken
      BY <2>1, <2>2 DEF Done
    <2>3. CASE EndsBy(p, Last(k))
      <3>1. CASE Last(k) = p + MaxPacketLen - 1
        BY <1>1, <2>1, <3>1 DEF Done, EndsBy
      <3>2. CASE Last(k) < Scanned /\ heard[Last(k) + 1] = FLAG
        <4>1. Last(k) + 1 \in 1..Scanned /\ Last(k)' = Last(k) /\ Last(k) < Scanned'
          <5>1. Last(k) \in Int /\ told[k].at \in Nat /\ Last(k) >= told[k].at /\ Last(k)' = Last(k)
            BY <1>1
          <5>2. Last(k) \in Nat
            BY <5>1
          <5>3. QED
            BY <1>2, <3>2, <5>1, <5>2
        <4>2. heard'[Last(k)' + 1] = FLAG
          BY <3>2, <4>1
        <4>3. QED
          BY <2>1, <4>1, <4>2 DEF Done, EndsBy
      <3>3. QED
        BY <2>3, <3>1, <3>2 DEF EndsBy
    <2>4. QED
      BY <1>5, <2>2, <2>3 DEF Done
  <1>6. QED
    BY <1>4, <1>5

\* A callback is given a run of the line behind those before it.
LEMMA Tells ==
  ASSUME IInv, NEW c \in Callbacks, told' = Append(told, c), NEW n, n = Len(told) + 1,
         c.packet # <<>>, heard' = heard,
         Scanned' \in Int, Scanned' >= Scanned, c.at + Len(c.packet) - 1 <= Scanned',
         IsRun(c.at, c.at + Len(c.packet) - 1),
         \A j \in 1..Len(c.packet) : c.packet[j] = heard[c.at + j - 1],
         \A l \in 1..Len(told) : told[l].at < c.at \/ (told[l].at = c.at /\ told[l].asked /\ ~told[l].taken)
  PROVE  /\ told' \in Seq(Callbacks) /\ n \in Nat /\ Len(told') = n /\ told'[n] = c
         /\ \A k \in 1..Len(told) : told'[k] = told[k]
         /\ Last(n)' = c.at + Len(c.packet) - 1
         /\ ToldRuns' /\ NoneEmpty'
         /\ \A k \in 1..Len(told), p \in Int : Done(k, p) => Done(k, p)'
  <1>1. told \in Seq(Callbacks)
    BY DEF IInv, TypeOK, Callbacks
  <1>2. /\ told' \in Seq(Callbacks) /\ Len(told) \in Nat /\ n \in Nat /\ Len(told') = n /\ told'[n] = c
        /\ \A k \in 1..Len(told) : told'[k] = told[k]
    BY <1>1, AppendProperties, LenProperties
  <1>3. Last(n)' = c.at + Len(c.packet) - 1
    BY <1>2 DEF Last
  <1>4. /\ \A k \in 1..Len(told) : RunAt(k)' /\ told'[k].packet # <<>>
        /\ \A k \in 1..Len(told), p \in Int : Done(k, p) => Done(k, p)'
    BY <1>2, ToldStays
  <1>5. RunAt(n)'
    <2>1. IsRun(c.at, c.at + Len(c.packet) - 1)'
      BY DEF IsRun
    <2>2. \A l \in 1..n - 1 : l \in 1..Len(told)
      BY <1>2
    <2>3. \A l \in 1..n - 1 : told'[l].at < c.at \/ (told'[l].at = c.at /\ told'[l].asked /\ ~told'[l].taken)
      BY <1>2, <2>2
    <2>4. QED
      BY <1>2, <1>3, <2>1, <2>3 DEF RunAt
  <1>6. \A k \in 1..n : k \in 1..Len(told) \/ k = n
    BY <1>2
  <1>7. ToldRuns'
    BY <1>2, <1>4, <1>5, <1>6 DEF ToldRuns, RunAt
  <1>8. NoneEmpty'
    BY <1>2, <1>4, <1>6 DEF NoneEmpty
  <1>9. QED
    BY <1>2, <1>3, <1>4, <1>7, <1>8

-----------------------------------------------------------------------------
(***************************************************************************)
(* A byte of the line.                                                     *)
(***************************************************************************)
LEMMA Reads ==
  ASSUME IInv, AtByte, NextByte
  PROVE  /\ Scanned \in Nat /\ Scanned' = Scanned + 1 /\ Scanned + 1 <= Len(heard)
         /\ Head(todo) = heard[Scanned + 1] /\ Head(todo) \in Byte
         /\ todo' \in Seq(Byte) /\ Placed' /\ UNCHANGED heard
         /\ calling /\ rxBuf' = rxBuf /\ calling' = calling
  <1>1. todo # <<>> /\ todo \in Seq(Byte) /\ todo' = Tail(todo) /\ calling /\ UNCHANGED <<rxBuf, calling, heard>>
    BY DEF AtByte, NextByte, IInv, TypeOK
  <1>2. Len(todo) \in Nat /\ Len(todo) # 0 /\ Len(heard) \in Nat
    BY <1>1, Lengths, EmptySeq DEF IInv
  <1>3. /\ Head(todo) \in Byte /\ Tail(todo) \in Seq(Byte) /\ Len(Tail(todo)) = Len(todo) - 1
        /\ \A j \in 1..Len(Tail(todo)) : Tail(todo)[j] = todo[j + 1]
    BY <1>1, HeadTailProperties
  <1>4. Head(todo) = todo[1]
    BY <1>1
  <1>5. Len(todo) <= Len(heard) /\ \A j \in 1..Len(todo) : todo[j] = heard[Scanned + j]
    BY DEF IInv, Placed
  <1>6. Scanned = Len(heard) - Len(todo) /\ Scanned' = Len(heard) - Len(todo')
    BY <1>1 DEF Scanned
  <1>7. Scanned \in Nat /\ Scanned' = Scanned + 1 /\ Scanned + 1 <= Len(heard)
    BY <1>1, <1>2, <1>3, <1>5, <1>6
  <1>8. Head(todo) = heard[Scanned + 1]
    BY <1>2, <1>4, <1>5
  <1>9. Placed'
    <2>1. ASSUME NEW j \in 1..Len(todo')
          PROVE  todo'[j] = heard'[Scanned' + j]
      <3>1. todo'[j] = todo[j + 1] /\ j + 1 \in 1..Len(todo)
        BY <1>1, <1>2, <1>3
      <3>2. Scanned + (j + 1) = Scanned' + j
        BY <1>7
      <3>3. QED
        BY <1>1, <1>5, <3>1, <3>2
    <2>2. Len(todo') <= Len(heard')
      BY <1>1, <1>2, <1>3, <1>5
    <2>3. QED
      BY <2>1, <2>2 DEF Placed
  <1>10. QED
    BY <1>1, <1>3, <1>7, <1>8, <1>9

\* The packet under way in numbers.
LEMMA RunUnderWay ==
  ASSUME IInv
  PROVE  /\ Headed <=> execBuf # <<>>
         /\ execBuf # <<>> =>
              /\ Len(execBuf) \in 1..MaxPacketLen - 1 /\ Begun \in Nat \ {0} /\ Begun + Len(execBuf) = Scanned + 1
              /\ heard[Begun] = FLAG /\ \A r \in (Begun + 1)..Scanned : heard[r] # FLAG
              /\ \A j \in 1..Len(execBuf) : execBuf[j] = heard[Begun + j - 1]
  <1>1. /\ Len(execBuf) \in Nat /\ Scanned \in Int /\ (execBuf # <<>> <=> Len(execBuf) # 0)
        /\ Len(execBuf) < MaxPacketLen /\ MaxPacketLen \in Nat
    BY Lengths, AdlcAssumption DEF IInv, AdlcAssumption, TypeOK
  <1>2. Begun + Len(execBuf) = Scanned + 1 /\ Begun \in Int
    BY <1>1 DEF Begun
  <1>3. CASE execBuf = <<>>
    BY <1>3 DEF Headed
  <1>4. CASE execBuf # <<>>
    <2>1. /\ Len(execBuf) <= Scanned /\ IsRun(Begun, Scanned)
          /\ \A j \in 1..Len(execBuf) : execBuf[j] = heard[Begun + j - 1]
      BY <1>4 DEF IInv, UnderWay
    <2>2. heard[Begun] = FLAG /\ \A r \in (Begun + 1)..Scanned : heard[r] # FLAG
      BY <2>1 DEF IsRun
    <2>3. Len(execBuf) \in 1..MaxPacketLen - 1 /\ Begun \in Nat \ {0}
      BY <1>1, <1>2, <1>4, <2>1
    <2>4. execBuf[1] = FLAG
      <3>1. 1 \in 1..Len(execBuf) /\ Begun + 1 - 1 = Begun
        BY <1>2, <2>3
      <3>2. QED
        BY <2>1, <2>2, <3>1
    <2>5. QED
      BY <1>2, <1>4, <2>1, <2>2, <2>3, <2>4 DEF Headed
  <1>5. QED
    BY <1>3, <1>4

\* Every FLAG scanned stays done or under way when the scan goes on.
LEMMA HandedOn ==
  ASSUME IInv, Scanned \in Nat, Scanned' \in {Scanned, Scanned + 1}, \A p \in 1..Scanned : heard'[p] = heard[p],
         \A k \in 1..Len(told), p \in Int : Done(k, p) => Done(k, p)',
         1..Len(told) \subseteq 1..Len(told'),
         \A p \in Int : execBuf # <<>> /\ p = Begun =>
           (execBuf' # <<>> /\ Begun' = p) \/ \E k \in 1..Len(told') : Done(k, p)',
         Scanned' = Scanned + 1 /\ heard'[Scanned + 1] = FLAG => execBuf' # <<>> /\ Begun' = Scanned + 1
  PROVE  Handed'
  <1>1. ASSUME NEW p \in 1..Scanned', heard'[p] = FLAG
        PROVE  (execBuf' # <<>> /\ p = Begun') \/ \E k \in 1..Len(told') : Done(k, p)'
    <2>1. CASE Scanned' = Scanned + 1 /\ p = Scanned + 1
      BY <1>1, <2>1
    <2>2. CASE p \in 1..Scanned
      <3>1. CASE execBuf # <<>> /\ p = Begun
        BY <3>1
      <3>2. CASE \E k \in 1..Len(told) : Done(k, p)
        <4>1. PICK k \in 1..Len(told) : Done(k, p)
          BY <3>2
        <4>2. k \in 1..Len(told') /\ Done(k, p)'
          BY <2>2, <4>1
        <4>3. QED
          BY <4>2
      <3>3. QED
        BY <1>1, <2>2, <3>1, <3>2 DEF IInv, Handed
    <2>3. QED
      BY <1>1, <2>1, <2>2
  <1>2. QED
    BY <1>1 DEF Handed

LEMMA GarbageKeeps ==
  ASSUME IInv, Garbage
  PROVE  IInv'
  <1> USE DEF IInv
  <1>1. AtByte /\ NextByte /\ Head(todo) # FLAG /\ execBuf = <<>> /\ UNCHANGED <<execBuf, told>>
    BY RunUnderWay DEF Garbage
  <1>2. /\ Scanned \in Nat /\ Scanned' = Scanned + 1 /\ heard[Scanned + 1] # FLAG
        /\ todo' \in Seq(Byte) /\ Placed' /\ UNCHANGED <<heard, rxBuf, calling>> /\ calling
    BY <1>1, Reads
  <1>3. TypeOK'
    BY <1>1, <1>2 DEF TypeOK
  <1>4. Waits' /\ UnderWay' /\ Asked'
    BY <1>1, <1>2 DEF Waits, UnderWay, Asked
  <1>5. /\ \A k \in 1..Len(told) : RunAt(k)' /\ told'[k].packet # <<>>
        /\ \A k \in 1..Len(told), p \in Int : Done(k, p) => Done(k, p)'
    BY <1>1, <1>2, ToldStays
  <1>6. ToldRuns' /\ NoneEmpty'
    BY <1>1, <1>5 DEF ToldRuns, NoneEmpty, RunAt
  <1>7. Handed'
    BY <1>1, <1>2, <1>5, HandedOn
  <1>8. QED
    BY <1>2, <1>3, <1>4, <1>6, <1>7

LEMMA CollectKeeps ==
  ASSUME IInv, Collect
  PROVE  IInv'
  <1> USE DEF IInv
  <1>1. AtByte /\ NextByte /\ Head(todo) # FLAG /\ execBuf # <<>> /\ UNCHANGED told
        /\ Len(execBuf) + 1 < MaxPacketLen /\ execBuf' = Append(execBuf, Head(todo))
    BY RunUnderWay DEF Collect
  <1>2. /\ Scanned \in Nat /\ Scanned' = Scanned + 1 /\ heard[Scanned + 1] = Head(todo) /\ Head(todo) \in Byte
        /\ todo' \in Seq(Byte) /\ Placed' /\ UNCHANGED <<heard, rxBuf, calling>> /\ calling
    BY <1>1, Reads
  <1>3. /\ Len(execBuf) \in Nat /\ Begun \in Nat \ {0} /\ Begun + Len(execBuf) = Scanned + 1
        /\ heard[Begun] = FLAG /\ \A r \in (Begun + 1)..Scanned : heard[r] # FLAG
        /\ \A j \in 1..Len(execBuf) : execBuf[j] = heard[Begun + j - 1]
    BY <1>1, RunUnderWay
  <1>4. /\ execBuf' \in Seq(Byte) /\ Len(execBuf') = Len(execBuf) + 1 /\ execBuf' # <<>>
        /\ \A j \in 1..Len(execBuf) : execBuf'[j] = execBuf[j]
        /\ execBuf'[Len(execBuf) + 1] = Head(todo)
    <2>1. execBuf \in Seq(Byte)
      BY DEF TypeOK
    <2>2. PICK b \in Byte : b = Head(todo)
      BY <1>2
    <2>3. execBuf' = Append(execBuf, b)
      BY <1>1, <2>2
    <2>4. QED
      BY <2>1, <2>2, <2>3, AppendProperties
  <1>5. Begun' = Begun
    BY <1>2, <1>3, <1>4 DEF Begun
  <1>6. TypeOK'
    BY <1>1, <1>2, <1>4 DEF TypeOK
  <1>7. UnderWay'
    <2>1. IsRun(Begun, Scanned + 1)
      <3>1. Scanned + 1 < Begun + MaxPacketLen
        BY <1>1, <1>2, <1>3, AdlcAssumption DEF AdlcAssumption
      <3>2. \A r \in (Begun + 1)..(Scanned + 1) : r \in (Begun + 1)..Scanned \/ r = Scanned + 1
        BY <1>2, <1>3
      <3>3. QED
        BY <1>1, <1>2, <1>3, <3>1, <3>2 DEF IsRun
    <2>2. ASSUME NEW j \in 1..Len(execBuf')
          PROVE  execBuf'[j] = heard[Begun + j - 1]
      <3>1. CASE j \in 1..Len(execBuf)
        BY <1>3, <1>4, <3>1
      <3>2. CASE j = Len(execBuf) + 1
        <4>1. Begun + j - 1 = Scanned + 1
          BY <1>2, <1>3, <3>2
        <4>2. QED
          BY <1>2, <1>4, <3>2, <4>1
      <3>3. QED
        BY <1>3, <1>4, <3>1, <3>2
    <2>3. IsRun(Begun, Scanned)'
      BY <1>2, <1>5, <2>1 DEF IsRun
    <2>4. Len(execBuf') <= Scanned'
      BY <1>2, <1>3, <1>4
    <2>5. \A k \in 1..Len(told) :
            told[k].at < Begun \/ (told[k].at = Begun /\ told[k].asked /\ ~told[k].taken)
      BY <1>1 DEF UnderWay
    <2>6. QED
      BY <1>1, <1>2, <1>5, <2>2, <2>3, <2>4, <2>5 DEF UnderWay
  <1>8. Waits' /\ Asked'
    BY <1>2 DEF Waits, Asked
  <1>9. /\ \A k \in 1..Len(told) : RunAt(k)' /\ told'[k].packet # <<>>
        /\ \A k \in 1..Len(told), p \in Int : Done(k, p) => Done(k, p)'
    BY <1>1, <1>2, ToldStays
  <1>10. ToldRuns' /\ NoneEmpty'
    BY <1>1, <1>9 DEF ToldRuns, NoneEmpty, RunAt
  <1>11. Handed'
    BY <1>1, <1>2, <1>4, <1>5, <1>9, HandedOn
  <1>12. QED
    BY <1>2, <1>6, <1>7, <1>8, <1>10, <1>11

\* The callback is given the packet under way.
LEMMA NotifyTells ==
  ASSUME IInv, execBuf # <<>>, NEW asked \in BOOLEAN, NEW taken \in BOOLEAN, Notify(asked, taken),
         NEW b, b = Begun, NEW n, n = Len(told) + 1,
         Scanned' \in Int, Scanned' >= Scanned, heard' = heard
  PROVE  /\ told' \in Seq(Callbacks) /\ n \in Nat /\ Len(told') = n
         /\ \A k \in 1..Len(told) : told'[k] = told[k]
         /\ told'[n].at = b /\ told'[n].asked = asked /\ told'[n].taken = taken /\ Last(n)' = Scanned
         /\ ToldRuns' /\ NoneEmpty'
         /\ \A k \in 1..Len(told), p \in Int : Done(k, p) => Done(k, p)'
  <1>1. /\ b + Len(execBuf) = Scanned + 1 /\ Len(execBuf) \in Nat /\ Scanned \in Int /\ execBuf \in Seq(Byte)
        /\ b \in Nat \ {0}
    BY RunUnderWay, Lengths DEF IInv, TypeOK
  <1>2. PICK c : c = [at |-> b, packet |-> execBuf, asked |-> asked, taken |-> taken]
    OBVIOUS
  <1>3. c \in Callbacks /\ c.at = b /\ c.packet = execBuf /\ c.asked = asked /\ c.taken = taken
    BY <1>1, <1>2 DEF Callbacks
  <1>4. told' = Append(told, c)
    <2>1. Len(heard) - Len(todo) - Len(execBuf) + 1 = b
      BY DEF Begun, Scanned
    <2>2. QED
      BY <1>2, <2>1 DEF Notify
  <1>5. c.at + Len(c.packet) - 1 = Scanned /\ c.at + Len(c.packet) - 1 <= Scanned'
    BY <1>1, <1>3
  <1>6. /\ IsRun(c.at, c.at + Len(c.packet) - 1) /\ \A j \in 1..Len(c.packet) : c.packet[j] = heard[c.at + j - 1]
        /\ \A l \in 1..Len(told) : told[l].at < c.at \/ (told[l].at = c.at /\ told[l].asked /\ ~told[l].taken)
    BY <1>3, <1>5 DEF IInv, UnderWay
  <1>7. QED
    BY <1>3, <1>4, <1>5, <1>6, Tells

\* MaxPacketLen ends the packet under way.
LEMMA ReleaseKeeps ==
  ASSUME IInv, Release
  PROVE  IInv'
  <1> USE DEF IInv
  <1>1. AtByte /\ NextByte /\ Head(todo) # FLAG /\ execBuf # <<>> /\ Len(execBuf) + 1 >= MaxPacketLen /\ execBuf' = <<>>
    BY RunUnderWay DEF Release
  <1>2. /\ Scanned \in Nat /\ Scanned' = Scanned + 1 /\ heard[Scanned + 1] = Head(todo) /\ Head(todo) \in Byte
        /\ todo' \in Seq(Byte) /\ Placed' /\ UNCHANGED <<heard, rxBuf, calling>> /\ calling
    BY <1>1, Reads
  <1>3. PICK b, n : b = Begun /\ n = Len(told) + 1
    OBVIOUS
  <1>4. /\ Len(execBuf) \in Nat /\ b \in Nat \ {0} /\ b + Len(execBuf) = Scanned + 1
        /\ heard[b] = FLAG /\ \A r \in (b + 1)..Scanned : heard[r] # FLAG
        /\ \A j \in 1..Len(execBuf) : execBuf[j] = heard[b + j - 1]
        /\ Len(execBuf) + 1 = MaxPacketLen
    BY <1>1, <1>3, RunUnderWay, AdlcAssumption DEF AdlcAssumption
  <1>5. PICK packet : packet = Append(execBuf, Head(todo))
    OBVIOUS
  <1>6. /\ packet \in Seq(Byte) /\ Len(packet) = Len(execBuf) + 1 /\ packet # <<>>
        /\ \A j \in 1..Len(execBuf) : packet[j] = execBuf[j]
        /\ packet[Len(execBuf) + 1] = heard[Scanned + 1]
    <2>1. execBuf \in Seq(Byte)
      BY DEF TypeOK
    <2>2. PICK h \in Byte : h = Head(todo)
      BY <1>2
    <2>3. packet = Append(execBuf, h)
      BY <1>5, <2>2
    <2>4. QED
      BY <1>2, <2>1, <2>2, <2>3, AppendProperties
  <1>7. PICK taken \in BOOLEAN :
          told' = Append(told, [at |-> b, packet |-> packet, asked |-> FALSE, taken |-> taken])
    <2>1. Len(heard) - Len(todo) - Len(execBuf) + 1 = b
      BY <1>3 DEF Begun, Scanned
    <2>2. QED
      BY <1>5, <2>1 DEF Release
  <1>8. PICK c : c = [at |-> b, packet |-> packet, asked |-> FALSE, taken |-> taken]
    OBVIOUS
  <1>9. c \in Callbacks /\ c.at = b /\ c.packet = packet /\ told' = Append(told, c)
    BY <1>4, <1>6, <1>7, <1>8 DEF Callbacks
  <1>10. b + Len(packet) - 1 = Scanned + 1 /\ Scanned + 1 = b + MaxPacketLen - 1 /\ MaxPacketLen \in Nat
    BY <1>2, <1>4, <1>6, AdlcAssumption DEF AdlcAssumption
  <1>11. IsRun(b, Scanned + 1)
    <2>1. \A r \in (b + 1)..(Scanned + 1) : r \in (b + 1)..Scanned \/ r = Scanned + 1
      BY <1>2, <1>4
    <2>2. QED
      BY <1>1, <1>2, <1>4, <1>10, <2>1 DEF IsRun
  <1>12. ASSUME NEW j \in 1..Len(packet)
         PROVE  packet[j] = heard[b + j - 1]
    <2>1. CASE j \in 1..Len(execBuf)
      BY <1>4, <1>6, <2>1
    <2>2. CASE j = Len(execBuf) + 1
      <3>1. b + j - 1 = Scanned + 1
        BY <1>2, <1>4, <2>2
      <3>2. QED
        BY <1>6, <2>2, <3>1
    <2>3. QED
      BY <1>4, <1>6, <2>1, <2>2
  <1>13. \A l \in 1..Len(told) : told[l].at < b \/ (told[l].at = b /\ told[l].asked /\ ~told[l].taken)
    BY <1>1, <1>3 DEF UnderWay
  <1>14. /\ told' \in Seq(Callbacks) /\ n \in Nat /\ Len(told') = n /\ told'[n] = c
         /\ \A k \in 1..Len(told) : told'[k] = told[k]
         /\ Last(n)' = Scanned + 1 /\ ToldRuns' /\ NoneEmpty'
         /\ \A k \in 1..Len(told), p \in Int : Done(k, p) => Done(k, p)'
    <2>1. c.packet # <<>> /\ c.at + Len(c.packet) - 1 = Scanned + 1
      BY <1>6, <1>9, <1>10
    <2>2. /\ IsRun(c.at, c.at + Len(c.packet) - 1) /\ Scanned' \in Int /\ Scanned' >= Scanned
          /\ c.at + Len(c.packet) - 1 <= Scanned' /\ heard' = heard
      BY <1>2, <1>9, <1>11, <2>1
    <2>3. \A j \in 1..Len(c.packet) : c.packet[j] = heard[c.at + j - 1]
      BY <1>9, <1>12
    <2>4. \A l \in 1..Len(told) : told[l].at < c.at \/ (told[l].at = c.at /\ told[l].asked /\ ~told[l].taken)
      BY <1>9, <1>13
    <2>5. QED
      BY <1>3, <1>9, <2>1, <2>2, <2>3, <2>4, Tells
  <1>15. Done(n, b)'
    BY <1>9, <1>10, <1>14 DEF Done, EndsBy
  <1>16. n \in 1..Len(told') /\ 1..Len(told) \subseteq 1..Len(told')
    BY <1>3, <1>14, Lengths
  <1>17. Handed'
    BY <1>1, <1>2, <1>3, <1>14, <1>15, <1>16, HandedOn
  <1>18. TypeOK'
    <2>1. execBuf' \in Seq(Byte) /\ Len(execBuf') = 0
      BY <1>1, EmptySeq
    <2>2. QED
      BY <1>2, <1>14, <2>1, AdlcAssumption DEF TypeOK, Callbacks, AdlcAssumption
  <1>19. Waits' /\ UnderWay' /\ Asked'
    BY <1>1, <1>2 DEF Waits, UnderWay, Asked
  <1>20. QED
    BY <1>2, <1>14, <1>17, <1>18, <1>19

\* A callback's place in the line.
LEMMA ToldBefore ==
  ASSUME IInv, NEW k \in 1..Len(told)
  PROVE  told[k].at <= Scanned
  <1>1. /\ told[k].at \in Nat /\ Len(told[k].packet) \in Nat /\ told[k].packet \in Seq(Byte) /\ Scanned \in Int
    BY Lengths DEF IInv
  <1>2. Len(told[k].packet) # 0
    BY <1>1, EmptySeq DEF IInv, NoneEmpty
  <1>3. Last(k) = told[k].at + Len(told[k].packet) - 1 /\ Last(k) <= Scanned
    BY DEF Last, IInv, ToldRuns
  <1>4. QED
    BY <1>1, <1>2, <1>3

LEMMA HeadFlagKeeps ==
  ASSUME IInv, HeadFlag
  PROVE  IInv'
  <1> USE DEF IInv
  <1>1. /\ AtByte /\ NextByte /\ Head(todo) = FLAG /\ execBuf' = <<FLAG>>
        /\ execBuf # <<>> => \E taken \in BOOLEAN : Notify(FALSE, taken)
        /\ execBuf = <<>> => UNCHANGED told
    BY DEF HeadFlag
  <1>2. /\ Scanned \in Nat /\ Scanned' = Scanned + 1 /\ heard[Scanned + 1] = FLAG
        /\ todo' \in Seq(Byte) /\ Placed' /\ UNCHANGED <<heard, rxBuf, calling>> /\ calling
    BY <1>1, Reads
  <1>3. /\ execBuf' \in Seq(Byte) /\ Len(execBuf') = 1 /\ execBuf' # <<>> /\ execBuf'[1] = FLAG
    BY <1>1, AdlcAssumption DEF AdlcAssumption
  <1>4. Begun' = Scanned + 1
    BY <1>2, <1>3 DEF Begun
  <1>5. /\ told' \in Seq(Callbacks) /\ Len(told) \in Nat /\ Len(told') \in Nat /\ Len(told) <= Len(told')
        /\ \A k \in 1..Len(told') : told'[k].at <= Scanned
        /\ ToldRuns' /\ NoneEmpty'
        /\ \A k \in 1..Len(told), p \in Int : Done(k, p) => Done(k, p)'
        /\ \A p \in Int : execBuf # <<>> /\ p = Begun => \E k \in 1..Len(told') : Done(k, p)'
    <2>1. told \in Seq(Callbacks) /\ Len(told) \in Nat
      BY Lengths DEF TypeOK, Callbacks
    <2>2. CASE execBuf = <<>>
      <3>1. UNCHANGED told
        BY <1>1, <2>2
      <3>2. /\ \A k \in 1..Len(told) : RunAt(k)' /\ told'[k].packet # <<>>
            /\ \A k \in 1..Len(told), p \in Int : Done(k, p) => Done(k, p)'
        BY <1>2, <3>1, ToldStays
      <3>3. ToldRuns' /\ NoneEmpty'
        BY <3>1, <3>2 DEF ToldRuns, NoneEmpty, RunAt
      <3>4. QED
        BY <2>1, <2>2, <3>1, <3>2, <3>3, ToldBefore
    <2>3. CASE execBuf # <<>>
      <3>1. PICK taken \in BOOLEAN : Notify(FALSE, taken)
        BY <1>1, <2>3
      <3>2. PICK b, n : b = Begun /\ n = Len(told) + 1
        OBVIOUS
      <3>3. Scanned' \in Int /\ Scanned' >= Scanned /\ heard' = heard /\ b = Begun /\ n = Len(told) + 1 /\ FALSE \in BOOLEAN
        BY <1>2, <3>2
      <3>4. /\ told' \in Seq(Callbacks) /\ n \in Nat /\ Len(told') = n
            /\ \A k \in 1..Len(told) : told'[k] = told[k]
            /\ told'[n].at = b /\ Last(n)' = Scanned /\ ToldRuns' /\ NoneEmpty'
            /\ \A k \in 1..Len(told), p \in Int : Done(k, p) => Done(k, p)'
        BY <2>3, <3>1, <3>3, NotifyTells
      <3>5. Done(n, b)'
        BY <1>2, <3>4 DEF Done, EndsBy
      <3>6. n \in 1..Len(told') /\ Len(told) <= Len(told') /\ \A k \in 1..Len(told') : k \in 1..Len(told) \/ k = n
        BY <2>1, <3>2, <3>4
      <3>7. b <= Scanned
        BY <1>2, <2>3, <3>2, RunUnderWay
      <3>8. \A k \in 1..Len(told') : told'[k].at <= Scanned
        BY <3>4, <3>6, <3>7, ToldBefore
      <3>9. QED
        BY <2>1, <3>2, <3>4, <3>5, <3>6, <3>8
    <2>4. QED
      BY <2>2, <2>3
  <1>6. 1..Len(told) \subseteq 1..Len(told')
    BY <1>5
  <1>7. Handed'
    BY <1>2, <1>3, <1>4, <1>5, <1>6, HandedOn
  <1>8. TypeOK'
    BY <1>2, <1>3, <1>5, AdlcAssumption DEF TypeOK, Callbacks, AdlcAssumption
  <1>9. UnderWay'
    <2>1. IsRun(Begun, Scanned)'
      BY <1>2, <1>4, AdlcAssumption DEF IsRun, AdlcAssumption
    <2>2. \A j \in 1..Len(execBuf') : execBuf'[j] = heard'[Begun' + j - 1]
      <3>1. \A j \in 1..Len(execBuf') : j = 1 /\ Begun' + j - 1 = Scanned + 1
        BY <1>2, <1>3, <1>4
      <3>2. QED
        BY <1>2, <1>3, <3>1
    <2>3. \A k \in 1..Len(told') : told'[k].at \in Nat
      <3>1. \A k \in 1..Len(told') : told'[k] \in Callbacks
        BY <1>5, ElementOfSeq
      <3>2. \A c \in Callbacks : c.at \in Nat
        BY DEF Callbacks
      <3>3. QED
        BY <3>1, <3>2
    <2>4. \A k \in 1..Len(told') : told'[k].at < Begun'
      BY <1>2, <1>4, <1>5, <2>3
    <2>5. Len(execBuf') <= Scanned'
      BY <1>2, <1>3
    <2>6. QED
      BY <2>1, <2>2, <2>4, <2>5 DEF UnderWay
  <1>10. Waits' /\ Asked'
    BY <1>2 DEF Waits, Asked
  <1>11. QED
    BY <1>2, <1>5, <1>7, <1>8, <1>9, <1>10

-----------------------------------------------------------------------------
(***************************************************************************)
(* The beginning and the end of a call.                                    *)
(***************************************************************************)
LEMMA OnDataKeeps ==
  ASSUME IInv, NEW chunk \in Chunks, OnData(chunk)
  PROVE  IInv'
  <1> USE DEF IInv
  <1>1. chunk \in Seq(Byte)
    BY AdlcAssumption DEF AdlcAssumption
  <1>2. /\ ~calling /\ calling' = TRUE /\ todo' = chunk /\ heard' = heard \o chunk /\ rxBuf' = <<>> /\ UNCHANGED told
        /\ execBuf' = IF rxBuf # <<>> THEN rxBuf ELSE execBuf
    BY DEF OnData
  <1>3. todo = <<>> /\ rxBuf = execBuf /\ execBuf' = execBuf
    BY <1>2 DEF Waits
  <1>4. /\ Len(heard) \in Nat /\ Len(execBuf) \in Nat /\ Len(chunk) \in Nat /\ Len(todo) = 0
    BY <1>1, <1>3, Lengths, LenProperties, EmptySeq
  <1>5. /\ heard' \in Seq(Byte) /\ Len(heard') = Len(heard) + Len(chunk)
        /\ \A p \in 1..Len(heard) : heard'[p] = heard[p]
        /\ \A j \in 1..Len(chunk) : heard'[Len(heard) + j] = chunk[j]
    <2>1. heard \in Seq(Byte)
      BY DEF TypeOK
    <2>2. /\ heard' \in Seq(Byte) /\ Len(heard') = Len(heard) + Len(chunk)
          /\ \A p \in 1..Len(heard) + Len(chunk) :
               heard'[p] = IF p <= Len(heard) THEN heard[p] ELSE chunk[p - Len(heard)]
      BY <1>1, <1>2, <2>1, ConcatProperties
    <2>3. ASSUME NEW j \in 1..Len(chunk)
          PROVE  heard'[Len(heard) + j] = chunk[j]
      <3>1. Len(heard) + j \in 1..Len(heard) + Len(chunk) /\ ~(Len(heard) + j <= Len(heard)) /\ Len(heard) + j - Len(heard) = j
        BY <1>4
      <3>2. QED
        BY <2>2, <3>1
    <2>4. QED
      BY <1>4, <2>2, <2>3
  <1>6. Scanned = Len(heard) /\ Scanned' = Scanned /\ Begun' = Begun
    BY <1>2, <1>3, <1>4, <1>5 DEF Scanned, Begun
  <1>7. TypeOK'
    <2>1. rxBuf' \in Seq(Byte) /\ Len(rxBuf') = 0
      BY <1>2, EmptySeq
    <2>2. QED
      BY <1>1, <1>2, <1>3, <1>5, <2>1, AdlcAssumption DEF TypeOK, AdlcAssumption
  <1>8. Placed'
    BY <1>2, <1>4, <1>5, <1>6 DEF Placed
  <1>9. Waits' /\ Asked'
    BY <1>2 DEF Waits, Asked
  <1>10. UnderWay'
    <2>1. CASE execBuf # <<>>
      <3>1. /\ Begun \in Nat \ {0} /\ Begun + Len(execBuf) = Scanned + 1 /\ Len(execBuf) \in Nat \ {0}
        BY <2>1, RunUnderWay
      <3>2. /\ Len(execBuf) <= Scanned /\ IsRun(Begun, Scanned)
            /\ \A j \in 1..Len(execBuf) : execBuf[j] = heard[Begun + j - 1]
            /\ \A k \in 1..Len(told) :
                 told[k].at < Begun \/ (told[k].at = Begun /\ told[k].asked /\ ~told[k].taken)
        BY <2>1 DEF UnderWay
      <3>3. /\ Begun \in 1..Len(heard) /\ \A r \in (Begun + 1)..Scanned : r \in 1..Len(heard)
            /\ \A j \in 1..Len(execBuf) : Begun + j - 1 \in 1..Len(heard)
        BY <1>4, <1>6, <3>1
      <3>4. IsRun(Begun, Scanned)'
        BY <1>5, <1>6, <3>2, <3>3 DEF IsRun
      <3>5. QED
        BY <1>2, <1>3, <1>5, <1>6, <3>2, <3>3, <3>4 DEF UnderWay
    <2>2. QED
      BY <1>3, <2>1 DEF UnderWay
  <1>11. /\ \A k \in 1..Len(told) : RunAt(k)' /\ told'[k].packet # <<>>
         /\ \A k \in 1..Len(told), p \in Int : Done(k, p) => Done(k, p)'
    BY <1>2, <1>4, <1>5, <1>6, ToldStays
  <1>12. ToldRuns' /\ NoneEmpty'
    BY <1>2, <1>11 DEF ToldRuns, NoneEmpty, RunAt
  <1>13. Handed'
    BY <1>2, <1>3, <1>4, <1>5, <1>6, <1>11, HandedOn, SMTT(60)
  <1>14. QED
    BY <1>7, <1>8, <1>9, <1>10, <1>12, <1>13

LEMMA ReturnEmptyKeeps ==
  ASSUME IInv, ReturnEmpty
  PROVE  IInv'
  <1> USE DEF IInv
  <1>1. /\ calling /\ todo = <<>> /\ execBuf = <<>> /\ execBuf' = <<>> /\ calling' = FALSE
        /\ UNCHANGED <<rxBuf, todo, heard, told>>
    BY RunUnderWay DEF ReturnEmpty, AtEnd
  <1>2. Scanned' = Scanned /\ Scanned \in Nat
    BY <1>1, Lengths DEF Scanned, Placed
  <1>3. TypeOK' /\ Placed'
    BY <1>1, <1>2 DEF TypeOK, Placed
  <1>4. Waits' /\ UnderWay' /\ Asked'
    BY <1>1 DEF Waits, UnderWay, Asked
  <1>5. /\ \A k \in 1..Len(told) : RunAt(k)' /\ told'[k].packet # <<>>
        /\ \A k \in 1..Len(told), p \in Int : Done(k, p) => Done(k, p)'
    BY <1>1, <1>2, ToldStays
  <1>6. ToldRuns' /\ NoneEmpty'
    BY <1>1, <1>5 DEF ToldRuns, NoneEmpty, RunAt
  <1>7. Handed'
    BY <1>1, <1>2, <1>5, HandedOn
  <1>8. QED
    BY <1>3, <1>4, <1>6, <1>7

\* A packet that waits is in rxBuf and will be asked about again, one that was taken is done.
LEMMA AskKeeps ==
  ASSUME IInv, Ask
  PROVE  IInv'
  <1> USE DEF IInv
  <1>1. /\ calling /\ todo = <<>> /\ execBuf # <<>> /\ calling' = FALSE /\ UNCHANGED <<todo, heard>>
        /\ rxBuf = <<>>
    BY RunUnderWay DEF Ask, AtEnd, Waits
  <1>2. PICK taken \in BOOLEAN :
          /\ Notify(TRUE, taken)
          /\ IF taken THEN execBuf' = <<>> /\ UNCHANGED rxBuf ELSE rxBuf' = execBuf /\ UNCHANGED execBuf
    BY DEF Ask
  <1>3. Scanned' = Scanned /\ Scanned \in Nat /\ Scanned' \in Int /\ Scanned' >= Scanned /\ heard' = heard
    BY <1>1, Lengths DEF Scanned, Placed
  <1>4. PICK b, n : b = Begun /\ n = Len(told) + 1
    OBVIOUS
  <1>5. /\ told' \in Seq(Callbacks) /\ n \in Nat /\ Len(told') = n
        /\ \A k \in 1..Len(told) : told'[k] = told[k]
        /\ told'[n].at = b /\ told'[n].asked = TRUE /\ told'[n].taken = taken
        /\ ToldRuns' /\ NoneEmpty'
        /\ \A k \in 1..Len(told), p \in Int : Done(k, p) => Done(k, p)'
    <2>1. TRUE \in BOOLEAN /\ b = Begun /\ n = Len(told) + 1
      BY <1>4
    <2>2. QED
      BY <1>1, <1>2, <1>3, <2>1, NotifyTells
  <1>6. /\ n \in 1..Len(told') /\ 1..Len(told) \subseteq 1..Len(told')
        /\ \A k \in 1..Len(told') : k \in 1..Len(told) \/ k = n
    BY <1>4, <1>5, Lengths
  <1>7. b \in Int
    BY <1>4, Lengths
  <1>8. CASE taken
    <2>1. execBuf' = <<>> /\ rxBuf' = <<>>
      BY <1>1, <1>2, <1>8
    <2>2. Done(n, b)'
      BY <1>5, <1>8 DEF Done
    <2>3. Handed'
      BY <1>3, <1>4, <1>5, <1>6, <2>2, HandedOn
    <2>4. TypeOK'
      <3>1. execBuf' \in Seq(Byte) /\ Len(execBuf') = 0
        BY <2>1, EmptySeq
      <3>2. QED
        BY <1>1, <1>5, <2>1, <3>1, AdlcAssumption DEF TypeOK, Callbacks, AdlcAssumption
    <2>5. Placed'
      BY <1>1, <1>3 DEF Placed
    <2>6. Waits' /\ UnderWay' /\ Asked'
      BY <1>1, <2>1 DEF Waits, UnderWay, Asked
    <2>7. QED
      BY <1>5, <2>3, <2>4, <2>5, <2>6
  <1>9. CASE ~taken
    <2>1. execBuf' = execBuf /\ rxBuf' = execBuf
      BY <1>2, <1>9
    <2>2. Begun' = Begun
      BY <1>3, <2>1 DEF Begun
    <2>3. Handed'
      BY <1>1, <1>3, <1>5, <1>6, <2>1, <2>2, HandedOn
    <2>4. TypeOK'
      BY <1>1, <1>5, <2>1 DEF TypeOK, Callbacks
    <2>5. Placed'
      BY <1>1, <1>3 DEF Placed
    <2>6. Waits'
      BY <1>1, <2>1 DEF Waits
    <2>7. Asked'
      BY <1>4, <1>5, <1>6, <2>2 DEF Asked
    <2>8. UnderWay'
      <3>1. /\ Len(execBuf) <= Scanned /\ IsRun(Begun, Scanned)
            /\ \A j \in 1..Len(execBuf) : execBuf[j] = heard[Begun + j - 1]
            /\ \A k \in 1..Len(told) :
                 told[k].at < Begun \/ (told[k].at = Begun /\ told[k].asked /\ ~told[k].taken)
        BY <1>1 DEF UnderWay
      <3>2. IsRun(Begun, Scanned)'
        BY <1>3, <2>2, <3>1 DEF IsRun
      <3>3. \A k \in 1..Len(told') :
              told'[k].at < Begun \/ (told'[k].at = Begun /\ told'[k].asked /\ ~told'[k].taken)
        BY <1>4, <1>5, <1>6, <1>9, <3>1
      <3>4. QED
        BY <1>3, <2>1, <2>2, <3>1, <3>2, <3>3 DEF UnderWay
    <2>9. QED
      BY <1>5, <2>3, <2>4, <2>5, <2>6, <2>7, <2>8
  <1>10. QED
    BY <1>8, <1>9

-----------------------------------------------------------------------------
(***************************************************************************)
(* The theorems.                                                           *)
(***************************************************************************)
LEMMA Starts ==
  ASSUME Init
  PROVE  IInv
  <1>1. /\ rxBuf = <<>> /\ execBuf = <<>> /\ todo = <<>> /\ heard = <<>> /\ told = <<>> /\ calling = FALSE
    BY DEF Init
  <1>2. <<>> \in Seq(Byte) /\ <<>> \in Seq(Callbacks) /\ Len(<<>>) = 0
    BY EmptySeq
  <1>3. TypeOK
    <2>1. 0 < MaxPacketLen
      BY AdlcAssumption DEF AdlcAssumption
    <2>2. /\ rxBuf \in Seq(Byte) /\ execBuf \in Seq(Byte) /\ todo \in Seq(Byte) /\ heard \in Seq(Byte)
          /\ Len(rxBuf) = 0 /\ Len(execBuf) = 0 /\ calling \in BOOLEAN
      BY <1>1, <1>2
    <2>3. told \in Seq(Callbacks)
      BY <1>1, <1>2
    <2>4. QED
      BY <2>1, <2>2, <2>3 DEF TypeOK, Callbacks
  <1>4. Scanned = 0
    BY <1>1, <1>2 DEF Scanned
  <1>5. Placed /\ Waits /\ UnderWay /\ NoneEmpty /\ ToldRuns /\ Handed /\ Asked
    BY <1>1, <1>2, <1>4 DEF Placed, Waits, UnderWay, NoneEmpty, ToldRuns, Handed, Asked
  <1>6. QED
    BY <1>3, <1>5 DEF IInv

LEMMA StepKeeps ==
  ASSUME IInv, [Next]_vars
  PROVE  IInv'
  <1>1. CASE UNCHANGED vars
    BY <1>1 DEF vars, IInv, TypeOK, Placed, Waits, UnderWay, NoneEmpty, ToldRuns, Handed, Asked, Scanned, Begun,
                IsRun, Last, Done, EndsBy
  <1>2. CASE \E chunk \in Chunks : OnData(chunk)
    BY <1>2, OnDataKeeps
  <1>3. CASE Run
    BY <1>3, GarbageKeeps, CollectKeeps, ReleaseKeeps, HeadFlagKeeps, ReturnEmptyKeeps, AskKeeps DEF Run
  <1>4. QED
    BY <1>1, <1>2, <1>3 DEF Next

\* The invariant: both buffers stay below MaxPacketLen, so that a byte can always be added
\* (ez_adlc.c:93, 136), the packet under way is the run at the end of what is scanned, and every FLAG
\* is done or under way.
THEOREM ReceiverInvariant == Spec => []IInv
  <1>1. Init => IInv
    BY Starts
  <1>2. IInv /\ [Next]_vars => IInv'
    BY StepKeeps
  <1>3. QED
    BY <1>1, <1>2, PTL DEF Spec

\* Every callback is given a run of the line as it came and in its order, however the line is cut and
\* whatever the callback answers (ez_adlc.c:85-141).
THEOREM RunsAreTold == Spec => []ToldRuns
  <1>1. IInv => ToldRuns
    BY DEF IInv
  <1>2. QED
    BY <1>1, ReceiverInvariant, PTL

\* No packet the scan is past is lost: the end of a packet is known from the line alone, and the one
\* callback that ended there was given all of it (ez_adlc.c:85-141).
THEOREM PacketsAreHandedOver == Spec => []NoPacketLost
  <1>1. ASSUME IInv, NEW p \in 1..Scanned, NEW q \in p..Scanned, IsRun(p, q), EndsBy(p, q)
        PROVE  \E k \in 1..Len(told) :
                 told[k].at = p /\ (Last(k) = q \/ (told[k].asked /\ told[k].taken))
    <2>1. heard[p] = FLAG /\ q < p + MaxPacketLen /\ \A r \in (p + 1)..q : heard[r] # FLAG
      BY <1>1 DEF IsRun
    <2>2. Scanned \in Int /\ MaxPacketLen \in Nat /\ p \in Nat /\ q \in Nat /\ p <= q
      BY <1>1, Lengths, AdlcAssumption DEF IInv, AdlcAssumption
    <2>3. CASE execBuf # <<>> /\ p = Begun
      <3>1. /\ Len(execBuf) \in 1..MaxPacketLen - 1 /\ p + Len(execBuf) = Scanned + 1
            /\ \A r \in (p + 1)..Scanned : heard[r] # FLAG
        BY <1>1, <2>3, RunUnderWay
      <3>2. q # p + MaxPacketLen - 1
        BY <2>2, <3>1
      <3>3. q < Scanned /\ heard[q + 1] = FLAG
        BY <1>1, <3>2 DEF EndsBy
      <3>4. q + 1 \in (p + 1)..Scanned
        BY <2>2, <3>3
      <3>5. QED
        BY <3>1, <3>3, <3>4
    <2>4. CASE \E k \in 1..Len(told) : Done(k, p)
      <3>1. PICK k \in 1..Len(told) : Done(k, p)
        BY <2>4
      <3>2. told[k].at = p
        BY <3>1 DEF Done
      <3>3. CASE told[k].asked /\ told[k].taken
        BY <3>2, <3>3
      <3>4. CASE EndsBy(p, Last(k))
        <4>1. Last(k) \in Int /\ IsRun(p, Last(k))
          BY <1>1, <3>2, Lengths DEF IInv, ToldRuns
        <4>2. PICK l : l = Last(k)
          OBVIOUS
        <4>3. l \in Int /\ l < p + MaxPacketLen /\ \A r \in (p + 1)..l : heard[r] # FLAG
          BY <4>1, <4>2 DEF IsRun
        <4>4. l = p + MaxPacketLen - 1 \/ (l < Scanned /\ heard[l + 1] = FLAG)
          BY <3>4, <4>2 DEF EndsBy
        <4>5. q = p + MaxPacketLen - 1 \/ (q < Scanned /\ heard[q + 1] = FLAG)
          BY <1>1 DEF EndsBy
        <4>6. ~(q < l)
          BY <2>2, <4>3, <4>5
        <4>7. ~(l < q)
          <5>1. SUFFICES ASSUME l < q
                         PROVE  FALSE
            OBVIOUS
          <5>2. heard[l + 1] = FLAG
            BY <2>1, <2>2, <4>3, <4>4, <5>1
          <5>3. l >= p
            <6>1. told[k].packet # <<>> /\ told[k].packet \in Seq(Byte) /\ Len(told[k].packet) \in Nat
              BY <1>1, Lengths DEF IInv, NoneEmpty
            <6>2. Len(told[k].packet) # 0
              BY <6>1, EmptySeq
            <6>3. l = p + Len(told[k].packet) - 1
              BY <3>2, <4>2 DEF Last
            <6>4. QED
              BY <2>2, <6>1, <6>2, <6>3
          <5>4. l + 1 \in (p + 1)..q
            BY <2>2, <4>3, <5>1, <5>3
          <5>5. QED
            BY <2>1, <5>2, <5>4
        <4>8. Last(k) = q
          BY <2>2, <4>2, <4>3, <4>6, <4>7
        <4>9. QED
          BY <3>2, <4>8
      <3>5. QED
        BY <3>1, <3>3, <3>4 DEF Done
    <2>5. QED
      BY <1>1, <2>1, <2>3, <2>4 DEF IInv, Handed
  <1>2. IInv => NoPacketLost
    BY <1>1 DEF NoPacketLost
  <1>3. QED
    BY <1>2, ReceiverInvariant, PTL

\* Between calls every FLAG of the line has been offered to the callback: the safety part of
\* OfferedInTime (ez_adlc.c:115-141).
THEOREM EverythingIsOffered ==
  Spec => [](~calling => \A p \in 1..Scanned :
               heard[p] = FLAG => \E k \in 1..Len(told) : told[k].at = p)
  <1>1. IInv => (~calling => \A p \in 1..Scanned :
                  heard[p] = FLAG => \E k \in 1..Len(told) : told[k].at = p)
    BY DEF IInv, Handed, Asked, Done
  <1>2. QED
    BY <1>1, ReceiverInvariant, PTL
=============================================================================
