------------------------------ MODULE EzLogProofs ------------------------------
(***************************************************************************)
(* Proofs about the logger, for any threads, calls, settings and numbers   *)
(* of files: the lock excludes, a line is written once, and it goes where  *)
(* log_to says; the files are in the order of what was written, and        *)
(* rotation loses the oldest lines only.                                   *)
(***************************************************************************)
EXTENDS EzLog, TLAPS, SequenceTheorems

-----------------------------------------------------------------------------
(***************************************************************************)
(* The inductive invariant.                                                *)
(***************************************************************************)
Inside == {"make", "toFile", "file", "close", "shift", "toOut", "unlock"}
Kinds == {"L", "file"}

Counted ==
  /\ calls \in [Thread -> Nat] /\ steady \in [Thread -> BOOLEAN] /\ arg = [t \in Thread |-> arg[t]]
  /\ written \in Seq(Line) /\ lost \in SUBSET Line /\ shown \in SUBSET Line

\* Inside a call a thread logs the call it counted last; once made, logstr is that call and no other,
\* for the lock is held.
LogsItsCall ==
  \A t \in Thread :
    /\ pc[t] \in Inside \cup {"lock"} =>
         /\ arg[t].by = t /\ arg[t].no = calls[t] /\ arg[t].no # 0 /\ arg[t].kind \in Kinds
         /\ arg[t] = [by |-> arg[t].by, no |-> arg[t].no, kind |-> arg[t].kind, level |-> arg[t].level]
    /\ pc[t] \in {"toFile", "file", "close", "shift", "toOut"} => logstr = arg[t] /\ arg[t].level \in EMERG..NONE
    /\ pc[t] \in {"toFile", "toOut"} => arg[t].kind = "L"
    /\ pc[t] = "close" => flog
    /\ pc[t] = "shift" => ~flog
    /\ pc[t] = "setTo" => arg[t] \in Settings

\* No line has a number its thread has not counted.
Numbered ==
  /\ \A k \in 1..Len(written) : written[k].no <= calls[written[k].by]
  /\ \A l \in lost : l.no <= calls[l.by]

\* Until log_file has been called for it, a call is neither written nor refused.
NotYet ==
  \A t \in Thread :
    pc[t] \in {"lock", "make", "toFile", "file"} =>
      arg[t] \notin lost /\ \A k \in 1..Len(written) : written[k] # arg[t]

\* Behind log_file the line is where log_to said, behind the call it is printed as well.
Goes(t) ==
  pc[t] \in {"close", "shift", "toOut", "unlock"} /\ arg[t].level \in EMERG..NONE /\ steady[t] =>
    /\ arg[t].kind = "file" \/ logTo \in {"FILE", "FILE_AND_STDOUT"} =>
         (\E k \in 1..Len(written) : written[k] = arg[t]) \/ arg[t] \in lost \/ arg[t] \in shown
    /\ pc[t] = "unlock" /\ arg[t].kind = "L" /\ logTo \in {"STDOUT", "FILE_AND_STDOUT"} => arg[t] \in shown

\* A line is written once, and none that stdio has lost.
Once ==
  /\ \A j, k \in 1..Len(written) : written[j] = written[k] => j = k
  /\ \A k \in 1..Len(written) : written[k] \notin lost

IInv == TypeOK /\ Counted /\ LogsItsCall /\ Numbered /\ NotYet /\ Once /\ \A t \in Thread : Goes(t)

-----------------------------------------------------------------------------
(***************************************************************************)
(* Where the threads are, and who holds the lock.                          *)
(***************************************************************************)
LEMMA GotoMoves ==
  ASSUME TypeOK, NEW t \in Thread, NEW label \in Labels, Goto(t, label)
  PROVE  /\ pc' \in [Thread -> Labels] /\ pc'[t] = label
         /\ \A u \in Thread : u # t => pc'[u] = pc[u]
  BY DEF Goto, TypeOK

\* While one thread is inside no other is.
LEMMA OneInside ==
  ASSUME TypeOK, NEW t \in Thread, pc[t] \in Inside
  PROVE  lock = t /\ \A u \in Thread : u # t => pc[u] \notin Inside
  BY DEF TypeOK, Inside

LEMMA LocksNobody == NoThread \notin Thread
  BY LogAssumption DEF LogAssumption

\* What the calls have left behind stays true when only threads move.
LEMMA LinesAlone ==
  ASSUME Counted, Numbered, Once, UNCHANGED <<written, lost, calls>>
  PROVE  Numbered' /\ Once'
  BY DEF Counted, Numbered, Once

LEMMA CallKeeps ==
  ASSUME IInv, NEW t \in Thread, NEW c \in Calls, Call(t, c)
  PROVE  IInv'
  <1> USE DEF IInv
  <1> DEFINE new == [by |-> t, no |-> calls[t] + 1, kind |-> c.kind, level |-> c.level]
  <1>1. c.kind \in Kinds /\ c.level \in Int
    <2>1. c \in [kind : {"L"}, level : Int] \/ c \in [kind : {"file"}, level : {INFO}]
      BY LogAssumption DEF LogAssumption
    <2>2. QED
      BY <2>1 DEF Kinds, INFO
  <1>2. /\ pc[t] = "idle" /\ calls' = [calls EXCEPT ![t] = @ + 1] /\ arg' = [arg EXCEPT ![t] = new]
        /\ steady' = [steady EXCEPT ![t] = TRUE]
        /\ UNCHANGED pc \/ Goto(t, "lock")
        /\ UNCHANGED <<logLevel, logTo, backups, disk, logstr, lock, ii, shown, lost>>
    BY DEF Call
  <1>3. /\ new.by = t /\ new.no = calls[t] + 1 /\ new.kind = c.kind /\ new.level = c.level
        /\ new = [by |-> new.by, no |-> new.no, kind |-> new.kind, level |-> new.level]
    OBVIOUS
  <1> HIDE DEF new
  <1>4. /\ pc' \in [Thread -> Labels] /\ pc'[t] \in {"idle", "lock"}
        /\ \A u \in Thread : u # t => pc'[u] = pc[u]
    BY <1>2, GotoMoves DEF TypeOK, Labels
  <1>5. /\ arg' = [u \in Thread |-> arg'[u]] /\ arg'[t] = new /\ \A u \in Thread : u # t => arg'[u] = arg[u]
    BY <1>2 DEF Counted
  <1>6. /\ calls' \in [Thread -> Nat] /\ calls'[t] = calls[t] + 1 /\ \A u \in Thread : u # t => calls'[u] = calls[u]
        /\ calls[t] \in Nat
    BY <1>2 DEF Counted
  <1>7. /\ steady' \in [Thread -> BOOLEAN] /\ \A u \in Thread : u # t => steady'[u] = steady[u]
    BY <1>2 DEF Counted
  <1>8. \A k \in 1..Len(written) : written[k] \in Line
    BY ElementOfSeq DEF Counted
  <1>9. TypeOK'
    BY <1>2, <1>4 DEF TypeOK, disk, backups
  <1>10. Counted'
    BY <1>2, <1>5, <1>6, <1>7 DEF Counted, disk
  <1>11. LogsItsCall'
    BY <1>1, <1>2, <1>3, <1>4, <1>5, <1>6 DEF LogsItsCall, disk, Inside
  <1>12. Numbered'
    <2>1. \A l \in Line : l.by \in Thread /\ calls[l.by] \in Nat /\ calls'[l.by] \in Nat /\ calls[l.by] <= calls'[l.by] /\ l.no \in Nat
      <3>1. ASSUME NEW u \in Thread
            PROVE  calls[u] \in Nat /\ calls'[u] \in Nat /\ calls[u] <= calls'[u]
        BY <1>6 DEF Counted
      <3>2. QED
        BY <3>1 DEF Line
    <2>2. \A k \in 1..Len(written) : written[k].no <= calls[written[k].by]
      BY DEF Numbered
    <2>3. \A l \in lost : l \in Line /\ l.no <= calls[l.by]
      BY DEF Numbered, Counted
    <2>4. QED
      BY <1>2, <1>8, <2>1, <2>2, <2>3 DEF Numbered, disk
  <1>13. NotYet'
    <2>1. \A l \in Line : l.by = t /\ l.no <= calls[l.by] => l # new
      BY <1>3, <1>6 DEF Line
    <2>2. new \notin lost
      <3>1. \A l \in lost : l \in Line /\ l.no <= calls[l.by]
        BY DEF Numbered, Counted
      <3>2. QED
        BY <1>3, <2>1, <3>1
    <2>3. \A k \in 1..Len(written) : written[k] # new
      BY <1>3, <1>8, <2>1 DEF Numbered
    <2>4. QED
      BY <1>2, <1>4, <1>5, <2>2, <2>3 DEF NotYet, disk
  <1>14. Once'
    BY <1>2 DEF Once, disk
  <1>15. \A u \in Thread : Goes(u)'
    BY <1>2, <1>4, <1>5, <1>7 DEF Goes, disk
  <1>16. QED
    BY <1>9, <1>10, <1>11, <1>12, <1>13, <1>14, <1>15

LEMMA SetLevelKeeps ==
  ASSUME IInv, NEW t \in Thread, NEW s \in Settings, SetLevel(t, s)
  PROVE  IInv'
  <1> USE DEF IInv
  <1>1. s.level \in EMERG..NONE /\ s.to \in Destinations
    <2>1. s \in [level : EMERG..NONE, to : Destinations]
      BY LogAssumption DEF LogAssumption
    <2>2. QED
      BY <2>1
  <1>2. /\ pc[t] = "idle" /\ logLevel' = s.level /\ arg' = [arg EXCEPT ![t] = s] /\ Goto(t, "setTo")
        /\ UNCHANGED <<logTo, steady, backups, disk, logstr, lock, ii, shown, lost, calls>>
    BY DEF SetLevel
  <1>3. /\ pc' \in [Thread -> Labels] /\ pc'[t] = "setTo"
        /\ \A u \in Thread : u # t => pc'[u] = pc[u]
    BY <1>2, GotoMoves DEF Labels
  <1>4. /\ arg' = [u \in Thread |-> arg'[u]] /\ arg'[t] = s /\ \A u \in Thread : u # t => arg'[u] = arg[u]
    BY <1>2 DEF Counted
  <1>5. TypeOK'
    BY <1>1, <1>2, <1>3 DEF TypeOK, disk, backups
  <1>6. Counted'
    BY <1>2, <1>4 DEF Counted, disk
  <1>7. LogsItsCall'
    BY <1>2, <1>3, <1>4 DEF LogsItsCall, disk, Inside
  <1>8. Numbered' /\ Once'
    BY <1>2, LinesAlone DEF disk
  <1>9. NotYet'
    BY <1>2, <1>3, <1>4 DEF NotYet, disk
  <1>10. \A u \in Thread : Goes(u)'
    BY <1>2, <1>3, <1>4 DEF Goes, disk
  <1>11. QED
    BY <1>5, <1>6, <1>7, <1>8, <1>9, <1>10

\* ez_log_set_level may change log_to while another thread logs: its line is no longer steady.
LEMMA SetToKeeps ==
  ASSUME IInv, NEW t \in Thread, SetTo(t)
  PROVE  IInv'
  <1> USE DEF IInv
  <1>1. /\ pc[t] = "setTo" /\ logTo' = arg[t].to /\ steady' = [u \in Thread |-> steady[u] /\ logTo' = logTo]
        /\ Goto(t, "idle")
        /\ UNCHANGED <<logLevel, backups, disk, logstr, lock, arg, ii, shown, lost, counts>>
    BY DEF SetTo
  <1>2. arg[t].to \in Destinations
    <2>1. arg[t] \in [level : EMERG..NONE, to : Destinations]
      BY <1>1, LogAssumption DEF LogsItsCall, LogAssumption
    <2>2. QED
      BY <2>1
  <1>3. /\ pc' \in [Thread -> Labels] /\ pc'[t] = "idle"
        /\ \A u \in Thread : u # t => pc'[u] = pc[u]
    BY <1>1, GotoMoves DEF Labels
  <1>4. TypeOK'
    BY <1>1, <1>2, <1>3 DEF TypeOK, disk, backups
  <1>5. Counted'
    BY <1>1 DEF Counted, disk, counts
  <1>6. LogsItsCall'
    BY <1>1, <1>3 DEF LogsItsCall, disk, counts, Inside
  <1>7. Numbered' /\ Once'
    BY <1>1, LinesAlone DEF disk, counts
  <1>8. NotYet'
    BY <1>1, <1>3 DEF NotYet, disk
  <1>9. \A u \in Thread : Goes(u)'
    BY <1>1, <1>3 DEF Goes, disk
  <1>10. QED
    BY <1>4, <1>5, <1>6, <1>7, <1>8, <1>9

-----------------------------------------------------------------------------
(***************************************************************************)
(* A thread inside a call.                                                 *)
(***************************************************************************)
\* A step that moves one thread on, from the lock or inside it, and writes nothing.
LEMMA MovesOn ==
  ASSUME IInv, NEW t \in Thread, NEW label \in Labels \ {"close", "shift", "setTo", "lock"}, Goto(t, label),
         pc[t] \in Inside \cup {"lock"},
         UNCHANGED <<config, backups, disk, arg, ii, lost, calls>>,
         lock' \in Thread \cup {NoThread},
         label \in Inside => lock' = t,
         \A u \in Thread : u # t /\ pc[u] \in Inside => lock' = u,
         shown \in SUBSET shown', shown' \in SUBSET Line,
         logstr' = logstr \/ \A u \in Thread : u # t => pc[u] \notin Inside,
         label \in {"toFile", "file", "toOut"} => logstr' = arg[t] /\ arg[t].level \in EMERG..NONE,
         label \in {"toFile", "toOut"} => arg[t].kind = "L",
         label \in {"make", "toFile", "file"} => pc[t] \in {"lock", "make", "toFile", "file"},
         Goes(t)'
  PROVE  IInv'
  <1> USE DEF IInv
  <1>1. /\ pc' \in [Thread -> Labels] /\ pc'[t] = label
        /\ \A u \in Thread : u # t => pc'[u] = pc[u]
    BY GotoMoves
  <1>2. TypeOK'
    BY <1>1 DEF TypeOK, config, disk, backups, Inside
  <1>3. Counted'
    BY DEF Counted, config, disk
  <1>4. LogsItsCall'
    BY <1>1 DEF LogsItsCall, disk, Inside, Labels
  <1>5. Numbered' /\ Once'
    BY LinesAlone DEF disk
  <1>6. NotYet'
    BY <1>1 DEF NotYet, disk
  <1>7. \A u \in Thread : Goes(u)'
    <2>1. ASSUME NEW u \in Thread, u # t
          PROVE  Goes(u)'
      BY <1>1, <2>1 DEF Goes, config, disk
    <2>2. QED
      BY <2>1
  <1>8. QED
    BY <1>2, <1>3, <1>4, <1>5, <1>6, <1>7

LEMMA LockKeeps ==
  ASSUME IInv, NEW t \in Thread, Lock(t)
  PROVE  IInv'
  <1>1. /\ pc[t] = "lock" /\ lock = NoThread /\ lock' = t /\ Goto(t, "make")
        /\ UNCHANGED <<config, backups, disk, logstr, arg, ii, shown, lost, counts>>
    BY DEF Lock
  <1>2. \A u \in Thread : pc[u] \notin Inside
    BY <1>1, LocksNobody DEF IInv, TypeOK, Inside
  <1>3. pc'[t] = "make" /\ "make" \in Labels \ {"close", "shift", "setTo", "lock"}
    BY <1>1 DEF IInv, TypeOK, Goto, Labels
  <1>4. Goes(t)'
    BY <1>3 DEF Goes
  <1>5. shown' = shown /\ shown \in SUBSET Line
    BY <1>1 DEF IInv, Counted
  <1>6. QED
    BY <1>1, <1>2, <1>3, <1>4, <1>5, MovesOn DEF counts

LEMMA MkLogKeeps ==
  ASSUME IInv, NEW t \in Thread, MkLog(t)
  PROVE  IInv'
  <1>1. /\ pc[t] = "make" /\ UNCHANGED <<config, backups, disk, lock, arg, ii, shown, lost, counts>>
        /\ \/ arg[t].level \in EMERG..NONE /\ logstr' = arg[t] /\ arg[t].kind = "file" /\ Goto(t, "file")
           \/ arg[t].level \in EMERG..NONE /\ logstr' = arg[t] /\ arg[t].kind # "file" /\ Goto(t, "toFile")
           \/ arg[t].level \notin EMERG..NONE /\ Goto(t, "unlock") /\ UNCHANGED logstr
    <2>1. CASE arg[t].level \in EMERG..NONE /\ arg[t].kind = "file"
      BY <2>1 DEF MkLog
    <2>2. CASE arg[t].level \in EMERG..NONE /\ arg[t].kind # "file"
      BY <2>2 DEF MkLog
    <2>3. CASE arg[t].level \notin EMERG..NONE
      BY <2>3 DEF MkLog
    <2>4. QED
      BY <2>1, <2>2, <2>3
  <1>2. lock = t /\ \A u \in Thread : u # t => pc[u] \notin Inside
    BY <1>1, OneInside DEF IInv, Inside
  <1>3. arg[t].kind \in Kinds /\ shown \in SUBSET Line
    BY <1>1 DEF IInv, LogsItsCall, Inside, Counted
  <1>4. {"file", "toFile", "unlock"} \subseteq Labels \ {"close", "shift", "setTo", "lock"}
    BY DEF Labels
  <1>5. CASE arg[t].level \in EMERG..NONE /\ logstr' = arg[t] /\ arg[t].kind = "file" /\ Goto(t, "file")
    <2>1. Goes(t)'
      BY <1>4, <1>5, GotoMoves DEF Goes, IInv
    <2>2. QED
      BY <1>1, <1>2, <1>3, <1>4, <1>5, <2>1, MovesOn DEF counts, Inside
  <1>6. CASE arg[t].level \in EMERG..NONE /\ logstr' = arg[t] /\ arg[t].kind # "file" /\ Goto(t, "toFile")
    <2>1. Goes(t)'
      BY <1>4, <1>6, GotoMoves DEF Goes, IInv
    <2>2. QED
      BY <1>1, <1>2, <1>3, <1>4, <1>6, <2>1, MovesOn DEF counts, Inside, Kinds
  <1>7. CASE arg[t].level \notin EMERG..NONE /\ Goto(t, "unlock") /\ UNCHANGED logstr
    <2>1. Goes(t)'
      BY <1>1, <1>7 DEF Goes
    <2>2. QED
      BY <1>1, <1>2, <1>3, <1>4, <1>7, <2>1, MovesOn DEF counts, Inside
  <1>8. QED
    BY <1>1, <1>5, <1>6, <1>7

LEMMA ToFileKeeps ==
  ASSUME IInv, NEW t \in Thread, ToFile(t)
  PROVE  IInv'
  <1>1. /\ pc[t] = "toFile" /\ UNCHANGED <<config, backups, disk, logstr, lock, arg, ii, shown, lost, counts>>
        /\ \/ Goto(t, "file")
           \/ logTo \notin {"FILE", "FILE_AND_STDOUT"} /\ Goto(t, "toOut")
    BY DEF ToFile
  <1>2. lock = t /\ \A u \in Thread : u # t => pc[u] \notin Inside
    BY <1>1, OneInside DEF IInv, Inside
  <1>3. arg[t].kind = "L" /\ logstr = arg[t] /\ arg[t].level \in EMERG..NONE /\ shown \in SUBSET Line
    BY <1>1 DEF IInv, LogsItsCall, Inside, Counted
  <1>4. {"file", "toOut"} \subseteq Labels \ {"close", "shift", "setTo", "lock"}
    BY DEF Labels
  <1>5. CASE Goto(t, "file")
    <2>1. Goes(t)'
      BY <1>4, <1>5, GotoMoves DEF Goes, IInv
    <2>2. QED
      BY <1>1, <1>2, <1>3, <1>4, <1>5, <2>1, MovesOn DEF counts, Inside
  <1>6. CASE logTo \notin {"FILE", "FILE_AND_STDOUT"} /\ Goto(t, "toOut")
    <2>1. Goes(t)'
      BY <1>1, <1>3, <1>4, <1>6, GotoMoves DEF Goes, IInv, config
    <2>2. QED
      BY <1>1, <1>2, <1>3, <1>4, <1>6, <2>1, MovesOn DEF counts, Inside
  <1>7. QED
    BY <1>1, <1>5, <1>6

LEMMA ToOutKeeps ==
  ASSUME IInv, NEW t \in Thread, ToOut(t)
  PROVE  IInv'
  <1>1. /\ pc[t] = "toOut" /\ Goto(t, "unlock")
        /\ UNCHANGED <<config, backups, disk, logstr, lock, arg, ii, lost, counts>>
        /\ shown' = IF logTo \in {"STDOUT", "FILE_AND_STDOUT"} THEN shown \cup {logstr} ELSE shown
    BY DEF ToOut
  <1>2. lock = t /\ \A u \in Thread : u # t => pc[u] \notin Inside
    BY <1>1, OneInside DEF IInv, Inside
  <1>3. arg[t].kind = "L" /\ logstr = arg[t] /\ arg[t].level \in EMERG..NONE /\ shown \in SUBSET Line
    BY <1>1 DEF IInv, LogsItsCall, Inside, Counted
  <1>4. arg[t] \in Line
    BY <1>1, <1>3 DEF IInv, LogsItsCall, Inside, Counted, Line, Kinds
  <1>5. "unlock" \in Labels \ {"close", "shift", "setTo", "lock"}
    BY DEF Labels
  <1>6. shown \in SUBSET shown' /\ shown' \in SUBSET Line
    BY <1>1, <1>3, <1>4
  <1>7. Goes(t)'
    BY <1>1, <1>3, <1>6 DEF Goes, IInv, config, disk
  <1>8. QED
    BY <1>1, <1>2, <1>5, <1>6, <1>7, MovesOn DEF counts, Inside

LEMMA UnlockKeeps ==
  ASSUME IInv, NEW t \in Thread, Unlock(t)
  PROVE  IInv'
  <1>1. /\ pc[t] = "unlock" /\ lock' = NoThread /\ Goto(t, "idle")
        /\ UNCHANGED <<config, backups, disk, logstr, arg, ii, shown, lost, counts>>
    BY DEF Unlock
  <1>2. lock = t /\ \A u \in Thread : u # t => pc[u] \notin Inside
    BY <1>1, OneInside DEF IInv, Inside
  <1>3. "idle" \in Labels \ {"close", "shift", "setTo", "lock"} /\ "idle" \notin Inside
    BY DEF Labels, Inside
  <1>4. Goes(t)'
    BY <1>1, <1>3, GotoMoves DEF Goes, IInv
  <1>5. shown \in SUBSET shown' /\ shown' \in SUBSET Line
    BY <1>1 DEF IInv, Counted
  <1>6. QED
    BY <1>1, <1>2, <1>3, <1>4, <1>5, MovesOn DEF counts, Inside

-----------------------------------------------------------------------------
(***************************************************************************)
(* log_file.                                                               *)
(***************************************************************************)
LEMMA SomeNumbers ==
  /\ Numbers \subseteq Nat /\ 0 \in Numbers
  /\ \A n \in FileNums, i \in Nat : i < n => i \in Numbers /\ i + 1 \in Numbers
  <1>1. \A n \in FileNums : n \in Nat
    BY LogAssumption DEF LogAssumption
  <1>2. ASSUME NEW n \in FileNums, NEW i \in 0..n
        PROVE  i \in Numbers
    BY <1>2 DEF Numbers
  <1>3. PICK n \in FileNums : TRUE
    BY LogAssumption DEF LogAssumption
  <1>4. 0 \in Numbers
    BY <1>1, <1>2, <1>3
  <1>5. Numbers \subseteq Nat
    BY <1>1 DEF Numbers
  <1>6. ASSUME NEW m \in FileNums, NEW i \in Nat, i < m
        PROVE  i \in Numbers /\ i + 1 \in Numbers
    BY <1>1, <1>2, <1>6
  <1>7. QED
    BY <1>4, <1>5, <1>6

\* The files as functions.
LEMMA Putting ==
  ASSUME NEW fs, NEW i, NEW lines
  PROVE  /\ DOMAIN Put(fs, i, lines) = DOMAIN fs \cup {i} /\ Put(fs, i, lines)[i] = lines
         /\ \A j \in DOMAIN fs : j # i => Put(fs, i, lines)[j] = fs[j]
  BY DEF Put

LEMMA Removing ==
  ASSUME NEW fs, NEW i
  PROVE  /\ DOMAIN Removed(fs, i) = DOMAIN fs \ {i}
         /\ \A j \in DOMAIN fs \ {i} : Removed(fs, i)[j] = fs[j]
  BY DEF Removed

\* Renaming moves files of lines to numbers of files.
LEMMA Renaming ==
  ASSUME NEW i \in Nat, i + 1 \in Numbers, Rename(i),
         DOMAIN files \subseteq Numbers, \A j \in DOMAIN files : files[j] \in Seq(Line)
  PROVE  DOMAIN files' \subseteq Numbers /\ \A j \in DOMAIN files' : files'[j] \in Seq(Line)
  <1>1. CASE i \in DOMAIN files /\ files' = Renamed(i)
    <2>1. files' = Put(Removed(files, i), i + 1, files[i])
      BY <1>1 DEF Renamed
    <2> DEFINE rest == Removed(files, i)
    <2> DEFINE moved == files[i]
    <2>2. files' = Put(rest, i + 1, moved)
      BY <2>1
    <2>3. DOMAIN rest \subseteq DOMAIN files /\ \A j \in DOMAIN rest : rest[j] = files[j]
      BY Removing
    <2>4. moved \in Seq(Line)
      BY <1>1
    <2> HIDE DEF rest, moved
    <2>5. DOMAIN files' = DOMAIN rest \cup {i + 1} /\ files'[i + 1] = moved
          /\ \A j \in DOMAIN rest : j # i + 1 => files'[j] = rest[j]
      BY <2>2 DEF Put
    <2>6. QED
      BY <2>3, <2>4, <2>5
  <1>2. CASE files' = Removed(files, i + 1)
    BY <1>2, Removing, ZenonT(60)
  <1>3. QED
    BY <1>1, <1>2 DEF Rename

\* What one step of log_file leaves behind, when it adds no line but its own to written and moves some from there to lost.
LEMMA FileStepKeeps ==
  ASSUME IInv, NEW t \in Thread, NEW label \in {"file", "close", "shift", "toOut", "unlock"},
         pc[t] \in {"file", "close", "shift"}, label = "file" => pc[t] = "file",
         pc' \in [Thread -> Labels], pc'[t] = label, \A u \in Thread : u # t => pc'[u] = pc[u],
         label = "toOut" => arg[t].kind = "L",
         label = "close" => flog', label = "shift" => ~flog' /\ ii' < logNums,
         ii' \in Nat,
         DOMAIN files' \subseteq Numbers, \A j \in DOMAIN files' : files'[j] \in Seq(Line),
         flog' => 0 \in DOMAIN files' /\ flushed' \in 0..Len(files'[0]),
         UNCHANGED <<config, backups, logstr, lock, arg, calls>>,
         shown \in SUBSET shown', shown' \in SUBSET Line,
         written' \in Seq(Line), lost' \in SUBSET Line,
         \A l \in lost' : l \in lost \/ l = arg[t] \/ \E k \in 1..Len(written) : written[k] = l,
         \A k \in 1..Len(written') : written'[k] = arg[t] \/ (k \in 1..Len(written) /\ written'[k] = written[k]),
         label = "file" => written' = written /\ lost' = lost,
         Once', \A u \in Thread : Goes(u)'
  PROVE  IInv'
  <1> USE DEF IInv
  <1>1. lock = t /\ \A u \in Thread : u # t => pc[u] \notin Inside
    BY OneInside DEF Inside
  <1>2. TypeOK'
    BY <1>1 DEF TypeOK, config, backups, Inside
  <1>3. Counted'
    BY DEF Counted, config
  <1>4. LogsItsCall'
    BY <1>1 DEF LogsItsCall, Inside
  <1>5. arg[t].by = t /\ arg[t].no = calls[t] /\ calls[t] \in Nat
    BY DEF LogsItsCall, Inside, Counted
  <1>6. Numbered'
    <2>1. \A l \in lost' : l.no <= calls'[l.by]
      BY <1>5 DEF Numbered
    <2>2. \A k \in 1..Len(written') : written'[k].no <= calls'[written'[k].by]
      BY <1>5 DEF Numbered
    <2>3. QED
      BY <2>1, <2>2 DEF Numbered
  <1>7. NotYet'
    <2>1. ASSUME NEW u \in Thread, u # t, pc'[u] \in {"lock", "make", "toFile", "file"}
          PROVE  arg[u] # arg[t] /\ arg[u] \notin lost /\ \A k \in 1..Len(written) : written[k] # arg[u]
      <3>1. pc[u] = "lock"
        BY <1>1, <2>1 DEF Inside
      <3>2. arg[u].by = u
        BY <3>1 DEF LogsItsCall
      <3>3. QED
        BY <1>5, <2>1, <3>1, <3>2 DEF NotYet
    <2>2. label = "file" => arg[t] \notin lost' /\ \A k \in 1..Len(written') : written'[k] # arg[t]
      BY DEF NotYet
    <2>3. ASSUME NEW u \in Thread, pc'[u] \in {"lock", "make", "toFile", "file"}
          PROVE  arg'[u] \notin lost' /\ \A k \in 1..Len(written') : written'[k] # arg'[u]
      <3>1. CASE u # t
        BY <2>1, <2>3, <3>1
      <3>2. CASE u = t
        BY <2>2, <2>3, <3>2
      <3>3. QED
        BY <3>1, <3>2
    <2>4. QED
      BY <2>3 DEF NotYet
  <1>8. QED
    BY <1>2, <1>3, <1>4, <1>6, <1>7

\* A file of lines put among the others.
LEMMA PutKeeps ==
  ASSUME NEW i \in Numbers, NEW lines \in Seq(Line), files' = Put(files, i, lines),
         DOMAIN files \subseteq Numbers, \A j \in DOMAIN files : files[j] \in Seq(Line)
  PROVE  /\ DOMAIN files' \subseteq Numbers /\ i \in DOMAIN files' /\ files'[i] = lines
         /\ \A j \in DOMAIN files' : files'[j] \in Seq(Line)
  BY DEF Put

\* Where log_file returns to.
LEMMA AfterFileIs ==
  ASSUME IInv, NEW t \in Thread, pc[t] \in {"file", "close", "shift"}
  PROVE  /\ AfterFile(t) \in {"toOut", "unlock"} /\ AfterFile(t) \in Labels
         /\ AfterFile(t) = "toOut" => arg[t].kind = "L"
         /\ AfterFile(t) = "unlock" => arg[t].kind = "file"
         /\ logstr = arg[t] /\ arg[t] \in Line /\ arg[t].level \in EMERG..NONE
         /\ lock = t /\ \A u \in Thread : u # t => pc[u] \notin Inside
  <1>1. arg[t].kind \in Kinds
    BY DEF IInv, LogsItsCall, Inside
  <1>2. \/ AfterFile(t) = "toOut" /\ arg[t].kind = "L"
        \/ AfterFile(t) = "unlock" /\ arg[t].kind = "file"
    <2>1. CASE arg[t].kind = "file"
      BY <2>1 DEF AfterFile
    <2>2. CASE arg[t].kind # "file"
      <3>1. AfterFile(t) = "toOut"
        BY <2>2 DEF AfterFile
      <3>2. QED
        BY <1>1, <2>2, <3>1 DEF Kinds
    <2>3. QED
      BY <2>1, <2>2
  <1>3. logstr = arg[t] /\ arg[t].level \in EMERG..NONE
    BY DEF IInv, LogsItsCall
  <1>4. arg[t] \in Line
    BY <1>1, <1>3 DEF IInv, LogsItsCall, Inside, Counted, Line, Kinds
  <1>5. lock = t /\ \A u \in Thread : u # t => pc[u] \notin Inside
    BY OneInside DEF IInv, Inside
  <1>6. QED
    BY <1>2, <1>3, <1>4, <1>5 DEF Labels

LEMMA OpenKeeps ==
  ASSUME IInv, NEW t \in Thread, Open(t)
  PROVE  IInv'
  <1> USE DEF IInv
  <1>1. /\ pc[t] = "file"
        /\ UNCHANGED <<config, backups, logstr, lock, arg, ii, written, lost, calls>>
    BY DEF Open
  <1>2. FileAt(0) \in Seq(Line) /\ Len(FileAt(0)) \in Nat
    <2>1. FileAt(0) \in Seq(Line)
      BY EmptySeq DEF FileAt, TypeOK
    <2>2. QED
      BY <2>1, LenProperties
  <1>3. logstr = arg[t] /\ arg[t] \in Line /\ shown \in SUBSET Line /\ ii \in Nat
        /\ written \in Seq(Line) /\ lost \in SUBSET Line
    BY <1>1, AfterFileIs DEF Counted, TypeOK
  <1>4. Once'
    BY <1>1, LinesAlone
  <1>5. CASE flog' = TRUE /\ flushed' = Len(FileAt(0)) /\ files' = Put(files, 0, FileAt(0)) /\ UNCHANGED <<pc, shown>>
    <2>1. /\ DOMAIN files' \subseteq Numbers /\ 0 \in DOMAIN files' /\ files'[0] = FileAt(0)
          /\ \A j \in DOMAIN files' : files'[j] \in Seq(Line)
      BY <1>2, <1>5, PutKeeps, SomeNumbers DEF TypeOK
    <2>2. pc' \in [Thread -> Labels]
      BY <1>5 DEF TypeOK
    <2>3. \A u \in Thread : Goes(u)'
      BY <1>1, <1>5 DEF Goes, config
    <2>4. QED
      BY <1>1, <1>2, <1>3, <1>4, <1>5, <2>1, <2>2, <2>3, FileStepKeeps
  <1>6. CASE shown' = shown \cup {logstr} /\ Goto(t, AfterFile(t)) /\ UNCHANGED <<flog, flushed, files>>
    <2>1. /\ pc' \in [Thread -> Labels] /\ pc'[t] = AfterFile(t)
          /\ \A u \in Thread : u # t => pc'[u] = pc[u]
      BY <1>1, <1>6, AfterFileIs, GotoMoves
    <2>2. arg[t] \in shown' /\ shown \in SUBSET shown' /\ shown' \in SUBSET Line
      BY <1>3, <1>6
    <2>3. ASSUME NEW u \in Thread
          PROVE  Goes(u)'
      BY <1>1, <2>1, <2>2 DEF Goes, config
    <2>4. /\ flog' => 0 \in DOMAIN files' /\ flushed' \in 0..Len(files'[0])
          /\ DOMAIN files' \subseteq Numbers /\ \A j \in DOMAIN files' : files'[j] \in Seq(Line)
      BY <1>6 DEF TypeOK
    <2>5. AfterFile(t) \in {"toOut", "unlock"} /\ (AfterFile(t) = "toOut" => arg[t].kind = "L")
      BY <1>1, AfterFileIs
    <2>6. QED
      BY <1>1, <1>3, <1>4, <2>1, <2>2, <2>3, <2>4, <2>5, FileStepKeeps
  <1>7. QED
    BY <1>5, <1>6 DEF Open

\* What is left when the buffer of flog is not written out, or only a part of it: file 0 and the record
\* lose lines at their ends.
LEMMA FlushLeaves ==
  ASSUME IInv, UNCHANGED <<files, written>> \/ (flog /\ \E n \in flushed..Len(files[0]) : Cut(n))
  PROVE  /\ DOMAIN files' = DOMAIN files /\ \A j \in DOMAIN files' : files'[j] \in Seq(Line)
         /\ written' \in Seq(Line) /\ Len(written') \in Nat /\ Len(written') <= Len(written)
         /\ \A k \in 1..Len(written') : k \in 1..Len(written) /\ written'[k] = written[k]
  <1> USE DEF IInv
  <1>1. written \in Seq(Line) /\ Len(written) \in Nat /\ \A k \in 1..Len(written) : written[k] \in Line
    BY LenProperties, ElementOfSeq DEF Counted
  <1>2. CASE UNCHANGED <<files, written>>
    BY <1>1, <1>2 DEF TypeOK
  <1>3. ASSUME flog, NEW n \in flushed..Len(files[0]), Cut(n)
        PROVE  /\ DOMAIN files' = DOMAIN files /\ \A j \in DOMAIN files' : files'[j] \in Seq(Line)
               /\ written' \in Seq(Line) /\ Len(written') \in Nat /\ Len(written') <= Len(written)
               /\ \A k \in 1..Len(written') : k \in 1..Len(written) /\ written'[k] = written[k]
    <2>1. 0 \in DOMAIN files /\ files[0] \in Seq(Line) /\ flushed \in 0..Len(files[0])
      BY <1>3 DEF TypeOK
    <2>2. Len(files[0]) \in Nat /\ \A k \in 1..Len(files[0]) : files[0][k] \in Line
      BY <2>1, LenProperties, ElementOfSeq
    <2>3. n \in 0..Len(files[0])
      BY <2>1, <2>2
    <2> DEFINE f == SubSeq(files[0], 1, n)
               m == Len(written) - (Len(files[0]) - n)
    <2>4. f \in Seq(Line)
      BY <2>1, <2>2, <2>3, SubSeqProperties
    <2>5. files' = Put(files, 0, f) /\ written' = SubSeq(written, 1, m)
      BY <1>3 DEF Cut
    <2>6. m \in Int /\ m <= Len(written)
      BY <1>1, <2>2, <2>3
    <2> HIDE DEF f, m
    <2>7. DOMAIN files' = DOMAIN files /\ \A j \in DOMAIN files' : files'[j] \in Seq(Line)
      BY <2>1, <2>4, <2>5 DEF Put, TypeOK
    <2>8. /\ written' \in Seq(Line) /\ Len(written') = IF 1 <= m THEN m - 1 + 1 ELSE 0
          /\ \A k \in 1..m - 1 + 1 : written'[k] = written[1 + k - 1]
      <3>1. \A k \in 1..m : written[k] \in Line
        BY <1>1, <2>6
      <3>2. QED
        BY <2>5, <2>6, <3>1, SubSeqProperties
    <2>9. Len(written') = (IF 1 <= m THEN m ELSE 0) /\ \A k \in 1..m : written'[k] = written[k]
      BY <2>6, <2>8
    <2>10. QED
      BY <1>1, <2>6, <2>7, <2>8, <2>9
  <1>4. QED
    BY <1>2, <1>3

\* The lines that stdio has lost are those the record has lost.
LEMMA MissingAre ==
  ASSUME IInv, written' \in Seq(Line),
         \A k \in 1..Len(written') : k \in 1..Len(written) /\ written'[k] = written[k]
  PROVE  /\ \A l \in Missing : l \in Line /\ \E k \in 1..Len(written) : written[k] = l
         /\ \A k \in 1..Len(written') : written'[k] \notin Missing
         /\ \A k \in 1..Len(written) : written[k] \in Missing \/ \E j \in 1..Len(written') : written'[j] = written[k]
  <1>1. DOMAIN written = 1..Len(written) /\ DOMAIN written' = 1..Len(written') /\ written \in Seq(Line)
    BY LenProperties DEF IInv, Counted
  <1>2. /\ \A l : l \in Range(written) <=> \E k \in 1..Len(written) : written[k] = l
        /\ \A l : l \in Range(written') <=> \E k \in 1..Len(written') : written'[k] = l
    BY <1>1 DEF Range
  <1>3. \A k \in 1..Len(written) : written[k] \in Line
    BY <1>1, ElementOfSeq
  <1>4. QED
    BY <1>2, <1>3 DEF Missing

\* fprintf or fclose fails: no line is both there and lost.
LEMMA CutKeepsOnce ==
  ASSUME IInv, written' \in Seq(Line),
         \A k \in 1..Len(written') : k \in 1..Len(written) /\ written'[k] = written[k],
         \A l \in lost' : l \in lost \cup Missing \/ \A k \in 1..Len(written) : written[k] # l
  PROVE  Once'
  <1>1. \A k \in 1..Len(written') : written'[k] \notin Missing
    BY MissingAre
  <1>2. QED
    BY <1>1 DEF IInv, Once

LEMMA WriteFailsKeeps ==
  ASSUME IInv, NEW t \in Thread, WriteFails(t)
  PROVE  IInv'
  <1> USE DEF IInv
  <1>1. /\ pc[t] = "file" /\ flog /\ flog' = FALSE /\ lost' = lost \cup {logstr} \cup Missing /\ Goto(t, AfterFile(t))
        /\ \E n \in flushed..Len(files[0]) : Cut(n)
        /\ UNCHANGED <<config, backups, flushed, logstr, lock, arg, ii, shown, calls>>
    BY DEF WriteFails, FlushFails
  <1>2. /\ logstr = arg[t] /\ arg[t] \in Line /\ shown \in SUBSET Line /\ ii \in Nat
        /\ lost \in SUBSET Line
    BY <1>1, AfterFileIs DEF Counted, TypeOK
  <1>3. AfterFile(t) \in {"toOut", "unlock"} /\ (AfterFile(t) = "toOut" => arg[t].kind = "L")
    BY <1>1, AfterFileIs
  <1>4. /\ pc' \in [Thread -> Labels] /\ pc'[t] = AfterFile(t)
        /\ \A u \in Thread : u # t => pc'[u] = pc[u]
    BY <1>1, AfterFileIs, GotoMoves
  <1>5. /\ DOMAIN files' = DOMAIN files /\ \A j \in DOMAIN files' : files'[j] \in Seq(Line)
        /\ written' \in Seq(Line)
        /\ \A k \in 1..Len(written') : k \in 1..Len(written) /\ written'[k] = written[k]
    BY <1>1, FlushLeaves
  <1>6. /\ arg[t] \in lost' /\ lost \in SUBSET lost' /\ lost' \in SUBSET Line
        /\ \A l \in lost' : l \in lost \/ l = arg[t] \/ \E k \in 1..Len(written) : written[k] = l
    BY <1>1, <1>2, <1>5, MissingAre
  <1>7. Once'
    <2>1. \A k \in 1..Len(written) : written[k] # arg[t]
      BY <1>1 DEF NotYet
    <2>2. QED
      BY <1>1, <1>2, <1>5, <2>1, CutKeepsOnce
  <1>8. ASSUME NEW u \in Thread
        PROVE  Goes(u)'
    <2>1. CASE u = t
      BY <1>1, <1>3, <1>4, <1>6, <2>1, AfterFileIs DEF Goes, config
    <2>2. CASE u # t
      <3>1. pc'[u] = pc[u] /\ pc[u] \notin Inside
        BY <1>1, <1>4, <2>2, AfterFileIs
      <3>2. QED
        BY <3>1 DEF Goes, Inside
    <2>3. QED
      BY <2>1, <2>2
  <1>9. DOMAIN files' \subseteq Numbers
    BY <1>5 DEF TypeOK
  <1>10. \A k \in 1..Len(written') : k \in 1..Len(written) /\ written'[k] = written[k]
    BY <1>5
  <1>11. QED
    BY <1>1, <1>2, <1>3, <1>4, <1>5, <1>6, <1>7, <1>8, <1>9, <1>10, FileStepKeeps

\* fclose before the rotation: the line is in the file or lost.
LEMMA CloseKeeps ==
  ASSUME IInv, NEW t \in Thread, Close(t)
  PROVE  IInv'
  <1> USE DEF IInv
  <1>1. /\ pc[t] = "close" /\ flog /\ flog' = FALSE /\ lost' = lost \cup Missing /\ ii' = logNums - 1 /\ Goto(t, "shift")
        /\ UNCHANGED <<files, written>> \/ (flog /\ \E n \in flushed..Len(files[0]) : Cut(n))
        /\ UNCHANGED <<config, backups, flushed, logstr, lock, arg, shown, calls>>
    BY DEF Close, FlushFails, LogsItsCall
  <1>2. arg[t] \in Line /\ shown \in SUBSET Line /\ lost \in SUBSET Line
    BY <1>1, AfterFileIs DEF Counted
  <1>3. ii' \in Nat /\ ii' < logNums
    BY <1>1, LogAssumption DEF LogAssumption, TypeOK
  <1>4. /\ pc' \in [Thread -> Labels] /\ pc'[t] = "shift"
        /\ \A u \in Thread : u # t => pc'[u] = pc[u]
    BY <1>1, GotoMoves DEF Labels
  <1>5. /\ DOMAIN files' = DOMAIN files /\ \A j \in DOMAIN files' : files'[j] \in Seq(Line)
        /\ written' \in Seq(Line)
        /\ \A k \in 1..Len(written') : k \in 1..Len(written) /\ written'[k] = written[k]
    BY <1>1, FlushLeaves
  <1>6. /\ lost \in SUBSET lost' /\ lost' \in SUBSET Line
        /\ \A l \in lost' : l \in lost \/ l = arg[t] \/ \E k \in 1..Len(written) : written[k] = l
    BY <1>1, <1>2, <1>5, MissingAre
  <1>7. Once'
    BY <1>1, <1>5, CutKeepsOnce
  <1>8. ASSUME NEW u \in Thread
        PROVE  Goes(u)'
    <2>1. CASE u = t
      <3>1. (\E k \in 1..Len(written) : written[k] = arg[t]) =>
               (\E k \in 1..Len(written') : written'[k] = arg[t]) \/ arg[t] \in lost'
        <4>1. \A k \in 1..Len(written) : written[k] \in Missing \/ \E j \in 1..Len(written') : written'[j] = written[k]
          BY <1>5, MissingAre
        <4>2. QED
          BY <1>1, <4>1
      <3>2. Goes(t)
        OBVIOUS
      <3>3. QED
        BY <1>1, <1>4, <1>6, <2>1, <3>1, <3>2 DEF Goes, config
    <2>2. CASE u # t
      <3>1. pc'[u] = pc[u] /\ pc[u] \notin Inside
        BY <1>1, <1>4, <2>2, AfterFileIs
      <3>2. QED
        BY <3>1 DEF Goes, Inside
    <2>3. QED
      BY <2>1, <2>2
  <1>9. DOMAIN files' \subseteq Numbers
    BY <1>5 DEF TypeOK
  <1>10. shown \in SUBSET shown' /\ shown' \in SUBSET Line
    BY <1>1, <1>2
  <1>11. QED
    BY <1>1, <1>3, <1>4, <1>5, <1>6, <1>7, <1>8, <1>9, <1>10, FileStepKeeps

LEMMA WriteKeeps ==
  ASSUME IInv, NEW t \in Thread, Write(t)
  PROVE  IInv'
  <1> USE DEF IInv
  <1>1. /\ pc[t] = "file" /\ flog
        /\ files' = Put(files, 0, Append(files[0], logstr)) /\ written' = Append(written, logstr)
        /\ UNCHANGED <<config, backups, flog, flushed, logstr, lock, arg, ii, shown, lost, calls>>
    BY DEF Write, counts
  <1>2. /\ logstr = arg[t] /\ arg[t] \in Line /\ shown \in SUBSET Line /\ ii \in Nat
        /\ written \in Seq(Line) /\ lost \in SUBSET Line
    BY <1>1, AfterFileIs DEF Counted, TypeOK
  <1>3. AfterFile(t) \in {"toOut", "unlock"} /\ (AfterFile(t) = "toOut" => arg[t].kind = "L")
    BY <1>1, AfterFileIs
  <1>4. files[0] \in Seq(Line) /\ flushed \in 0..Len(files[0])
    BY <1>1 DEF TypeOK
  <1>5. Append(files[0], logstr) \in Seq(Line) /\ Len(Append(files[0], logstr)) = Len(files[0]) + 1 /\ Len(files[0]) \in Nat
    BY <1>2, <1>4, AppendProperties, LenProperties
  <1>6. /\ DOMAIN files' \subseteq Numbers /\ 0 \in DOMAIN files' /\ flushed' \in 0..Len(files'[0])
        /\ \A j \in DOMAIN files' : files'[j] \in Seq(Line)
    <2>1. /\ DOMAIN files' \subseteq Numbers /\ 0 \in DOMAIN files' /\ files'[0] = Append(files[0], logstr)
          /\ \A j \in DOMAIN files' : files'[j] \in Seq(Line)
      BY <1>1, <1>5, PutKeeps, SomeNumbers DEF TypeOK
    <2>2. flushed' \in 0..Len(files'[0])
      BY <1>1, <1>4, <1>5, <2>1
    <2>3. QED
      BY <2>1, <2>2
  <1>7. /\ written' \in Seq(Line) /\ Len(written) \in Nat /\ Len(written') = Len(written) + 1
        /\ written'[Len(written) + 1] = arg[t] /\ \A k \in 1..Len(written) : written'[k] = written[k]
    BY <1>1, <1>2, AppendProperties, LenProperties
  <1>8. \A k \in 1..Len(written') : written'[k] = arg[t] \/ (k \in 1..Len(written) /\ written'[k] = written[k])
    <2>1. \A k \in 1..Len(written') : k = Len(written) + 1 \/ k \in 1..Len(written)
      BY <1>7
    <2>2. QED
      BY <1>7, <2>1
  <1>9. \E k \in 1..Len(written') : written'[k] = arg[t]
    BY <1>7
  <1>10. Once'
    <2>1. arg[t] \notin lost /\ \A k \in 1..Len(written) : written[k] # arg[t]
      BY <1>1 DEF NotYet
    <2>2. ASSUME NEW j \in 1..Len(written'), NEW k \in 1..Len(written'), written'[j] = written'[k]
          PROVE  j = k
      <3>1. CASE j \in 1..Len(written) /\ k \in 1..Len(written)
        BY <1>7, <2>2, <3>1 DEF Once
      <3>2. CASE j = Len(written) + 1 \/ k = Len(written) + 1
        BY <1>7, <2>1, <2>2, <3>2
      <3>3. QED
        BY <1>7, <3>1, <3>2
    <2>3. \A k \in 1..Len(written') : written'[k] \notin lost'
      BY <1>1, <1>8, <2>1 DEF Once
    <2>4. QED
      BY <2>2, <2>3 DEF Once
  <1>11. ASSUME NEW label \in {"close", AfterFile(t)}, Goto(t, label)
         PROVE  IInv'
    <2>1. label \in Labels
      BY <1>1, AfterFileIs DEF Labels
    <2>2. /\ pc' \in [Thread -> Labels] /\ pc'[t] = label
          /\ \A u \in Thread : u # t => pc'[u] = pc[u]
      BY <1>11, <2>1, GotoMoves
    <2>3. label \in {"file", "close", "shift", "toOut", "unlock"} /\ label \notin {"file", "shift"}
          /\ (label = "toOut" => arg[t].kind = "L")
      BY <1>3
    <2>4. ASSUME NEW u \in Thread
          PROVE  Goes(u)'
      <3>1. CASE u = t
        <4>1. Goes(t)' <=> (pc'[t] \in {"close", "shift", "toOut", "unlock"} /\ arg[t].level \in EMERG..NONE /\ steady'[t] => 
                 /\ arg[t].kind = "file" \/ logTo \in {"FILE", "FILE_AND_STDOUT"} =>
                      (\E k \in 1..Len(written') : written'[k] = arg[t]) \/ arg[t] \in lost \/ arg[t] \in shown
                 /\ pc'[t] = "unlock" /\ arg[t].kind = "L" /\ logTo \in {"STDOUT", "FILE_AND_STDOUT"} => arg[t] \in shown)
          BY <1>1 DEF Goes, config
        <4>2. pc'[t] = "unlock" => arg[t].kind = "file"
          BY <1>1, <1>11, <2>2, AfterFileIs
        <4>3. "file" # "L"
          OBVIOUS
        <4>4. QED
          BY <1>9, <3>1, <4>1, <4>2, <4>3
      <3>2. CASE u # t
        <4>1. pc'[u] = pc[u] /\ pc[u] \notin Inside
          BY <1>1, <2>2, <3>2, AfterFileIs
        <4>2. QED
          BY <4>1 DEF Goes, Inside
      <3>3. QED
        BY <3>1, <3>2
    <2>5. QED
      BY <1>1, <1>2, <1>3, <1>6, <1>7, <1>8, <1>10, <1>11, <2>2, <2>3, <2>4, FileStepKeeps, SMTT(60)
  <1>12. CASE Len(files[0]) + 1 > LogSize
    BY <1>11, <1>12 DEF Write
  <1>13. CASE ~(Len(files[0]) + 1 > LogSize)
    BY <1>11, <1>13, AfterFileIs DEF Write
  <1>14. QED
    BY <1>12, <1>13

LEMMA ShiftKeeps ==
  ASSUME IInv, NEW t \in Thread, Shift(t)
  PROVE  IInv'
  <1> USE DEF IInv
  <1>1. /\ pc[t] = "shift" /\ Rename(ii)
        /\ UNCHANGED <<config, backups, flog, flushed, written, logstr, lock, arg, shown, lost, calls>>
    BY DEF Shift
  <1>2. /\ arg[t] \in Line /\ shown \in SUBSET Line /\ ii \in Nat /\ ii < logNums
        /\ written \in Seq(Line) /\ lost \in SUBSET Line
    BY <1>1, AfterFileIs DEF Counted, TypeOK
  <1>3. AfterFile(t) \in {"toOut", "unlock"} /\ (AfterFile(t) = "toOut" => arg[t].kind = "L")
    BY <1>1, AfterFileIs
  <1>4. DOMAIN files' \subseteq Numbers /\ \A j \in DOMAIN files' : files'[j] \in Seq(Line)
    BY <1>1, <1>2, SomeNumbers, Renaming DEF TypeOK
  <1>5. flog' = flog /\ ~flog
    BY <1>1 DEF LogsItsCall
  <1>6. Once'
    BY <1>1, LinesAlone
  <1>7. CASE Goto(t, AfterFile(t)) /\ UNCHANGED ii
    <2>1. /\ pc' \in [Thread -> Labels] /\ pc'[t] = AfterFile(t)
          /\ \A u \in Thread : u # t => pc'[u] = pc[u]
      BY <1>1, <1>7, AfterFileIs, GotoMoves
    <2>2. ASSUME NEW u \in Thread
          PROVE  Goes(u)'
      <3>1. pc'[t] = "unlock" => arg[t].kind = "file"
        BY <1>1, <2>1, AfterFileIs
      <3>2. QED
        BY <1>1, <2>1, <3>1 DEF Goes, config
    <2>3. QED
      BY <1>1, <1>2, <1>3, <1>4, <1>5, <1>6, <1>7, <2>1, <2>2, FileStepKeeps
  <1>8. CASE ii # 0 /\ ii' = ii - 1 /\ UNCHANGED pc
    <2>1. ii' \in Nat /\ ii' < logNums
      BY <1>2, <1>8, LogAssumption DEF TypeOK, LogAssumption
    <2>2. pc' \in [Thread -> Labels] /\ pc'[t] = "shift" /\ \A u \in Thread : u # t => pc'[u] = pc[u]
      BY <1>1, <1>8 DEF TypeOK
    <2>3. ASSUME NEW u \in Thread
          PROVE  Goes(u)'
      BY <1>1, <1>8 DEF Goes, config
    <2>4. QED
      BY <1>1, <1>2, <1>4, <1>5, <1>6, <2>1, <2>2, <2>3, FileStepKeeps
  <1>9. QED
    BY <1>7, <1>8 DEF Shift

-----------------------------------------------------------------------------
(***************************************************************************)
(* The process.                                                            *)
(***************************************************************************)
\* Closing the file may lose lines as well.
LEMMA RestructureKeeps ==
  ASSUME IInv, Restructure
  PROVE  IInv'
  <1> USE DEF IInv
  <1>1. /\ flog' = FALSE /\ logNums' \in FileNums /\ \A t \in Thread : pc[t] = "idle"
        /\ lost' = lost \cup Missing
        /\ UNCHANGED <<files, written>> \/ (flog /\ \E n \in flushed..Len(files[0]) : Cut(n))
        /\ UNCHANGED <<config, flushed, logstr, lock, pc, arg, ii, shown, calls>>
    BY DEF Restructure, FlushFails
  <1>2. /\ DOMAIN files' = DOMAIN files /\ \A j \in DOMAIN files' : files'[j] \in Seq(Line)
        /\ written' \in Seq(Line)
        /\ \A k \in 1..Len(written') : k \in 1..Len(written) /\ written'[k] = written[k]
    BY <1>1, FlushLeaves
  <1>3. \A l \in Missing : l \in Line /\ \E k \in 1..Len(written) : written[k] = l
    BY <1>2, MissingAre
  <1>4. TypeOK'
    <2>1. logLevel' = logLevel /\ logTo' = logTo
      BY <1>1 DEF config
    <2>2. \A t \in Thread : pc'[t] \notin {"make", "toFile", "file", "close", "shift", "toOut", "unlock"}
      BY <1>1
    <2>3. QED
      BY <1>1, <1>2, <2>1, <2>2 DEF TypeOK
  <1>5. Counted'
    BY <1>1, <1>2, <1>3 DEF Counted, config
  <1>6. LogsItsCall'
    BY <1>1 DEF LogsItsCall, Inside
  <1>7. Numbered'
    BY <1>1, <1>2, <1>3 DEF Numbered
  <1>8. Once'
    BY <1>1, <1>2, CutKeepsOnce
  <1>9. NotYet' /\ \A t \in Thread : Goes(t)'
    BY <1>1 DEF NotYet, Goes
  <1>10. QED
    BY <1>4, <1>5, <1>6, <1>7, <1>8, <1>9

\* A killed process leaves a prefix of what was written: nothing appears twice.
LEMMA CrashKeeps ==
  ASSUME IInv, Crash
  PROVE  IInv'
  <1> USE DEF IInv
  <1>1. /\ UNCHANGED <<files, written>> \/ (flog /\ \E n \in flushed..Len(files[0]) : Cut(n))
        /\ flog' = FALSE /\ lock' = NoThread /\ logLevel' = NONE /\ logTo' = "STDOUT"
        /\ logNums' \in FileNums /\ pc' = [t \in Thread |-> "idle"]
        /\ UNCHANGED <<steady, flushed, logstr, arg, ii, shown, lost, calls>>
    BY DEF Crash
  <1>2. \A t \in Thread : pc'[t] = "idle"
    BY <1>1
  <1>3. /\ DOMAIN files' = DOMAIN files /\ \A j \in DOMAIN files' : files'[j] \in Seq(Line)
        /\ written' \in Seq(Line)
        /\ \A k \in 1..Len(written') : k \in 1..Len(written) /\ written'[k] = written[k]
    BY <1>1, FlushLeaves
  <1>4. TypeOK'
    BY <1>1, <1>2, <1>3 DEF TypeOK, Labels, Destinations, EMERG, NONE
  <1>5. Counted'
    BY <1>1, <1>3 DEF Counted
  <1>6. LogsItsCall' /\ NotYet' /\ \A t \in Thread : Goes(t)'
    BY <1>2 DEF LogsItsCall, Inside, NotYet, Goes
  <1>7. Numbered'
    BY <1>1, <1>3 DEF Numbered
  <1>8. Once'
    BY <1>1, <1>3 DEF Once
  <1>9. QED
    BY <1>4, <1>5, <1>6, <1>7, <1>8

-----------------------------------------------------------------------------
(***************************************************************************)
(* The theorems.                                                           *)
(***************************************************************************)
LEMMA Starts ==
  ASSUME Init
  PROVE  IInv
  <1> USE DEF IInv
  <1>1. \A t \in Thread : pc[t] = "idle" /\ arg[t] = NoCall
    BY DEF Init
  <1>2. written = << >> /\ lost = {} /\ shown = {} /\ written \in Seq(Line) /\ Len(written) = 0
    BY EmptySeq DEF Init
  <1>3. DOMAIN files = {}
    BY DEF Init
  <1>4. TypeOK
    BY <1>1, <1>3 DEF Init, TypeOK, Labels, Destinations, EMERG, NONE
  <1>5. Counted
    BY <1>2 DEF Init, Counted
  <1>6. LogsItsCall /\ NotYet /\ \A t \in Thread : Goes(t)
    BY <1>1 DEF LogsItsCall, Inside, NotYet, Goes
  <1>7. Numbered /\ Once
    BY <1>2 DEF Numbered, Once
  <1>8. QED
    BY <1>4, <1>5, <1>6, <1>7

LEMMA StepKeeps ==
  ASSUME IInv, [Next]_vars
  PROVE  IInv'
  <1>1. ASSUME NEW t \in Thread, Run(t)
        PROVE  IInv'
    BY <1>1, LockKeeps, MkLogKeeps, ToFileKeeps, ToOutKeeps, UnlockKeeps, OpenKeeps, WriteKeeps,
       WriteFailsKeeps, CloseKeeps, ShiftKeeps, SetToKeeps DEF Run
  <1>2. CASE UNCHANGED vars
    BY <1>2 DEF vars, config, backups, disk, counts, IInv, TypeOK, Counted, LogsItsCall, Numbered, NotYet, Once, Goes
  <1>3. QED
    BY <1>1, <1>2, CallKeeps, SetLevelKeeps, RestructureKeeps, CrashKeeps DEF Next

\* The invariant, for any threads, calls, settings and numbers of files: the lock is held by the one
\* thread that is inside a call, logstr is that thread's line, files hold lines and have numbers up to
\* fnum, and renaming never reaches past them (ez_log.c:161-181).
THEOREM LoggerInvariant == Spec => []IInv
  <1>1. Init => IInv
    BY Starts
  <1>2. IInv /\ [Next]_vars => IInv'
    BY StepKeeps
  <1>3. QED
    BY <1>1, <1>2, PTL DEF Spec

\* No line is written twice or mixed with another thread's, and none is both written and lost, whatever the
\* interleaving of the threads and wherever the process is killed (ez_log.c:86-186).
THEOREM LinesAreWrittenOnce == Spec => []WrittenOnce
  <1>1. IInv => WrittenOnce
    <2>1. SUFFICES ASSUME IInv
                   PROVE  WrittenOnce
      OBVIOUS
    <2>2. DOMAIN written = 1..Len(written)
      BY <2>1, LenProperties DEF IInv, Counted
    <2>3. IsInjective(written)
      BY <2>1, <2>2 DEF IsInjective, IInv, Once
    <2>4. QED
      BY <2>1, <2>3 DEF WrittenOnce, IInv, Once
  <1>2. QED
    BY <1>1, LoggerInvariant, PTL

\* A line that is not filtered is written or printed as log_to says by the time the lock is given back,
\* unless log_to changed on the way or stdio lost it (ez_log.c:98-119, 139-186).
THEOREM LinesGoWhereTheyShould == Spec => []GoesWhereItShould
  <1>1. IInv => GoesWhereItShould
    <2>1. SUFFICES ASSUME IInv, NEW t \in Thread,
                          pc[t] = "unlock" /\ arg[t].level \in EMERG..NONE /\ steady[t]
                   PROVE  /\ arg[t].kind = "file" \/ logTo \in {"FILE", "FILE_AND_STDOUT"} =>
                               Contains(written, arg[t]) \/ arg[t] \in lost \cup shown
                          /\ arg[t].kind = "L" /\ logTo \in {"STDOUT", "FILE_AND_STDOUT"} => arg[t] \in shown
      BY DEF GoesWhereItShould
    <2>2. Goes(t)
      BY <2>1 DEF IInv
    <2>3. (\E k \in 1..Len(written) : written[k] = arg[t]) => Contains(written, arg[t])
      BY DEF Contains
    <2>4. QED
      BY <2>1, <2>2, <2>3 DEF Goes
  <1>2. QED
    BY <1>1, LoggerInvariant, PTL

-----------------------------------------------------------------------------
(***************************************************************************)
(* Which lines the files hold: the second invariant.                       *)
(***************************************************************************)
Shifting == \E t \in Thread : pc[t] = "shift"

\* f is the end of w.
Ends(f, w) == Len(f) <= Len(w) /\ \A k \in 1..Len(f) : w[Len(w) - Len(f) + k] = f[k]

\* The file that is written to holds the last lines: what a crash cuts off the one it cuts off the
\* other.
Tailed == Ends(FileAt(0), written)

\* Renaming has made room for the next: only the first rename can lose a file.
Freed == faults <= 1 /\ Shifting /\ ii + 1 < logNums => ii + 1 \notin DOMAIN files

Dense == \A p \in 1..Len(written) - 1 : written[p] \in Kept => written[p + 1] \in Kept

\* While fnum stays what it was no file is above it, and no line is missing between two that are held.
Gapless == ~renumbered => DOMAIN files \subseteq 0..logNums /\ (faults <= 1 => Dense)

\* The number that renaming has left free.
Hole == IF Shifting THEN ii + 1 ELSE 0

\* The files that no more is written to.
Closed == {i \in DOMAIN files : i # 0 \/ Shifting}

\* Until the process starts again the backups follow one another but for the hole, they are full but for
\* the one that a failing call cut short, and lines have only been rotated out if every backup is there.
Chained ==
  faults <= 1 /\ starts = 0 =>
    /\ ~renumbered
    /\ \A i, j \in Closed : i = j \/ Full(i) \/ Full(j)
    /\ lost = {} => \A i \in Closed : Full(i)
    /\ Shifting => 0 \in DOMAIN files
    /\ \A i \in DOMAIN files : \A j \in 1..i - 1 : j # Hole => j \in DOMAIN files
    /\ Range(written) \subseteq Kept \/ (0..logNums) \ {Hole} \subseteq DOMAIN files

\* A file is closed because it is full.
Closing == \A t \in Thread : pc[t] = "close" => Full(0)

\* Only a failing call loses lines.
Tallied == faults \in Nat /\ starts \in Nat /\ (faults = 0 => lost = {})

OInv == Tallied /\ KeepsOrder /\ Tailed /\ Freed /\ Gapless /\ Chained /\ Closing

-----------------------------------------------------------------------------
Lines(fs) == UNION {Range(fs[i]) : i \in DOMAIN fs}

\* The lines of the files one by one.
LEMMA LinesAre ==
  ASSUME NEW fs, \A i \in DOMAIN fs : fs[i] \in Seq(Line), NEW l
  PROVE  l \in Lines(fs) <=> \E i \in DOMAIN fs : \E k \in 1..Len(fs[i]) : l = fs[i][k]
  <1>1. \A i \in DOMAIN fs : DOMAIN fs[i] = 1..Len(fs[i])
    BY LenProperties
  <1>2. l \in Lines(fs) <=> \E i \in DOMAIN fs : \E k \in DOMAIN fs[i] : l = fs[i][k]
    BY DEF Lines, Range
  <1>3. QED
    BY <1>1, <1>2

\* The lines that are kept, one by one.
LEMMA KeptAre ==
  ASSUME IInv, NEW l
  PROVE  l \in Kept <=> \E i \in DOMAIN files : \E k \in 1..Len(files[i]) : l = files[i][k]
  <1>1. Kept = Lines(files) /\ \A i \in DOMAIN files : files[i] \in Seq(Line)
    BY DEF Kept, Lines, IInv, TypeOK
  <1>2. QED
    BY <1>1, LinesAre

\* What has been written and what the files hold.
LEMMA FileTypes ==
  ASSUME IInv
  PROVE  /\ written \in Seq(Line) /\ Len(written) \in Nat
         /\ \A i \in DOMAIN files : i \in Nat /\ files[i] \in Seq(Line) /\ Len(files[i]) \in Nat
         /\ FileAt(0) \in Seq(Line) /\ Len(FileAt(0)) \in Nat
         /\ logNums \in Nat \ {0} /\ ii \in Nat /\ LogSize \in Nat
         /\ \A j, k \in 1..Len(written) : written[j] = written[k] => j = k
         /\ \A l : l \in Range(written) <=> \E k \in 1..Len(written) : written[k] = l
  <1>1. written \in Seq(Line) /\ Len(written) \in Nat /\ DOMAIN written = 1..Len(written)
    BY LenProperties DEF IInv, Counted
  <1>2. \A i \in DOMAIN files : i \in Nat /\ files[i] \in Seq(Line)
    BY SomeNumbers DEF IInv, TypeOK
  <1>3. \A i \in DOMAIN files : Len(files[i]) \in Nat
    BY <1>2, LenProperties
  <1>4. FileAt(0) \in Seq(Line)
    BY <1>2, EmptySeq DEF FileAt
  <1>5. Len(FileAt(0)) \in Nat
    BY <1>4, LenProperties
  <1>6. logNums \in Nat \ {0} /\ ii \in Nat /\ LogSize \in Nat
    BY LogAssumption DEF LogAssumption, IInv, TypeOK
  <1>7. \A l : l \in Range(written) <=> \E k \in 1..Len(written) : written[k] = l
    BY <1>1 DEF Range
  <1>8. QED
    BY <1>1, <1>2, <1>3, <1>4, <1>5, <1>6, <1>7 DEF IInv, Once

\* Files that keep their order, of which some may go, are in order as long as nothing is written.
LEMMA StaysInOrder ==
  ASSUME IInv, IInv', KeepsOrder, written' = written, NEW src,
         \A j \in DOMAIN files' : Len(files'[j]) = 0 \/ (src[j] \in DOMAIN files /\ files'[j] = files[src[j]]),
         \A j, k \in DOMAIN files' : Len(files'[j]) # 0 /\ Len(files'[k]) # 0 /\ j > k => src[j] > src[k]
  PROVE  KeepsOrder' /\ Kept' \subseteq Kept
  <1>1. ASSUME NEW l \in Kept'
        PROVE  l \in Kept
    <2>1. PICK j \in DOMAIN files' : \E k \in 1..Len(files'[j]) : l = files'[j][k]
      <3>1. Kept' = Lines(files') /\ \A i \in DOMAIN files' : files'[i] \in Seq(Line)
        BY DEF Kept, Lines, IInv, TypeOK
      <3>2. QED
        BY <1>1, <3>1, LinesAre
    <2>2. Len(files'[j]) # 0
      BY <2>1
    <2>3. QED
      BY <2>1, <2>2, KeptAre
  <1>2. ASSUME NEW i \in DOMAIN files', NEW j \in DOMAIN files', NEW k \in 1..Len(files'[i]), NEW m \in 1..Len(files'[j]),
               i > j \/ (i = j /\ k < m)
        PROVE  Before(files'[i][k], files'[j][m])
    <2>1. Len(files'[i]) # 0 /\ Len(files'[j]) # 0
      OBVIOUS
    <2>2. /\ src[i] \in DOMAIN files /\ files'[i] = files[src[i]]
          /\ src[j] \in DOMAIN files /\ files'[j] = files[src[j]]
          /\ src[i] > src[j] \/ (src[i] = src[j] /\ k < m)
      BY <1>2, <2>1
    <2>3. QED
      BY <2>2 DEF KeepsOrder
  <1>3. \A l, m : Before(l, m)' <=> Before(l, m)
    BY DEF Before
  <1>4. Kept' \subseteq Range(written')
    BY <1>1 DEF KeepsOrder
  <1>5. QED
    BY <1>1, <1>2, <1>3, <1>4 DEF KeepsOrder

\* A step that touches neither the files nor their number.
LEMMA FilesAlone ==
  ASSUME OInv, UNCHANGED <<files, written, lost, backups, starts>>, faults' \in Nat, faults <= faults',
         Shifting' <=> Shifting, Shifting => ii' = ii, \A t \in Thread : pc'[t] = "close" => pc[t] = "close"
  PROVE  OInv'
  <1> USE DEF OInv
  <1>1. faults' <= 1 => faults <= 1
    BY DEF Tallied
  <1>2. Kept' = Kept /\ Hole' = Hole /\ Closed' = Closed /\ \A i : Full(i)' <=> Full(i)
    BY DEF Kept, Hole, Closed, Full
  <1>3. Tallied' /\ KeepsOrder'
    <2>1. Tallied'
      BY DEF Tallied
    <2>2. \A l, m : Before(l, m)' <=> Before(l, m)
      BY DEF Before
    <2>3. KeepsOrder'
      BY <1>2, <2>2 DEF KeepsOrder
    <2>4. QED
      BY <2>1, <2>3
  <1>4. Tailed' /\ Freed' /\ Gapless'
    BY <1>1, <1>2 DEF Tailed, FileAt, Freed, Gapless, Dense, backups
  <1>5. Chained'
    BY <1>1, <1>2 DEF Chained, backups
  <1>6. Closing'
    BY <1>2 DEF Closing
  <1>7. QED
    BY <1>3, <1>4, <1>5, <1>6

\* Only log_file begins and ends a rotation.
LEMMA NoRotation ==
  ASSUME TypeOK, NEW t \in Thread, NEW label \in Labels \ {"shift"}, Goto(t, label), pc[t] # "shift"
  PROVE  /\ Shifting' <=> Shifting
         /\ label # "close" => \A u \in Thread : pc'[u] = "close" => pc[u] = "close"
  <1>1. pc'[t] = label /\ \A u \in Thread : u # t => pc'[u] = pc[u]
    BY GotoMoves
  <1>2. QED
    BY <1>1 DEF Shifting

\* A thread of log_file is the only one that can be rotating.
LEMMA OneRotation ==
  ASSUME IInv, NEW t \in Thread, pc[t] \in {"file", "close", "shift"}
  PROVE  /\ Shifting <=> pc[t] = "shift"
         /\ \A u \in Thread : pc[u] = "close" => u = t
  <1>1. \A u \in Thread : u # t => pc[u] # "shift" /\ pc[u] # "close"
    BY OneInside DEF Inside, IInv
  <1>2. QED
    BY <1>1 DEF Shifting

\* fopen makes an empty file if there is none.
LEMMA OpenOrders ==
  ASSUME IInv, IInv', OInv, NEW t \in Thread, Open(t)
  PROVE  OInv'
  <1> USE DEF OInv
  <1>1. pc[t] = "file" /\ UNCHANGED <<backups, ii, written, lost, starts>>
    BY DEF Open
  <1>2. CASE files' = Put(files, 0, FileAt(0)) /\ UNCHANGED <<pc, faults>>
    <2>1. /\ DOMAIN files' = DOMAIN files \cup {0} /\ files'[0] = FileAt(0)
          /\ \A j \in DOMAIN files : files'[j] = files[j]
      <3>1. /\ DOMAIN files' = DOMAIN files \cup {0} /\ files'[0] = FileAt(0)
            /\ \A j \in DOMAIN files : j # 0 => files'[j] = files[j]
        <4> DEFINE f == FileAt(0)
        <4>1. files' = Put(files, 0, f)
          BY <1>2
        <4> HIDE DEF f
        <4>2. /\ DOMAIN files' = DOMAIN files \cup {0} /\ files'[0] = f
              /\ \A j \in DOMAIN files : j # 0 => files'[j] = files[j]
          BY <4>1 DEF Put
        <4>3. QED
          BY <4>2 DEF f
      <3>2. 0 \in DOMAIN files => FileAt(0) = files[0]
        BY DEF FileAt
      <3>3. QED
        BY <3>1, <3>2
    <2>2. 0 \notin DOMAIN files => FileAt(0) = << >> /\ Len(FileAt(0)) = 0
      BY DEF FileAt
    <2>3. ~Shifting /\ ~Shifting' /\ Hole = 0 /\ Hole' = 0
      BY <1>1, <1>2, OneRotation DEF Shifting, Hole
    <2>4. FileAt(0)' = FileAt(0)
      BY <2>1 DEF FileAt
    <2>5. KeepsOrder' /\ Kept' \subseteq Kept
      <3> DEFINE src == [j \in DOMAIN files' |-> j]
      <3>1. \A j \in DOMAIN files' : Len(files'[j]) = 0 \/ (src[j] \in DOMAIN files /\ files'[j] = files[src[j]])
        BY <2>1, <2>2
      <3>2. \A j, k \in DOMAIN files' : Len(files'[j]) # 0 /\ Len(files'[k]) # 0 /\ j > k => src[j] > src[k]
        OBVIOUS
      <3>3. QED
        BY <1>1, <3>1, <3>2, StaysInOrder
    <2>6. Kept \subseteq Kept'
      BY <2>1 DEF Kept
    <2>7. Kept' = Kept
      BY <2>5, <2>6
    <2>8. \A i : i # 0 => (Full(i)' <=> Full(i))
      BY <2>1 DEF Full
    <2>9. logNums' = logNums /\ renumbered' = renumbered
      BY <1>1 DEF backups
    <2>10. Tallied' /\ Tailed' /\ Freed'
      BY <1>1, <1>2, <2>3, <2>4 DEF Tallied, Tailed, Freed
    <2>11. Gapless'
      BY <1>1, <1>2, <2>1, <2>7, <2>9, FileTypes DEF Gapless, Dense
    <2>12. Closed' = Closed /\ \A i \in Closed : Full(i)' <=> Full(i)
      BY <2>1, <2>3, <2>8 DEF Closed
    <2>13. Chained'
      <3>1. SUFFICES ASSUME faults <= 1 /\ starts = 0
                     PROVE  Chained'
        BY <1>1, <1>2 DEF Chained
      <3>2. /\ ~renumbered'
            /\ \A i, j \in Closed' : i = j \/ Full(i)' \/ Full(j)'
            /\ lost' = {} => \A i \in Closed' : Full(i)'
        BY <1>1, <2>9, <2>12, <3>1 DEF Chained
      <3>3. /\ \A i \in DOMAIN files' : \A j \in 1..i - 1 : j # Hole' => j \in DOMAIN files'
            /\ Range(written') \subseteq Kept' \/ (0..logNums') \ {Hole'} \subseteq DOMAIN files'
        BY <1>1, <2>1, <2>3, <2>7, <2>9, <3>1 DEF Chained
      <3>4. QED
        BY <2>3, <3>2, <3>3 DEF Chained
    <2>14. Closing'
      BY <1>1, <1>2, OneRotation DEF Closing
    <2>15. QED
      BY <2>5, <2>10, <2>11, <2>13, <2>14
  <1>3. CASE Fault /\ Goto(t, AfterFile(t)) /\ UNCHANGED <<flog, flushed, files>>
    <2>1. (Shifting' <=> Shifting) /\ \A u \in Thread : pc'[u] = "close" => pc[u] = "close"
      BY <1>1, <1>3, NoRotation, AfterFileIs DEF IInv
    <2>2. QED
      BY <1>1, <1>3, <2>1, FilesAlone DEF Fault, Tallied
  <1>4. QED
    BY <1>2, <1>3 DEF Open

\* The line goes behind all others, in its file and in the record.
LEMMA WrittenLast ==
  ASSUME IInv, NEW t \in Thread, Write(t)
  PROVE  /\ 0 \in DOMAIN files /\ DOMAIN files' = DOMAIN files /\ FileAt(0) = files[0] /\ FileAt(0)' = files'[0]
         /\ \A j \in DOMAIN files : j # 0 => files'[j] = files[j]
         /\ files'[0] \in Seq(Line) /\ Len(files'[0]) = Len(files[0]) + 1 /\ files'[0][Len(files[0]) + 1] = logstr
         /\ \A k \in 1..Len(files[0]) : files'[0][k] = files[0][k]
         /\ written' \in Seq(Line) /\ Len(written') = Len(written) + 1 /\ written'[Len(written) + 1] = logstr
         /\ \A k \in 1..Len(written) : written'[k] = written[k] /\ written[k] # logstr
  <1>1. /\ pc[t] = "file" /\ flog /\ written' = Append(written, logstr)
        /\ files' = Put(files, 0, Append(files[0], logstr))
    BY DEF Write
  <1>2. 0 \in DOMAIN files /\ FileAt(0) = files[0]
    BY <1>1 DEF IInv, TypeOK, FileAt
  <1>3. logstr = arg[t] /\ arg[t] \in Line /\ \A k \in 1..Len(written) : written[k] # arg[t]
    BY <1>1, AfterFileIs DEF IInv, NotYet
  <1>4. files[0] \in Seq(Line) /\ Len(files[0]) \in Nat
    BY <1>2, FileTypes
  <1> DEFINE f == Append(files[0], logstr)
  <1>5. /\ f \in Seq(Line) /\ Len(f) = Len(files[0]) + 1 /\ f[Len(files[0]) + 1] = logstr
        /\ \A k \in 1..Len(files[0]) : f[k] = files[0][k]
    BY <1>3, <1>4, AppendProperties
  <1>6. files' = Put(files, 0, f)
    BY <1>1
  <1> HIDE DEF f
  <1>7. /\ DOMAIN files' = DOMAIN files /\ files'[0] = f
        /\ \A j \in DOMAIN files : j # 0 => files'[j] = files[j]
    BY <1>2, <1>6 DEF Put
  <1>8. FileAt(0)' = files'[0]
    BY <1>2, <1>7 DEF FileAt
  <1>9. /\ written' \in Seq(Line) /\ Len(written') = Len(written) + 1 /\ written'[Len(written) + 1] = logstr
        /\ \A k \in 1..Len(written) : written'[k] = written[k]
    BY <1>1, <1>3, FileTypes, AppendProperties
  <1>10. QED
    BY <1>2, <1>3, <1>5, <1>7, <1>8, <1>9

\* A line more; it may be one too many.
LEMMA WriteOrders ==
  ASSUME IInv, IInv', OInv, NEW t \in Thread, Write(t)
  PROVE  OInv'
  <1> USE DEF OInv
  <1>1. pc[t] = "file" /\ UNCHANGED <<backups, lost, faults, starts>>
    BY DEF Write, counts
  <1>2. logNums' = logNums /\ renumbered' = renumbered
    BY <1>1 DEF backups
  <1>3. ~Shifting /\ Hole = 0
    BY <1>1, OneRotation DEF Hole
  <1> DEFINE n == Len(written)
             m == Len(files[0])
  <1>4. n \in Nat /\ m \in Nat /\ LogSize \in Nat /\ logNums \in Nat \ {0}
    BY WrittenLast, FileTypes
  <1>5. Len(written') = n + 1 /\ Len(files'[0]) = m + 1 /\ written'[n + 1] = logstr /\ files'[0][m + 1] = logstr
    BY WrittenLast
  <1>6. /\ \A k \in 1..n : written'[k] = written[k] /\ written[k] # logstr
        /\ \A k \in 1..m : files'[0][k] = files[0][k]
        /\ m <= n /\ \A k \in 1..m : written[n - m + k] = files[0][k]
    BY WrittenLast DEF Tailed, Ends
  <1> HIDE DEF n, m
  <1>7. \A l : l \in Kept' <=> l \in Kept \/ l = logstr
    <2>1. \A l : l \in Kept <=> \E i \in DOMAIN files : \E k \in 1..Len(files[i]) : l = files[i][k]
      BY KeptAre
    <2>2. \A l : l \in Kept' <=> \E i \in DOMAIN files' : \E k \in 1..Len(files'[i]) : l = files'[i][k]
      <3>1. Kept' = Lines(files') /\ \A i \in DOMAIN files' : files'[i] \in Seq(Line)
        BY DEF Kept, Lines, IInv, TypeOK
      <3>2. QED
        BY <3>1, LinesAre
    <2>3. logstr \in Kept'
      <3>1. 0 \in DOMAIN files' /\ m + 1 \in 1..Len(files'[0])
        BY <1>4, <1>5, WrittenLast
      <3>2. QED
        BY <1>5, <2>2, <3>1
    <2>4. ASSUME NEW l \in Kept
          PROVE  l \in Kept'
      <3>1. PICK i \in DOMAIN files : \E k \in 1..Len(files[i]) : l = files[i][k]
        BY <2>1
      <3>2. PICK k \in 1..Len(files[i]) : l = files[i][k]
        BY <3>1
      <3>3. k \in 1..Len(files'[i]) /\ l = files'[i][k]
        BY <1>4, <1>5, <1>6, <3>2, WrittenLast DEF m
      <3>4. QED
        BY <2>2, <3>3, WrittenLast
    <2>5. ASSUME NEW l \in Kept', l # logstr
          PROVE  l \in Kept
      <3>1. PICK i \in DOMAIN files' : \E k \in 1..Len(files'[i]) : l = files'[i][k]
        BY <2>2
      <3>2. PICK k \in 1..Len(files'[i]) : l = files'[i][k]
        BY <3>1
      <3>3. k \in 1..Len(files[i]) /\ l = files[i][k]
        BY <1>4, <1>5, <1>6, <2>5, <3>2, WrittenLast DEF m
      <3>4. QED
        BY <2>1, <3>3, WrittenLast
    <2>6. QED
      BY <2>3, <2>4, <2>5
  <1>8. \A l : l \in Range(written') <=> l \in Range(written) \/ l = logstr
    <2>1. \A l : l \in Range(written) <=> \E k \in 1..n : written[k] = l
      BY FileTypes DEF n
    <2>2. \A l : l \in Range(written') <=> \E k \in 1..n + 1 : written'[k] = l
      <3>1. DOMAIN written' = 1..n + 1
        BY <1>5, WrittenLast, LenProperties
      <3>2. QED
        BY <3>1 DEF Range
    <2>3. n + 1 \in 1..n + 1 /\ \A k \in 1..n : k \in 1..n + 1
      BY <1>4
    <2>4. \A k \in 1..n + 1 : k = n + 1 \/ k \in 1..n
      BY <1>4
    <2>5. QED
      BY <1>5, <1>6, <2>1, <2>2, <2>3, <2>4
  <1>9. KeepsOrder'
    <2>1. \A l, r : Before(l, r) => Before(l, r)'
      <3>1. ASSUME NEW l, NEW r, NEW p \in 1..n, NEW q \in 1..n, p < q, written[p] = l, written[q] = r
            PROVE  \E a, b \in 1..Len(written') : a < b /\ written'[a] = l /\ written'[b] = r
        <4>1. p \in 1..Len(written') /\ q \in 1..Len(written')
          BY <1>4, <1>5
        <4>2. QED
          BY <1>6, <3>1, <4>1
      <3>2. QED
        BY <3>1 DEF Before, n
    <2>2. ASSUME NEW l \in Range(written)
          PROVE  Before(l, logstr)'
      <3>1. PICK p \in 1..n : written[p] = l
        BY FileTypes DEF n
      <3>2. p \in 1..Len(written') /\ n + 1 \in 1..Len(written') /\ p < n + 1 /\ written'[p] = l
        BY <1>4, <1>5, <1>6, <3>1
      <3>3. \E a, b \in 1..Len(written') : a < b /\ written'[a] = l /\ written'[b] = logstr
        BY <1>5, <3>2
      <3>4. logstr' = logstr
        BY DEF Write
      <3>5. QED
        BY <3>3, <3>4 DEF Before
    <2>3. ASSUME NEW i \in DOMAIN files, NEW k \in 1..Len(files'[i])
          PROVE  \/ k \in 1..Len(files[i]) /\ files'[i][k] = files[i][k]
                 \/ i = 0 /\ k = m + 1 /\ files'[i][k] = logstr
      BY <1>4, <1>5, <1>6, WrittenLast DEF m
    <2>4. ASSUME NEW i \in DOMAIN files', NEW j \in DOMAIN files', NEW k \in 1..Len(files'[i]), NEW r \in 1..Len(files'[j]),
                 i > j \/ (i = j /\ k < r)
          PROVE  Before(files[i][k], files[j][r])' 
      <3>1. i \in DOMAIN files /\ j \in DOMAIN files /\ i \in Nat
        BY WrittenLast, FileTypes
      <3>2. k \in 1..Len(files[i]) /\ files'[i][k] = files[i][k]
        <4>1. CASE i = 0 /\ k = m + 1
          <5>1. i = j /\ k < r
            BY <2>4, <3>1, <4>1, FileTypes
          <5>2. QED
            BY <1>4, <1>5, <4>1, <5>1
        <4>2. QED
          BY <2>3, <3>1, <4>1
      <3>3. CASE r \in 1..Len(files[j]) /\ files'[j][r] = files[j][r]
        <4>1. Before(files[i][k], files[j][r])
          BY <2>4, <3>1, <3>2, <3>3 DEF KeepsOrder
        <4>2. PICK l, h : l = files[i][k] /\ h = files[j][r]
          OBVIOUS
        <4>3. Before(l, h)
          BY <4>1, <4>2
        <4>4. \E a, b \in 1..Len(written') : a < b /\ written'[a] = l /\ written'[b] = h
          BY <2>1, <4>3 DEF Before
        <4>5. QED
          BY <3>2, <3>3, <4>2, <4>4 DEF Before
      <3>4. CASE files'[j][r] = logstr
        <4>1. PICK l : l = files[i][k]
          OBVIOUS
        <4>2. l \in Range(written)
          BY <3>1, <3>2, <4>1, KeptAre DEF KeepsOrder
        <4>3. logstr' = logstr
          BY DEF Write
        <4>4. \E a, b \in 1..Len(written') : a < b /\ written'[a] = l /\ written'[b] = logstr
          BY <2>2, <4>2, <4>3 DEF Before
        <4>5. QED
          BY <3>2, <3>4, <4>1, <4>4 DEF Before
      <3>5. QED
        BY <2>3, <3>1, <3>3, <3>4
    <2>5. Kept' \subseteq Range(written')
      BY <1>7, <1>8 DEF KeepsOrder
    <2>6. QED
      BY <2>4, <2>5 DEF KeepsOrder
  <1>10. Tailed'
    <2>1. m + 1 <= n + 1
      BY <1>4, <1>6
    <2>2. ASSUME NEW k \in 1..m + 1
          PROVE  written'[(n + 1) - (m + 1) + k] = files'[0][k]
      <3>1. CASE k = m + 1
        <4>1. (n + 1) - (m + 1) + k = n + 1
          BY <1>4, <3>1
        <4>2. QED
          BY <1>5, <3>1, <4>1
      <3>2. CASE k \in 1..m
        <4>1. (n + 1) - (m + 1) + k = n - m + k /\ n - m + k \in 1..n
          BY <1>4, <1>6, <3>2
        <4>2. QED
          BY <1>6, <3>2, <4>1
      <3>3. QED
        BY <1>4, <3>1, <3>2
    <2>3. QED
      BY <1>5, <2>1, <2>2, WrittenLast DEF Tailed, Ends
  <1>11. Dense => Dense'
    <2>1. SUFFICES ASSUME Dense, NEW p \in 1..Len(written') - 1, written'[p] \in Kept'
                   PROVE  written'[p + 1] \in Kept'
      BY DEF Dense
    <2>2. p \in 1..n /\ written'[p] = written[p] /\ written[p] # logstr
      BY <1>4, <1>5, <1>6, <2>1
    <2>3. CASE p = n
      BY <1>5, <1>7, <2>3
    <2>4. CASE p # n
      <3>1. p \in 1..n - 1 /\ p + 1 \in 1..n
        BY <1>4, <2>2, <2>4
      <3>2. written[p] \in Kept
        BY <1>7, <2>1, <2>2
      <3>3. written[p + 1] \in Kept
        BY <2>1, <3>1, <3>2 DEF Dense, n
      <3>4. QED
        BY <1>6, <1>7, <3>1, <3>3
    <2>5. QED
      BY <2>3, <2>4
  <1>12. Gapless'
    BY <1>1, <1>2, <1>11, WrittenLast DEF Gapless
  <1>13. Closed' = Closed /\ \A i \in Closed : Full(i)' <=> Full(i)
    <2>1. ~Shifting'
      <3>1. "close" \in Labels \ {"shift"} /\ AfterFile(t) \in Labels \ {"shift"}
        BY <1>1, AfterFileIs DEF Labels
      <3>2. Goto(t, "close") \/ Goto(t, AfterFile(t))
        BY DEF Write
      <3>3. QED
        BY <1>1, <1>3, <3>1, <3>2, NoRotation DEF IInv
    <2>2. QED
      BY <1>3, <2>1, WrittenLast DEF Closed, Full
  <1>14. ~Shifting' /\ Hole' = 0
    <2>1. CASE Goto(t, "close")
      <3>1. ~Shifting'
        BY <1>1, <1>3, <2>1, NoRotation DEF IInv, Labels
      <3>2. QED
        BY <3>1 DEF Hole
    <2>2. CASE Goto(t, AfterFile(t))
      <3>1. ~Shifting'
        BY <1>1, <1>3, <2>2, NoRotation, AfterFileIs DEF IInv
      <3>2. QED
        BY <3>1 DEF Hole
    <2>3. QED
      BY <2>1, <2>2 DEF Write
  <1>15. Freed'
    BY <1>14 DEF Freed
  <1>16. Chained'
    <2>1. SUFFICES ASSUME faults <= 1 /\ starts = 0
                   PROVE  Chained'
      BY <1>1 DEF Chained
    <2>2. /\ ~renumbered'
          /\ \A i, j \in Closed' : i = j \/ Full(i)' \/ Full(j)'
          /\ lost' = {} => \A i \in Closed' : Full(i)'
      BY <1>1, <1>2, <1>13, <2>1 DEF Chained
    <2>3. \A i \in DOMAIN files' : \A j \in 1..i - 1 : j # 0 => j \in DOMAIN files'
      BY <1>3, <2>1, WrittenLast DEF Chained
    <2>4. Range(written') \subseteq Kept' \/ (0..logNums') \ {0} \subseteq DOMAIN files'
      <3>1. CASE Range(written) \subseteq Kept
        BY <1>7, <1>8, <3>1
      <3>2. CASE (0..logNums) \ {Hole} \subseteq DOMAIN files
        BY <1>2, <1>3, <3>2, WrittenLast
      <3>3. QED
        BY <2>1, <3>1, <3>2 DEF Chained
    <2>5. QED
      BY <1>14, <2>2, <2>3, <2>4 DEF Chained
  <1>17. Closing'
    <2>1. ASSUME NEW u \in Thread, pc'[u] = "close"
          PROVE  Full(0)'
      <3>1. CASE m + 1 > LogSize
        BY <1>4, <1>5, <3>1, WrittenLast DEF Full
      <3>2. CASE ~(m + 1 > LogSize)
        <4>1. Goto(t, AfterFile(t))
          BY <3>2 DEF Write, m
        <4>2. pc'[t] = AfterFile(t) /\ \A v \in Thread : v # t => pc'[v] = pc[v]
          BY <1>1, <4>1, AfterFileIs, GotoMoves DEF IInv
        <4>3. AfterFile(t) # "close"
          BY <1>1, AfterFileIs
        <4>4. u = t
          BY <1>1, <2>1, <4>2, OneRotation
        <4>5. QED
          BY <2>1, <4>2, <4>3, <4>4
      <3>3. QED
        BY <3>1, <3>2
    <2>2. QED
      BY <2>1 DEF Closing
  <1>18. QED
    BY <1>1, <1>9, <1>10, <1>12, <1>15, <1>16, <1>17 DEF Tallied

\* What one renaming does to the files: all but the one that makes room are still there, in their order,
\* and unless it fails twice the number it was called for is free.
LEMMA RenamingMoves ==
  ASSUME NEW i \in Nat, Rename(i), \A j \in DOMAIN files : j \in Nat
  PROVE  \E src :
           /\ \A j \in DOMAIN files' : /\ src[j] \in DOMAIN files /\ files'[j] = files[src[j]]
                                       /\ src[j] = j \/ (j = i + 1 /\ src[j] = i)
           /\ \A j, k \in DOMAIN files' : j > k => src[j] > src[k]
           /\ \A a \in DOMAIN files : a # i + 1 => \E j \in DOMAIN files' : src[j] = a
  <1>1. CASE i \in DOMAIN files /\ files' = Renamed(i)
    <2> DEFINE src == [j \in DOMAIN files' |-> IF j = i + 1 THEN i ELSE j]
    <2> DEFINE rest == Removed(files, i)
    <2> DEFINE moved == files[i]
    <2>1. files' = Put(rest, i + 1, moved)
      BY <1>1 DEF Renamed
    <2>2. DOMAIN rest = DOMAIN files \ {i} /\ \A j \in DOMAIN rest : rest[j] = files[j]
      BY Removing
    <2> HIDE DEF rest
    <2>3. DOMAIN files' = DOMAIN rest \cup {i + 1} /\ files'[i + 1] = moved
          /\ \A j \in DOMAIN rest : j # i + 1 => files'[j] = rest[j]
      BY <2>1 DEF Put
    <2>4. i + 1 \in DOMAIN files' /\ src[i + 1] = i
      BY <2>3
    <2>5. \A j \in DOMAIN files' : j # i + 1 => src[j] = j /\ j \in DOMAIN files /\ j # i /\ files'[j] = files[j]
      BY <2>2, <2>3
    <2>6. \A j \in DOMAIN files : j # i /\ j # i + 1 => j \in DOMAIN files'
      BY <2>2, <2>3
    <2>7. files'[i + 1] = files[i]
      BY <2>3
    <2> HIDE DEF src, moved
    <2>8. \A j \in DOMAIN files' : src[j] \in DOMAIN files /\ files'[j] = files[src[j]] /\ (src[j] = j \/ (j = i + 1 /\ src[j] = i))
      BY <1>1, <2>4, <2>5, <2>7
    <2>9. \A j, k \in DOMAIN files' : j > k => src[j] > src[k]
      <3>1. \A j \in DOMAIN files' : j \in Nat
        BY <2>5
      <3>2. QED
        BY <2>4, <2>5, <3>1
    <2>10. \A a \in DOMAIN files : a # i + 1 => \E j \in DOMAIN files' : src[j] = a
      BY <2>4, <2>5, <2>6
    <2>11. QED
      BY <2>8, <2>9, <2>10
  <1>2. CASE files' = Removed(files, i + 1)
    <2> DEFINE src == [j \in DOMAIN files' |-> j]
    <2>1. DOMAIN files' = DOMAIN files \ {i + 1} /\ \A j \in DOMAIN files' : files'[j] = files[j]
      BY <1>2 DEF Removed
    <2>2. \A j \in DOMAIN files' : src[j] = j
      OBVIOUS
    <2> HIDE DEF src
    <2>3. \A j \in DOMAIN files' : src[j] \in DOMAIN files /\ files'[j] = files[src[j]] /\ src[j] = j
      BY <2>1, <2>2
    <2>4. \A j, k \in DOMAIN files' : j > k => src[j] > src[k]
      BY <2>2
    <2>5. \A a \in DOMAIN files : a # i + 1 => \E j \in DOMAIN files' : src[j] = a
      BY <2>1, <2>2
    <2>6. QED
      BY <2>3, <2>4, <2>5
  <1>3. QED
    BY <1>1, <1>2 DEF Rename

\* Where the files are behind a renaming that does not fail twice.
LEMMA RenamingFrees ==
  ASSUME NEW i \in Nat, Rename(i), faults \in Nat, faults' <= 1, \A j \in DOMAIN files : j \in Nat
  PROVE  /\ i \notin DOMAIN files' /\ faults' \in Nat /\ faults <= faults'
         /\ i \in DOMAIN files <=> i + 1 \in DOMAIN files'
         /\ i \in DOMAIN files => files'[i + 1] = files[i]
         /\ \A j \in Nat : j # i /\ j # i + 1 => (j \in DOMAIN files' <=> j \in DOMAIN files) /\ (j \in DOMAIN files => files'[j] = files[j])
  <1>1. CASE i \in DOMAIN files /\ files' = Renamed(i) /\ (UNCHANGED faults \/ Fault)
    <2> DEFINE rest == Removed(files, i)
    <2> DEFINE moved == files[i]
    <2>1. files' = Put(rest, i + 1, moved)
      BY <1>1 DEF Renamed
    <2>2. DOMAIN rest = DOMAIN files \ {i} /\ \A j \in DOMAIN rest : rest[j] = files[j]
      BY Removing
    <2>3. faults' \in Nat /\ faults <= faults'
      BY <1>1 DEF Fault
    <2> HIDE DEF rest
    <2>4. DOMAIN files' = DOMAIN rest \cup {i + 1} /\ files'[i + 1] = moved
          /\ \A j \in DOMAIN rest : j # i + 1 => files'[j] = rest[j]
      BY <2>1 DEF Put
    <2>5. i # i + 1
      OBVIOUS
    <2>6. QED
      BY <1>1, <2>2, <2>3, <2>4, <2>5
  <1>2. CASE i \notin DOMAIN files /\ files' = Removed(files, i + 1) /\ UNCHANGED faults
    <2>1. DOMAIN files' = DOMAIN files \ {i + 1} /\ \A j \in DOMAIN files' : files'[j] = files[j]
      BY <1>2 DEF Removed
    <2>2. QED
      BY <1>2, <2>1
  <1>3. CASE faults' = faults + 2
    BY <1>3
  <1>4. QED
    BY <1>1, <1>2, <1>3 DEF Rename

\* A line that was lost is older than every line that is still there.
LEMMA ShiftDense ==
  ASSUME IInv, IInv', OInv, NEW t \in Thread, Shift(t), ~renumbered, faults <= 1, Dense
  PROVE  Dense'
  <1>1. pc[t] = "shift" /\ Rename(ii) /\ written' = written /\ ii \in Nat /\ ii < logNums
    BY FileTypes DEF Shift, IInv, TypeOK
  <1>2. Shifting /\ DOMAIN files \subseteq 0..logNums /\ logNums \in Nat /\ Len(written) \in Nat
    BY <1>1, FileTypes DEF Shifting, OInv, Gapless
  <1>3. PICK src :
           /\ \A j \in DOMAIN files' : /\ src[j] \in DOMAIN files /\ files'[j] = files[src[j]]
                                       /\ src[j] = j \/ (j = ii + 1 /\ src[j] = ii)
           /\ \A j, k \in DOMAIN files' : j > k => src[j] > src[k]
           /\ \A a \in DOMAIN files : a # ii + 1 => \E j \in DOMAIN files' : src[j] = a
    BY <1>1, RenamingMoves, FileTypes
  <1>4. \A l : l \in Kept' <=> \E i \in DOMAIN files' : \E k \in 1..Len(files'[i]) : l = files'[i][k]
    <2>1. Kept' = Lines(files') /\ \A i \in DOMAIN files' : files'[i] \in Seq(Line)
      BY DEF Kept, Lines, IInv, TypeOK
    <2>2. QED
      BY <2>1, LinesAre
  <1>5. SUFFICES ASSUME NEW p \in 1..Len(written) - 1, written[p] \in Kept'
                 PROVE  written[p + 1] \in Kept'
    BY <1>1 DEF Dense
  <1>6. PICK j \in DOMAIN files' : \E k \in 1..Len(files'[j]) : written[p] = files'[j][k]
    BY <1>4, <1>5
  <1>7. PICK k \in 1..Len(files'[j]) : written[p] = files'[j][k]
    BY <1>6
  <1>8. src[j] \in DOMAIN files /\ k \in 1..Len(files[src[j]]) /\ written[p] = files[src[j]][k]
    BY <1>3, <1>7
  <1>9. written[p + 1] \in Kept
    <2>1. written[p] \in Kept
      BY <1>8, KeptAre
    <2>2. QED
      BY <2>1, <1>5 DEF Dense
  <1>10. PICK a \in DOMAIN files : \E r \in 1..Len(files[a]) : written[p + 1] = files[a][r]
    BY <1>9, KeptAre
  <1>11. PICK r \in 1..Len(files[a]) : written[p + 1] = files[a][r]
    BY <1>10
  <1>12. CASE \E b \in DOMAIN files' : src[b] = a
    <2>1. PICK b \in DOMAIN files' : src[b] = a
      BY <1>12
    <2>2. r \in 1..Len(files'[b]) /\ written[p + 1] = files'[b][r]
      BY <1>3, <1>11, <2>1
    <2>3. QED
      BY <1>4, <2>2
  <1>13. CASE ~\E b \in DOMAIN files' : src[b] = a
    <2>1. a = ii + 1
      BY <1>3, <1>13
    <2>2. a = logNums
      BY <1>1, <1>2, <2>1 DEF OInv, Freed
    <2>3. a > src[j]
      <3>1. src[j] # a /\ src[j] \in 0..logNums
        BY <1>2, <1>8, <1>13
      <3>2. QED
        BY <1>2, <2>2, <3>1
    <2>4. Before(written[p + 1], written[p])
      BY <1>8, <1>11, <2>3 DEF OInv, KeepsOrder
    <2>5. PICK x \in 1..Len(written), y \in 1..Len(written) : x < y /\ written[x] = written[p + 1] /\ written[y] = written[p]
      BY <2>4 DEF Before
    <2>6. p \in 1..Len(written) /\ p + 1 \in 1..Len(written)
      BY <1>2
    <2>7. x = p + 1 /\ y = p
      BY <2>5, <2>6, FileTypes
    <2>8. QED
      BY <2>5, <2>7
  <1>14. QED
    BY <1>12, <1>13

\* Until the process starts again, a file is only renamed over another when all are full.
LEMMA ShiftChained ==
  ASSUME IInv, IInv', OInv, NEW t \in Thread, Shift(t), faults' <= 1, faults <= 1, starts = 0,
         ii # 0 => Shifting', Hole' = ii, Shifting' => ii # 0
  PROVE  Chained'
  <1> USE DEF OInv
  <1>1. pc[t] = "shift" /\ Rename(ii) /\ written' = written /\ ii \in Nat /\ ii < logNums
        /\ logNums' = logNums /\ renumbered' = renumbered /\ starts' = 0 /\ lost' = lost
    BY FileTypes DEF Shift, IInv, TypeOK, backups
  <1>2. Shifting /\ Hole = ii + 1 /\ logNums \in Nat /\ LogSize \in Nat
    BY <1>1, FileTypes DEF Shifting, Hole
  <1>3. /\ ii \notin DOMAIN files'
        /\ ii \in DOMAIN files <=> ii + 1 \in DOMAIN files'
        /\ ii \in DOMAIN files => files'[ii + 1] = files[ii]
        /\ \A j \in Nat : j # ii /\ j # ii + 1 => (j \in DOMAIN files' <=> j \in DOMAIN files) /\ (j \in DOMAIN files => files'[j] = files[j])
    BY <1>1, RenamingFrees, FileTypes DEF Tallied
  <1>4. /\ ~renumbered /\ 0 \in DOMAIN files
        /\ \A i, j \in DOMAIN files : i = j \/ Full(i) \/ Full(j)
        /\ lost = {} => \A i \in DOMAIN files : Full(i)
        /\ \A i \in DOMAIN files : \A j \in 1..i - 1 : j # ii + 1 => j \in DOMAIN files
        /\ Range(written) \subseteq Kept \/ (0..logNums) \ {ii + 1} \subseteq DOMAIN files
    BY <1>2 DEF Chained, Closed
  <1>5. \A i \in DOMAIN files' : i \in Nat
    BY FileTypes, SomeNumbers DEF IInv, TypeOK
  <1>6. /\ \A i, j \in DOMAIN files' : i = j \/ Full(i)' \/ Full(j)'
        /\ lost = {} => \A i \in DOMAIN files' : Full(i)'
    <2> DEFINE from(i) == IF i = ii + 1 THEN ii ELSE i
    <2>1. \A i \in DOMAIN files' : from(i) \in DOMAIN files /\ files'[i] = files[from(i)]
      <3>1. ASSUME NEW i \in DOMAIN files'
            PROVE  from(i) \in DOMAIN files /\ files'[i] = files[from(i)]
        <4>1. CASE i = ii + 1
          BY <1>3, <4>1
        <4>2. CASE i # ii + 1
          BY <1>3, <1>5, <4>2
        <4>3. QED
          BY <4>1, <4>2
      <3>2. QED
        BY <3>1
    <2>2. \A i, j \in DOMAIN files' : from(i) = from(j) => i = j
      BY <1>1, <1>3
    <2>3. \A i \in DOMAIN files' : Full(from(i)) => Full(i)'
      BY <2>1 DEF Full
    <2> HIDE DEF from
    <2>4. QED
      BY <1>4, <2>1, <2>2, <2>3
  <1>7. Shifting' => 0 \in DOMAIN files'
    BY <1>1, <1>3, <1>4
  <1>8. ASSUME NEW i \in DOMAIN files', NEW j \in 1..i - 1, j # ii
        PROVE  j \in DOMAIN files'
    <2>1. i \in Nat /\ j \in Nat /\ j < i /\ 1 <= j
      BY <1>5
    <2>2. CASE j = ii + 1
      <3>1. i # ii /\ i # ii + 1 /\ i \in DOMAIN files
        BY <1>1, <1>3, <2>1, <2>2
      <3>2. ii = 0 \/ ii \in 1..i - 1
        BY <1>1, <2>1, <2>2
      <3>3. ii \in DOMAIN files
        <4>1. ii # ii + 1
          BY <1>1
        <4>2. QED
          BY <1>4, <3>1, <3>2, <4>1
      <3>4. QED
        BY <1>3, <2>2, <3>3
    <2>3. CASE j # ii + 1
      <3>1. CASE i = ii + 1
        <4>1. ii \in DOMAIN files /\ j \in 1..ii - 1
          BY <1>1, <1>3, <1>8, <2>1, <3>1
        <4>2. j \in DOMAIN files
          BY <1>4, <2>3, <4>1
        <4>3. QED
          BY <1>3, <1>8, <2>1, <2>3, <4>2
      <3>2. CASE i # ii + 1
        <4>1. i \in DOMAIN files
          BY <1>3, <2>1, <3>2
        <4>2. j \in DOMAIN files
          BY <1>4, <2>3, <4>1
        <4>3. QED
          BY <1>3, <1>8, <2>1, <2>3, <4>2
      <3>3. QED
        BY <3>1, <3>2
    <2>4. QED
      BY <2>2, <2>3
  <1>9. Range(written') \subseteq Kept' \/ (0..logNums) \ {ii} \subseteq DOMAIN files'
    <2>1. CASE \A i \in (0..logNums) \ {ii} : i \in DOMAIN files'
      BY <2>1
    <2>2. CASE ~\A i \in (0..logNums) \ {ii} : i \in DOMAIN files'
      <3>1. ii + 1 \in DOMAIN files => \A i \in 0..logNums : i # ii + 1 => i \in DOMAIN files
        <4>1. SUFFICES ASSUME ii + 1 \in DOMAIN files, NEW i \in 0..logNums, i # ii + 1
                       PROVE  i \in DOMAIN files
          OBVIOUS
        <4>2. ii + 1 = logNums
          BY <1>1, <1>2, <4>1 DEF Freed
        <4>3. i = 0 \/ i \in 1..(ii + 1) - 1
          BY <1>1, <4>1, <4>2
        <4>4. QED
          BY <1>4, <4>1, <4>3
      <3>2. ~\A i \in (0..logNums) \ {ii + 1} : i \in DOMAIN files
        <4>1. SUFFICES ASSUME \A i \in (0..logNums) \ {ii + 1} : i \in DOMAIN files
                       PROVE  \A i \in (0..logNums) \ {ii} : i \in DOMAIN files'
          BY <2>2
        <4>2. ii \in DOMAIN files
          BY <1>1, <1>2, <4>1
        <4>3. TAKE i \in (0..logNums) \ {ii}
        <4>4. CASE i = ii + 1
          BY <1>3, <4>2, <4>4
        <4>5. CASE i # ii + 1
          BY <1>2, <1>3, <4>1, <4>5
        <4>6. QED
          BY <4>4, <4>5
      <3>3. ii + 1 \notin DOMAIN files
        BY <3>1, <3>2
      <3>4. Range(written) \subseteq Kept
        BY <1>4, <3>2
      <3>5. Kept \subseteq Kept'
        <4>1. ASSUME NEW l \in Kept
              PROVE  l \in Kept'
          <5>1. PICK i \in DOMAIN files : l \in Range(files[i])
            BY <4>1 DEF Kept
          <5>2. i \in Nat /\ i # ii + 1
            BY <3>3, FileTypes
          <5>3. PICK j \in DOMAIN files' : files'[j] = files[i]
            BY <1>3, <5>1, <5>2
          <5>4. QED
            BY <5>1, <5>3 DEF Kept
        <4>2. QED
          BY <4>1
      <3>6. QED
        BY <1>1, <3>4, <3>5
    <2>3. QED
      BY <2>1, <2>2
  <1>10. /\ \A i, j \in Closed' : i = j \/ Full(i)' \/ Full(j)'
         /\ lost' = {} => \A i \in Closed' : Full(i)'
    BY <1>1, <1>6 DEF Closed
  <1>11. QED
    BY <1>1, <1>4, <1>7, <1>8, <1>9, <1>10 DEF Chained

\* One renaming keeps the order, the end and the chain.
LEMMA ShiftOrders ==
  ASSUME IInv, IInv', OInv, NEW t \in Thread, Shift(t)
  PROVE  OInv'
  <1> USE DEF OInv
  <1>1. /\ pc[t] = "shift" /\ Rename(ii) /\ written' = written /\ ii \in Nat /\ ii < logNums /\ logNums \in Nat
        /\ logNums' = logNums /\ renumbered' = renumbered /\ starts' = starts /\ lost' = lost
    BY FileTypes DEF Shift, IInv, TypeOK, backups
  <1>2. faults \in Nat /\ faults' \in Nat /\ faults <= faults'
    <2>1. faults \in Nat
      BY DEF Tallied
    <2>2. faults' = faults \/ faults' = faults + 1 \/ faults' = faults + 2
      BY <1>1 DEF Rename, Fault
    <2>3. QED
      BY <2>1, <2>2
  <1>3. Hole' = ii /\ (Shifting' <=> ii # 0) /\ (Shifting' => ii' + 1 = ii)
    <2>1. CASE ii = 0 /\ Goto(t, AfterFile(t))
      <3>1. pc'[t] = AfterFile(t) /\ \A u \in Thread : u # t => pc'[u] = pc[u]
        BY <1>1, <2>1, AfterFileIs, GotoMoves DEF IInv
      <3>2. \A u \in Thread : u # t => pc[u] # "shift"
        BY <1>1, OneInside DEF Inside, IInv
      <3>3. ~Shifting'
        BY <1>1, <3>1, <3>2, AfterFileIs DEF Shifting
      <3>4. QED
        BY <2>1, <3>3 DEF Hole
    <2>2. CASE ii # 0 /\ ii' = ii - 1 /\ UNCHANGED pc
      <3>1. Shifting' /\ ii' + 1 = ii
        BY <1>1, <2>2 DEF Shifting
      <3>2. QED
        BY <2>2, <3>1 DEF Hole
    <2>3. QED
      BY <2>1, <2>2 DEF Shift
  <1>4. PICK src :
           /\ \A j \in DOMAIN files' : /\ src[j] \in DOMAIN files /\ files'[j] = files[src[j]]
                                       /\ src[j] = j \/ (j = ii + 1 /\ src[j] = ii)
           /\ \A j, k \in DOMAIN files' : j > k => src[j] > src[k]
           /\ \A a \in DOMAIN files : a # ii + 1 => \E j \in DOMAIN files' : src[j] = a
    BY <1>1, RenamingMoves, FileTypes
  <1>5. KeepsOrder'
    BY <1>1, <1>4, StaysInOrder
  <1>6. Tailed'
    <2>1. 0 \in DOMAIN files' => 0 \in DOMAIN files /\ files'[0] = files[0]
      BY <1>1, <1>4
    <2>2. CASE 0 \in DOMAIN files'
      <3>1. FileAt(0)' = FileAt(0)
        BY <2>1, <2>2 DEF FileAt
      <3>2. QED
        BY <1>1, <3>1 DEF Tailed
    <2>3. CASE 0 \notin DOMAIN files'
      <3>1. FileAt(0)' = << >> /\ Len(FileAt(0)') = 0
        BY <2>3 DEF FileAt
      <3>2. Len(written) \in Nat
        BY FileTypes
      <3>3. QED
        BY <1>1, <3>1, <3>2 DEF Tailed, Ends
    <2>4. QED
      BY <2>2, <2>3
  <1>7. Freed'
    <2>1. faults' <= 1 => ii \notin DOMAIN files'
      BY <1>1, <1>2, RenamingFrees, FileTypes
    <2>2. QED
      BY <1>3, <2>1 DEF Freed
  <1>8. Gapless'
    <2>1. SUFFICES ASSUME ~renumbered
                   PROVE  DOMAIN files' \subseteq 0..logNums /\ (faults' <= 1 => Dense')
      BY <1>1 DEF Gapless
    <2>2. DOMAIN files' \subseteq 0..logNums
      BY <1>1, <1>4, <2>1 DEF Gapless
    <2>3. ASSUME faults' <= 1
          PROVE  Dense'
      <3>1. faults <= 1
        BY <1>2, <2>3
      <3>2. QED
        BY <2>1, <3>1, ShiftDense DEF Gapless
    <2>4. QED
      BY <2>2, <2>3
  <1>9. Chained'
    <2>1. CASE faults' <= 1 /\ starts = 0
      <3>1. faults <= 1
        BY <1>2, <2>1
      <3>2. QED
        BY <1>3, <2>1, <3>1, ShiftChained
    <2>2. CASE ~(faults' <= 1 /\ starts = 0)
      BY <1>1, <2>2 DEF Chained
    <2>3. QED
      BY <2>1, <2>2
  <1>10. Closing'
    <2>1. pc'[t] # "close" /\ \A u \in Thread : u # t => pc'[u] = pc[u]
      <3>1. CASE Goto(t, AfterFile(t))
        BY <1>1, <3>1, AfterFileIs, GotoMoves DEF IInv
      <3>2. CASE UNCHANGED pc
        BY <1>1, <3>2
      <3>3. QED
        BY <3>1, <3>2 DEF Shift
    <2>2. QED
      BY <1>1, <2>1, OneRotation DEF Closing
  <1>11. Tallied'
    BY <1>1, <1>2 DEF Tallied
  <1>12. QED
    BY <1>5, <1>6, <1>7, <1>8, <1>9, <1>10, <1>11

\* What is left of the file that was open and of the record: they have lost the same lines.
LEMMA CutLeaves ==
  ASSUME IInv, OInv, UNCHANGED <<files, written>> \/ (flog /\ \E n \in flushed..Len(files[0]) : Cut(n))
  PROVE  \E n \in 0..Len(FileAt(0)) :
           /\ Len(written') = Len(written) - (Len(FileAt(0)) - n) /\ Len(written') \in Nat
           /\ \A k \in 1..Len(written') : k \in 1..Len(written) /\ written'[k] = written[k]
           /\ DOMAIN files' = DOMAIN files
           /\ \A i \in DOMAIN files : i # 0 => files'[i] = files[i]
           /\ Len(FileAt(0)') = n /\ \A k \in 1..n : FileAt(0)'[k] = FileAt(0)[k]
  <1>1. Len(FileAt(0)) \in Nat /\ Len(written) \in Nat /\ Len(FileAt(0)) <= Len(written) /\ written \in Seq(Line)
        /\ FileAt(0) \in Seq(Line)
    BY FileTypes DEF OInv, Tailed, Ends
  <1>2. CASE UNCHANGED <<files, written>>
    <2>1. FileAt(0)' = FileAt(0)
      BY <1>2 DEF FileAt
    <2>2. PICK n \in 0..Len(FileAt(0)) : n = Len(FileAt(0))
      BY <1>1
    <2>3. QED
      BY <1>1, <1>2, <2>1, <2>2
  <1>3. CASE flog /\ \E n \in flushed..Len(files[0]) : Cut(n)
    <2>1. PICK n \in flushed..Len(files[0]) : Cut(n)
      BY <1>3
    <2>2. 0 \in DOMAIN files /\ flushed \in 0..Len(files[0])
      BY <1>3 DEF IInv, TypeOK
    <2>3. FileAt(0) = files[0]
      BY <2>2 DEF FileAt
    <2>4. n \in 0..Len(files[0]) /\ n \in Nat /\ n <= Len(files[0]) /\ Len(files[0]) \in Nat /\ files[0] \in Seq(Line)
      BY <1>1, <2>2, <2>3
    <2>5. PICK m : m = Len(written) - (Len(files[0]) - n)
      OBVIOUS
    <2>6. m \in Nat /\ m <= Len(written) /\ written' = SubSeq(written, 1, m)
      BY <1>1, <2>1, <2>3, <2>4, <2>5 DEF Cut
    <2>7. Len(written') = m /\ \A k \in 1..m : k \in 1..Len(written) /\ written'[k] = written[k]
      <3>1. \A k \in 1..m : k \in 1..Len(written) /\ written[k] \in Line
        BY <1>1, <2>6, ElementOfSeq
      <3>2. /\ Len(SubSeq(written, 1, m)) = IF 1 <= m THEN m - 1 + 1 ELSE 0
            /\ \A k \in 1..m - 1 + 1 : SubSeq(written, 1, m)[k] = written[1 + k - 1]
        BY <2>6, <3>1, SubSeqProperties
      <3>3. Len(written') = (IF 1 <= m THEN m ELSE 0) /\ \A k \in 1..m : written'[k] = written[k]
        BY <2>6, <3>2
      <3>4. QED
        BY <2>6, <3>1, <3>3
    <2> DEFINE f == SubSeq(files[0], 1, n)
    <2>8. Len(f) = n /\ \A k \in 1..n : f[k] = files[0][k]
      <3>1. \A k \in 1..n : files[0][k] \in Line
        BY <2>4, ElementOfSeq
      <3>2. /\ Len(f) = IF 1 <= n THEN n - 1 + 1 ELSE 0
            /\ \A k \in 1..n - 1 + 1 : f[k] = files[0][1 + k - 1]
        BY <2>4, <3>1, SubSeqProperties
      <3>3. QED
        BY <2>4, <3>2
    <2>9. files' = Put(files, 0, f)
      BY <2>1 DEF Cut
    <2> HIDE DEF f
    <2>10. DOMAIN files' = DOMAIN files /\ files'[0] = f /\ \A i \in DOMAIN files : i # 0 => files'[i] = files[i]
      BY <2>2, <2>9 DEF Put
    <2>11. FileAt(0)' = f
      BY <2>2, <2>10 DEF FileAt
    <2>12. QED
      BY <2>3, <2>4, <2>5, <2>6, <2>7, <2>8, <2>10, <2>11
  <1>4. QED
    BY <1>2, <1>3

\* Whoever looks next finds the files in order and, in the record, what they got.
LEMMA CutOrders ==
  ASSUME IInv, IInv', OInv, UNCHANGED <<files, written>> \/ (flog /\ \E n \in flushed..Len(files[0]) : Cut(n))
  PROVE  /\ KeepsOrder' /\ Tailed' /\ (Dense => Dense') /\ DOMAIN files' = DOMAIN files
         /\ \A i \in DOMAIN files : i # 0 => files'[i] = files[i]
         /\ Range(written) \subseteq Kept => Range(written') \subseteq Kept'
         /\ Missing = {} => Len(FileAt(0)') = Len(FileAt(0))
  <1> USE DEF OInv
  <1> DEFINE f == FileAt(0)
             len == Len(f)
  <1>1. PICK n \in 0..len :
           /\ Len(written') = Len(written) - (len - n) /\ Len(written') \in Nat
           /\ \A k \in 1..Len(written') : k \in 1..Len(written) /\ written'[k] = written[k]
           /\ DOMAIN files' = DOMAIN files
           /\ \A i \in DOMAIN files : i # 0 => files'[i] = files[i]
           /\ Len(FileAt(0)') = n /\ \A k \in 1..n : FileAt(0)'[k] = f[k]
    BY CutLeaves
  <1>2. PICK m : m = Len(written')
    OBVIOUS
  <1>3. len \in Nat /\ Len(written) \in Nat /\ len <= Len(written) /\ \A k \in 1..len : written[Len(written) - len + k] = f[k]
    BY FileTypes DEF Tailed, Ends
  <1>4. \A j, k \in 1..Len(written) : written[j] = written[k] => j = k
    BY FileTypes
  <1>5. 0 \in DOMAIN files => f = files[0] /\ FileAt(0)' = files'[0]
    BY <1>1 DEF FileAt
  <1> HIDE DEF f, len
  <1>6. m \in Nat /\ m = Len(written) - len + n /\ m <= Len(written) /\ n \in Nat /\ n <= len
    BY <1>1, <1>2, <1>3
  <1>9. ASSUME NEW i \in DOMAIN files', NEW k \in 1..Len(files'[i])
        PROVE  /\ i \in DOMAIN files /\ k \in 1..Len(files[i]) /\ files'[i][k] = files[i][k]
               /\ \E p \in 1..m : written[p] = files[i][k]
    <2>1. CASE i = 0
      <3>1. 0 \in DOMAIN files /\ k \in 1..n /\ files'[0][k] = files[0][k] /\ f = files[0]
        BY <1>1, <1>5, <1>9, <2>1
      <3>2. k \in 1..len /\ Len(files[0]) = len
        BY <1>6, <3>1 DEF len
      <3>3. PICK p : p = Len(written) - len + k
        OBVIOUS
      <3>4. p \in 1..m /\ written[p] = files[0][k]
        BY <1>3, <1>6, <3>1, <3>2, <3>3
      <3>5. QED
        BY <2>1, <3>1, <3>2, <3>4
    <2>2. CASE i # 0
      <3>1. i \in DOMAIN files /\ files'[i] = files[i] /\ k \in 1..Len(files[i]) /\ i \in Nat
        BY <1>1, <1>9, <2>2, FileTypes
      <3>2. CASE n = len
        <4>1. files[i][k] \in Range(written)
          BY <3>1, KeptAre DEF KeepsOrder
        <4>2. PICK p \in 1..Len(written) : written[p] = files[i][k]
          BY <4>1, FileTypes
        <4>3. QED
          BY <1>6, <3>1, <3>2, <4>2
      <3>3. CASE n < len
        <4>1. 0 \in DOMAIN files
          <5>1. 0 \notin DOMAIN files => len = 0
            BY DEF len, f, FileAt
          <5>2. QED
            BY <1>6, <3>3, <5>1
        <4>2. n + 1 \in 1..Len(files[0]) /\ written[m + 1] = files[0][n + 1]
          <5>1. n + 1 \in 1..len /\ m + 1 = Len(written) - len + (n + 1)
            BY <1>3, <1>6, <3>3
          <5>2. f = files[0] /\ len = Len(files[0])
            BY <1>5, <4>1 DEF len
          <5>3. written[Len(written) - len + (n + 1)] = f[n + 1]
            BY <1>3, <5>1
          <5>4. QED
            BY <5>1, <5>2, <5>3
        <4>3. Before(files[i][k], files[0][n + 1])
          BY <2>2, <3>1, <4>1, <4>2 DEF KeepsOrder
        <4>4. PICK x \in 1..Len(written), y \in 1..Len(written) : x < y /\ written[x] = files[i][k] /\ written[y] = files[0][n + 1]
          BY <4>3 DEF Before
        <4>5. m + 1 \in 1..Len(written)
          BY <1>3, <1>6, <3>3
        <4>6. y = m + 1
          BY <1>4, <4>2, <4>4, <4>5
        <4>7. x \in 1..m
          BY <1>6, <4>4, <4>6
        <4>8. QED
          BY <3>1, <4>4, <4>7
      <3>4. QED
        BY <1>3, <1>6, <3>2, <3>3
    <2>3. QED
      BY <2>1, <2>2
  <1>10. \A l : l \in Kept' <=> \E i \in DOMAIN files' : \E k \in 1..Len(files'[i]) : l = files'[i][k]
    <2>1. Kept' = Lines(files') /\ \A i \in DOMAIN files' : files'[i] \in Seq(Line)
      BY DEF Kept, Lines, IInv, TypeOK
    <2>2. QED
      BY <2>1, LinesAre
  <1>11. ASSUME NEW l \in Kept'
         PROVE  l \in Kept /\ \E p \in 1..m : written'[p] = l
    <2>1. PICK i \in DOMAIN files' : \E k \in 1..Len(files'[i]) : l = files'[i][k]
      BY <1>10, <1>11
    <2>2. PICK k \in 1..Len(files'[i]) : l = files'[i][k]
      BY <2>1
    <2>3. i \in DOMAIN files /\ k \in 1..Len(files[i]) /\ l = files[i][k] /\ \E p \in 1..m : written[p] = l
      BY <1>9, <2>2
    <2>4. QED
      BY <1>1, <1>2, <2>3, KeptAre
  <1>12. KeepsOrder'
    <2>1. Kept' \subseteq Range(written')
      <3>1. DOMAIN written' = 1..m
        BY <1>2, LenProperties DEF IInv, Counted
      <3>2. QED
        BY <1>11, <3>1 DEF Range
    <2>2. ASSUME NEW i \in DOMAIN files', NEW j \in DOMAIN files', NEW k \in 1..Len(files'[i]), NEW r \in 1..Len(files'[j]),
                 i > j \/ (i = j /\ k < r)
          PROVE  Before(files[i][k], files[j][r])'
      <3>1. PICK l, h : l = files[i][k] /\ h = files[j][r]
        OBVIOUS
      <3>2. l = files'[i][k] /\ h = files'[j][r] /\ Before(l, h)
        BY <1>9, <2>2, <3>1 DEF KeepsOrder
      <3>3. PICK p \in 1..m, q \in 1..m : written[p] = l /\ written[q] = h
        BY <1>9, <3>1
      <3>4. PICK x \in 1..Len(written), y \in 1..Len(written) : x < y /\ written[x] = l /\ written[y] = h
        BY <3>2 DEF Before
      <3>5. p \in 1..Len(written) /\ q \in 1..Len(written)
        BY <1>6
      <3>6. x = p /\ y = q
        BY <1>4, <3>3, <3>4, <3>5
      <3>7. \E a, b \in 1..Len(written') : a < b /\ written'[a] = l /\ written'[b] = h
        BY <1>1, <1>2, <3>3, <3>4, <3>6
      <3>8. QED
        BY <3>2, <3>7 DEF Before
    <2>3. QED
      BY <2>1, <2>2 DEF KeepsOrder
  <1>13. Tailed'
    <2>1. n <= m
      BY <1>3, <1>6
    <2>2. ASSUME NEW k \in 1..n
          PROVE  written'[m - n + k] = FileAt(0)'[k]
      <3>1. m - n + k = Len(written) - len + k /\ m - n + k \in 1..m /\ k \in 1..len
        BY <1>3, <1>6
      <3>2. QED
        BY <1>1, <1>2, <1>3, <3>1
    <2>3. QED
      BY <1>1, <1>2, <2>1, <2>2 DEF Tailed, Ends
  <1>14. ASSUME NEW p \in 1..m, written[p] \in Kept
         PROVE  written'[p] \in Kept'
    <2>1. p \in 1..Len(written) /\ written'[p] = written[p]
      BY <1>1, <1>2, <1>6
    <2>2. PICK a \in DOMAIN files : \E r \in 1..Len(files[a]) : written[p] = files[a][r]
      BY <1>14, KeptAre
    <2>3. PICK r \in 1..Len(files[a]) : written[p] = files[a][r]
      BY <2>2
    <2>4. r \in 1..Len(files'[a]) /\ files'[a][r] = files[a][r]
      <3>1. CASE a # 0
        BY <1>1, <2>3, <3>1
      <3>2. CASE a = 0
        <4>1. f = files[0] /\ len = Len(files[0]) /\ FileAt(0)' = files'[0]
          BY <1>5, <3>2 DEF len
        <4>2. PICK q : q = Len(written) - len + r
          OBVIOUS
        <4>3. q \in 1..Len(written) /\ written[q] = written[p]
          BY <1>3, <1>6, <2>3, <3>2, <4>1, <4>2
        <4>4. q = p
          BY <1>4, <2>1, <4>3
        <4>5. r \in 1..n
          BY <1>3, <1>6, <1>14, <2>3, <3>2, <4>1, <4>2, <4>4
        <4>6. QED
          BY <1>1, <3>2, <4>1, <4>5
      <3>3. QED
        BY <3>1, <3>2
    <2>5. QED
      BY <1>1, <1>10, <2>1, <2>3, <2>4
  <1>15. Dense => Dense'
    <2>1. SUFFICES ASSUME Dense, NEW p \in 1..m - 1, written'[p] \in Kept'
                   PROVE  written'[p + 1] \in Kept'
      BY <1>2 DEF Dense
    <2>2. p \in 1..m /\ p + 1 \in 1..m /\ p \in 1..Len(written) - 1 /\ p + 1 \in 1..Len(written)
      BY <1>3, <1>6
    <2>3. written'[p] = written[p] /\ written[p] \in Kept
      BY <1>1, <1>2, <1>11, <2>1, <2>2
    <2>4. written[p + 1] \in Kept
      BY <2>1, <2>2, <2>3 DEF Dense
    <2>5. QED
      BY <1>14, <2>2, <2>4
  <1>16. Range(written) \subseteq Kept => Range(written') \subseteq Kept'
    <2>1. SUFFICES ASSUME Range(written) \subseteq Kept, NEW l \in Range(written')
                   PROVE  l \in Kept'
      OBVIOUS
    <2>2. DOMAIN written' = 1..m
      BY <1>2, LenProperties DEF IInv, Counted
    <2>3. PICK p \in 1..m : written'[p] = l
      BY <2>1, <2>2 DEF Range
    <2>4. p \in 1..Len(written) /\ written[p] = l
      BY <1>1, <1>2, <2>3
    <2>5. written[p] \in Kept
      BY <2>1, <2>4, FileTypes
    <2>6. QED
      BY <1>14, <2>3, <2>5
  <1>17. Missing = {} => n = len
    <2>1. SUFFICES ASSUME n < len
                   PROVE  Missing # {}
      BY <1>3, <1>6
    <2>2. m + 1 \in 1..Len(written)
      BY <1>3, <1>6, <2>1
    <2>3. ASSUME written[m + 1] \in Range(written')
          PROVE  FALSE
      <3>1. DOMAIN written' = 1..m
        BY <1>2, LenProperties DEF IInv, Counted
      <3>2. PICK p \in 1..m : written'[p] = written[m + 1]
        BY <2>3, <3>1 DEF Range
      <3>3. p \in 1..Len(written) /\ written[p] = written[m + 1]
        BY <1>1, <1>2, <3>2
      <3>4. p = m + 1
        BY <1>4, <2>2, <3>3
      <3>5. QED
        BY <1>6, <3>4
    <2>4. written[m + 1] \in Range(written)
      BY <2>2, FileTypes
    <2>5. QED
      BY <2>3, <2>4 DEF Missing
  <1>18. QED
    BY <1>1, <1>12, <1>13, <1>15, <1>16, <1>17 DEF len, f

\* fprintf fails: the file is open to the next call, and may be shorter.
LEMMA WriteFailsOrders ==
  ASSUME IInv, IInv', OInv, NEW t \in Thread, WriteFails(t)
  PROVE  OInv'
  <1> USE DEF OInv
  <1>1. /\ pc[t] = "file" /\ Goto(t, AfterFile(t)) /\ faults' = faults + 1 /\ lost' = lost \cup {logstr} \cup Missing
        /\ UNCHANGED <<files, written>> \/ (flog /\ \E n \in flushed..Len(files[0]) : Cut(n))
        /\ UNCHANGED <<backups, ii, starts>>
    BY DEF WriteFails, FlushFails, Fault
  <1>2. /\ KeepsOrder' /\ Tailed' /\ (Dense => Dense') /\ DOMAIN files' = DOMAIN files
        /\ \A i \in DOMAIN files : i # 0 => files'[i] = files[i]
        /\ Range(written) \subseteq Kept => Range(written') \subseteq Kept'
    BY <1>1, CutOrders
  <1>3. ~Shifting /\ ~Shifting' /\ \A u \in Thread : pc'[u] # "close"
    BY <1>1, NoRotation, OneRotation, AfterFileIs DEF IInv
  <1>4. Hole = 0 /\ Hole' = 0 /\ logNums' = logNums /\ renumbered' = renumbered
    BY <1>1, <1>3 DEF Hole, backups
  <1>5. faults' \in Nat /\ faults' # 0 /\ (faults' <= 1 => faults <= 1)
    BY <1>1 DEF Tallied
  <1>6. Tallied' /\ Freed' /\ Closing'
    BY <1>1, <1>3, <1>5 DEF Tallied, Freed, Closing
  <1>7. Gapless'
    BY <1>2, <1>4, <1>5 DEF Gapless
  <1>8. Closed' = Closed /\ \A i \in Closed : Full(i)' <=> Full(i)
    BY <1>2, <1>3 DEF Closed, Full
  <1>9. lost' # {}
    BY <1>1
  <1>10. Chained'
    BY <1>1, <1>2, <1>3, <1>4, <1>5, <1>8, <1>9 DEF Chained
  <1>11. QED
    BY <1>2, <1>6, <1>7, <1>10

\* fclose begins the rotation; a file that it cuts short is the first that is not full.
LEMMA CloseOrders ==
  ASSUME IInv, IInv', OInv, NEW t \in Thread, Close(t)
  PROVE  OInv'
  <1> USE DEF OInv
  <1>1. /\ pc[t] = "close" /\ Goto(t, "shift") /\ ii' = logNums - 1 /\ lost' = lost \cup Missing
        /\ UNCHANGED <<files, written>> \/ (flog /\ \E n \in flushed..Len(files[0]) : Cut(n))
        /\ UNCHANGED <<files, written, faults>> \/ faults' = faults + 1
        /\ UNCHANGED <<backups, starts>>
    BY DEF Close, FlushFails, Fault, IInv, LogsItsCall
  <1>2. /\ KeepsOrder' /\ Tailed' /\ (Dense => Dense') /\ DOMAIN files' = DOMAIN files
        /\ \A i \in DOMAIN files : i # 0 => files'[i] = files[i]
        /\ Range(written) \subseteq Kept => Range(written') \subseteq Kept'
        /\ Missing = {} => Len(FileAt(0)') = Len(FileAt(0))
    BY <1>1, CutOrders
  <1>3. ~Shifting /\ Hole = 0 /\ logNums' = logNums /\ renumbered' = renumbered /\ logNums \in Nat \ {0}
    BY <1>1, OneRotation, FileTypes DEF Hole, backups
  <1>4. pc'[t] = "shift" /\ \A u \in Thread : u # t => pc'[u] = pc[u]
    BY <1>1, GotoMoves DEF Labels, IInv
  <1>5. Shifting' /\ Hole' = logNums /\ ii' + 1 = logNums
    <2>1. Shifting'
      BY <1>4 DEF Shifting
    <2>2. QED
      BY <1>1, <1>3, <2>1 DEF Hole
  <1>6. faults \in Nat /\ faults' \in Nat /\ faults <= faults' /\ (faults = 0 => lost = {}) /\ starts \in Nat
    BY <1>1 DEF Tallied, Close
  <1>7. UNCHANGED <<files, written, faults>> => Missing = {}
    BY DEF Missing
  <1>8. Tallied'
    BY <1>1, <1>6, <1>7 DEF Tallied
  <1>9. Freed'
    BY <1>3, <1>5 DEF Freed
  <1>10. Closing'
    BY <1>1, <1>4, OneRotation DEF Closing
  <1>11. Gapless'
    BY <1>2, <1>3, <1>6 DEF Gapless
  <1>12. Full(0) /\ 0 \in DOMAIN files
    BY <1>1 DEF Closing, Full
  <1>13. Closed' = DOMAIN files /\ Closed = DOMAIN files \ {0}
    BY <1>2, <1>3, <1>5 DEF Closed
  <1>14. \A i \in Closed : Full(i)' <=> Full(i)
    BY <1>2, <1>13 DEF Full
  <1>15. Missing = {} => Full(0)'
    <2>1. FileAt(0) = files[0] /\ FileAt(0)' = files'[0]
      BY <1>2, <1>12 DEF FileAt
    <2>2. QED
      BY <1>2, <1>12, <2>1 DEF Full
  <1>16. Chained'
    <2>1. SUFFICES ASSUME faults' <= 1 /\ starts = 0
                   PROVE  Chained'
      BY <1>1 DEF Chained
    <2>2. faults <= 1 /\ ~renumbered
      BY <1>6, <2>1 DEF Chained
    <2>3. /\ \A i, j \in Closed' : i = j \/ Full(i)' \/ Full(j)'
          /\ lost' = {} => \A i \in Closed' : Full(i)'
      <3>1. CASE UNCHANGED <<files, written, faults>>
        <4>1. Full(0)' /\ lost' = lost
          BY <1>1, <1>7, <1>15, <3>1
        <4>2. QED
          BY <1>13, <1>14, <2>1, <2>2, <4>1 DEF Chained
      <3>2. CASE faults' = faults + 1
        <4>1. lost = {}
          BY <1>6, <2>1, <3>2
        <4>2. \A i \in Closed : Full(i)'
          BY <1>14, <2>1, <2>2, <4>1 DEF Chained
        <4>3. lost' = {} => Full(0)'
          BY <1>1, <1>15
        <4>4. QED
          BY <1>13, <4>2, <4>3
      <3>3. QED
        BY <1>1, <3>1, <3>2
    <2>4. \A i \in DOMAIN files' : \A j \in 1..i - 1 : j \in DOMAIN files'
      BY <1>2, <1>3, <2>1, <2>2 DEF Chained
    <2>5. Range(written') \subseteq Kept' \/ (0..logNums') \ {Hole'} \subseteq DOMAIN files'
      <3>1. CASE Range(written) \subseteq Kept
        BY <1>2, <3>1
      <3>2. CASE (0..logNums) \ {Hole} \subseteq DOMAIN files
        BY <1>2, <1>3, <1>5, <1>12, <3>2
      <3>3. QED
        BY <2>1, <2>2, <3>1, <3>2 DEF Chained
    <2>6. QED
      BY <1>2, <1>3, <1>12, <2>2, <2>3, <2>4, <2>5 DEF Chained
  <1>17. QED
    BY <1>2, <1>8, <1>9, <1>10, <1>11, <1>16

\* The next process, or the same with another number of backups, finds the files as they were left.
LEMMA StartsAgain ==
  ASSUME IInv, IInv', OInv, UNCHANGED <<files, written>> \/ (flog /\ \E n \in flushed..Len(files[0]) : Cut(n)),
         starts' = starts + 1, faults' \in Nat, faults <= faults', faults' = 0 => lost' = {},
         ~renumbered' => ~renumbered /\ logNums' = logNums, \A t \in Thread : pc'[t] = "idle"
  PROVE  OInv'
  <1> USE DEF OInv
  <1>1. KeepsOrder' /\ Tailed' /\ (Dense => Dense') /\ DOMAIN files' = DOMAIN files
    BY CutOrders
  <1>2. Tallied' /\ starts' # 0 /\ ~Shifting' /\ Closing'
    BY DEF Tallied, Shifting, Closing
  <1>3. Freed' /\ Chained'
    BY <1>2 DEF Freed, Chained
  <1>4. faults' <= 1 => faults <= 1
    BY DEF Tallied
  <1>5. Gapless'
    BY <1>1, <1>4 DEF Gapless
  <1>6. QED
    BY <1>1, <1>2, <1>3, <1>5

LEMMA CrashOrders ==
  ASSUME IInv, IInv', OInv, Crash
  PROVE  OInv'
  <1>1. UNCHANGED <<files, written>> \/ (flog /\ \E n \in flushed..Len(files[0]) : Cut(n))
    BY DEF Crash
  <1>2. /\ starts' = starts + 1 /\ faults' = faults /\ lost' = lost
        /\ ~renumbered' => ~renumbered /\ logNums' = logNums
        /\ \A t \in Thread : pc'[t] = "idle"
    BY DEF Crash
  <1>3. QED
    BY <1>1, <1>2, StartsAgain DEF OInv, Tallied

LEMMA RestructureOrders ==
  ASSUME IInv, IInv', OInv, Restructure
  PROVE  OInv'
  <1>1. /\ UNCHANGED <<files, written>> \/ (flog /\ \E n \in flushed..Len(files[0]) : Cut(n))
        /\ UNCHANGED <<files, written, faults>> \/ faults' = faults + 1
        /\ lost' = lost \cup Missing
    BY DEF Restructure, FlushFails, Fault
  <1>2. /\ starts' = starts + 1
        /\ ~renumbered' => ~renumbered /\ logNums' = logNums
        /\ \A t \in Thread : pc'[t] = "idle"
    BY DEF Restructure
  <1>3. UNCHANGED <<files, written, faults>> => Missing = {}
    BY DEF Missing
  <1>4. faults' \in Nat /\ faults <= faults' /\ (faults' = 0 => lost' = {})
    <2>1. faults \in Nat /\ (faults = 0 => lost = {})
      BY DEF OInv, Tallied
    <2>2. QED
      BY <1>1, <1>3, <2>1
  <1>5. QED
    BY <1>1, <1>2, <1>4, StartsAgain

\* There are no files to begin with.
LEMMA OrderStarts ==
  ASSUME Init
  PROVE  OInv
  <1> USE DEF OInv
  <1>1. /\ DOMAIN files = {} /\ written = << >> /\ Len(written) = 0 /\ starts = 0 /\ faults = 0 /\ lost = {} /\ ~renumbered
        /\ \A t \in Thread : pc[t] = "idle"
    BY EmptySeq DEF Init
  <1>2. Kept = {} /\ FileAt(0) = << >> /\ ~Shifting
    BY <1>1 DEF Kept, FileAt, Shifting
  <1>3. Range(written) = {}
    BY <1>1 DEF Range
  <1>4. Tallied /\ KeepsOrder /\ Tailed
    BY <1>1, <1>2 DEF Tallied, KeepsOrder, Tailed, Ends
  <1>5. Freed /\ Gapless /\ Chained /\ Closing
    BY <1>1, <1>2, <1>3 DEF Freed, Gapless, Dense, Chained, Closed, Closing
  <1>6. QED
    BY <1>4, <1>5

\* The steps that neither write nor rename.
LEMMA OthersOrder ==
  ASSUME IInv, OInv, NEW t \in Thread,
         \/ \E c \in Calls : Call(t, c)
         \/ \E s \in Settings : SetLevel(t, s)
         \/ Lock(t) \/ MkLog(t) \/ ToFile(t) \/ ToOut(t) \/ Unlock(t) \/ SetTo(t)
  PROVE  OInv'
  <1>1. UNCHANGED <<files, written, lost, backups, starts, faults, ii>>
    BY DEF Call, SetLevel, Lock, MkLog, ToFile, ToOut, Unlock, SetTo, disk, counts
  <1>2. (Shifting' <=> Shifting) /\ \A u \in Thread : pc'[u] = "close" => pc[u] = "close"
    <2>1. /\ pc[t] # "shift"
          /\ UNCHANGED pc \/ \E label \in Labels \ {"close", "shift"} : Goto(t, label)
      <3>1. CASE \E c \in Calls : Call(t, c)
        BY <3>1 DEF Call, Labels
      <3>2. CASE \E s \in Settings : SetLevel(t, s)
        BY <3>2 DEF SetLevel, Labels
      <3>3. CASE Lock(t) \/ MkLog(t) \/ ToFile(t)
        BY <3>3 DEF Lock, MkLog, ToFile, Labels
      <3>4. CASE ToOut(t) \/ Unlock(t) \/ SetTo(t)
        BY <3>4 DEF ToOut, Unlock, SetTo, Labels
      <3>5. QED
        BY <3>1, <3>2, <3>3, <3>4
    <2>2. CASE UNCHANGED pc
      BY <2>2 DEF Shifting
    <2>3. CASE \E label \in Labels \ {"close", "shift"} : Goto(t, label)
      BY <2>1, <2>3, NoRotation DEF IInv
    <2>4. QED
      BY <2>1, <2>2, <2>3
  <1>3. faults' \in Nat /\ faults <= faults'
    BY <1>1 DEF OInv, Tallied
  <1>4. QED
    BY <1>1, <1>2, <1>3, FilesAlone

\* Every step keeps the chain of files.
LEMMA StepOrders ==
  ASSUME IInv, IInv', OInv, [Next]_vars
  PROVE  OInv'
  <1>1. ASSUME NEW t \in Thread, Run(t)
        PROVE  OInv'
    BY <1>1, OthersOrder, OpenOrders, WriteOrders, WriteFailsOrders, CloseOrders, ShiftOrders DEF Run
  <1>2. ASSUME NEW t \in Thread, NEW c \in Calls, Call(t, c)
        PROVE  OInv'
    BY <1>2, OthersOrder
  <1>3. ASSUME NEW t \in Thread, NEW s \in Settings, SetLevel(t, s)
        PROVE  OInv'
    BY <1>3, OthersOrder
  <1>4. CASE UNCHANGED vars
    <2>1. UNCHANGED <<files, written, lost, backups, starts, faults, ii, pc>>
      BY <1>4 DEF vars, disk, counts
    <2>2. Shifting' <=> Shifting
      BY <2>1 DEF Shifting
    <2>3. faults' \in Nat /\ faults <= faults'
      BY <2>1 DEF OInv, Tallied
    <2>4. QED
      BY <2>1, <2>2, <2>3, FilesAlone
  <1>5. QED
    BY <1>1, <1>2, <1>3, <1>4, RestructureOrders, CrashOrders DEF Next

\* The chain of files, for any threads, limits and numbers of backups: files are in the order of what
\* was written, the open one is its end, a number is free before a file is renamed to it, and there is
\* no gap while fnum stays what it was (ez_log.c:155-181).
THEOREM OrderInvariant == Spec => [](IInv /\ OInv)
  <1>1. Init => IInv /\ OInv
    BY Starts, OrderStarts
  <1>2. (IInv /\ OInv) /\ [Next]_vars => (IInv /\ OInv)'
    BY StepKeeps, StepOrders
  <1>3. QED
    BY <1>1, <1>2, PTL DEF Spec

\* However often the number of files changes, renaming fails and the process is killed, every file holds
\* lines in the order they were written, newer ones than the older files, and no line is in two files
\* (ez_log.c:155-181).
THEOREM FilesKeepTheOrder == Spec => []KeepsOrder
  <1>1. IInv /\ OInv => KeepsOrder
    BY DEF OInv
  <1>2. QED
    BY <1>1, OrderInvariant, PTL

\* Of the lines the files got rotation loses the oldest and none in between, and until a restart it only
\* loses lines when fnum backups are there, all full but for one that a failing fclose cut short
\* (ez_log.c:148-181), unless stdio fails more than once.
THEOREM RotationKeepsTheNewest == Spec => []KeepsNewest
  <1>1. IInv /\ OInv => KeepsNewest
    <2> DEFINE Rest(hole) == (0..logNums) \ {hole}
    <2>1. SUFFICES ASSUME IInv, OInv, faults <= 1
                   PROVE  /\ ~renumbered => Dense
                          /\ starts = 0 => \/ Range(written) \subseteq Kept
                                           \/ \E hole \in 0..logNums :
                                                /\ Rest(hole) \subseteq DOMAIN files
                                                /\ \A i, j \in Rest(hole) : i = j \/ Full(i) \/ Full(j)
                                                /\ lost = {} => \A i \in Rest(hole) : Full(i)
      BY DEF KeepsNewest, Dense
    <2>2. Hole \in 0..logNums
      <3>1. Shifting => ii < logNums
        BY <2>1 DEF Shifting, IInv, TypeOK
      <3>2. QED
        BY <2>1, <3>1, FileTypes DEF Hole
    <2>3. ~renumbered => Dense
      BY <2>1 DEF OInv, Gapless
    <2>4. Rest(Hole) \subseteq DOMAIN files => Rest(Hole) \subseteq Closed
      BY DEF Closed, Hole
    <2>5. starts = 0 => \/ Range(written) \subseteq Kept
                        \/ /\ Rest(Hole) \subseteq DOMAIN files
                           /\ \A i, j \in Rest(Hole) : i = j \/ Full(i) \/ Full(j)
                           /\ lost = {} => \A i \in Rest(Hole) : Full(i)
      BY <2>1, <2>4 DEF OInv, Chained
    <2>6. QED
      BY <2>2, <2>3, <2>5
  <1>2. QED
    BY <1>1, OrderInvariant, PTL

=============================================================================
