-------------------------------- MODULE EzLog --------------------------------
(***************************************************************************)
(* ez_log.c: a logger shared by the threads of a process.  A call looks at *)
(* the level without the lock, then takes the lock, formats the line into  *)
(* the static logstr, writes it to the file, to stdout or to both, and     *)
(* gives the lock back.  A file that has grown beyond its size is closed   *)
(* and the backups are renamed, each to the next number, the oldest lost.  *)
(*                                                                         *)
(* ez_log_L and ez_log_cnt_L differ in the text they print and are one     *)
(* operation here, kind "L"; ez_log is kind "file".  A line is the call    *)
(* that made it and all lines have length 1; dates and texts are left out. *)
(* stdio buffers what is written to the file: fopen, rename and the calls  *)
(* that write the buffer out, fprintf and fclose, may fail MaxFaults times,*)
(* and the process may be killed, or configure the logger anew, MaxStarts  *)
(* times.                                                                  *)
(***************************************************************************)
EXTENDS Integers, Sequences, SequencesExt

CONSTANTS
  Thread, NoThread,
  Calls,      \* what a thread may call: records of kind and level
  Settings,   \* what it may give ez_log_set_level: records of level and to
  FileNums,   \* what the program may give ez_log_structure as fnum
  LogSize,    \* log_size
  MaxCalls,   \* how many lines each thread logs
  MaxSets,    \* how often the level is set
  MaxFaults,  \* how often a file operation fails
  MaxStarts   \* how often ez_log_structure is called again, by the same process or the next

EMERG == 0
INFO  == 6
NONE  == 8
Destinations == {"STDOUT", "FILE", "FILE_AND_STDOUT"}

ASSUME LogAssumption ==
  /\ NoThread \notin Thread
  /\ Calls \subseteq [kind : {"L"}, level : Int] \cup [kind : {"file"}, level : {INFO}]
  /\ Settings \subseteq [level : EMERG..NONE, to : Destinations]
  /\ FileNums \subseteq Nat \ {0} /\ FileNums # {}
  /\ {LogSize, MaxCalls, MaxSets, MaxFaults, MaxStarts} \subseteq Nat

VARIABLES
  logLevel, logTo, logNums, \* log_level, log_to, log_nums
  flog,     \* flog is open
  flushed,  \* how many lines of the file have reached it from the buffer of flog
  files,    \* the files there are: 0 is logfilename1, i is the backup number i
  logstr,   \* the line being logged
  lock,     \* who holds cs_log
  pc,       \* where each thread is
  arg,      \* what it is logging, or setting
  ii,       \* the backup to rename next
  written, shown, lost, \* the lines the file got, in order; those printed; those stdio has lost
  steady,   \* log_to has not changed since the thread's call began
  renumbered, \* log_nums has changed since the start
  calls, sets, faults, starts \* how many there were: the bounds

config == <<logLevel, logTo, steady>>
disk   == <<flog, flushed, files, written>>
backups == <<logNums, renumbered>>
counts == <<calls, sets, faults, starts>>
vars   == <<config, backups, disk, logstr, lock, pc, arg, ii, shown, lost, counts>>

Goto(t, label) == pc' = [pc EXCEPT ![t] = label]
Fault == faults < MaxFaults /\ faults' = faults + 1
-----------------------------------------------------------------------------
(***************************************************************************)
(* The calls that log.                                                     *)
(***************************************************************************)
\* The head of ez_log_L and ez_log: a line above the level is not logged.
Call(t, c) ==
  /\ pc[t] = "idle" /\ calls[t] < MaxCalls
  /\ calls' = [calls EXCEPT ![t] = @ + 1]
  /\ arg' = [arg EXCEPT ![t] = [by |-> t, no |-> calls[t] + 1, kind |-> c.kind, level |-> c.level]]
  /\ steady' = [steady EXCEPT ![t] = TRUE]
  /\ IF c.kind = "L" /\ c.level > logLevel THEN UNCHANGED pc ELSE Goto(t, "lock")
  /\ UNCHANGED <<logLevel, logTo, backups, disk, logstr, lock, ii, shown, lost, sets, faults, starts>>

\* Mutant of Lock: nobody waits.
LockAlways(t) ==
  /\ pc[t] = "lock"
  /\ lock' = t /\ Goto(t, "make")
  /\ UNCHANGED <<config, backups, disk, logstr, arg, ii, shown, lost, counts>>

Lock(t) ==
  /\ pc[t] = "lock" /\ lock = NoThread
  /\ lock' = t /\ Goto(t, "make")
  /\ UNCHANGED <<config, backups, disk, logstr, arg, ii, shown, lost, counts>>

\* Mutant of MkLog: a call that fails returns with the lock.
MkLogKeepsLock(t) ==
  /\ pc[t] = "make"
  /\ IF arg[t].level \in EMERG..NONE
       THEN /\ logstr' = arg[t]
            /\ Goto(t, IF arg[t].kind = "file" THEN "file" ELSE "toFile")
       ELSE Goto(t, "idle") /\ UNCHANGED logstr
  /\ UNCHANGED <<config, backups, disk, lock, arg, ii, shown, lost, counts>>

\* mk_log: a level that is none fails.
MkLog(t) ==
  /\ pc[t] = "make"
  /\ IF arg[t].level \in EMERG..NONE
       THEN /\ logstr' = arg[t]
            /\ Goto(t, IF arg[t].kind = "file" THEN "file" ELSE "toFile")
       ELSE Goto(t, "unlock") /\ UNCHANGED logstr
  /\ UNCHANGED <<config, backups, disk, lock, arg, ii, shown, lost, counts>>

\* log_to is read for the file, and once more for stdout.
ToFile(t) ==
  /\ pc[t] = "toFile"
  /\ Goto(t, IF logTo \in {"FILE", "FILE_AND_STDOUT"} THEN "file" ELSE "toOut")
  /\ UNCHANGED <<config, backups, disk, logstr, lock, arg, ii, shown, lost, counts>>

\* Mutant of ToOut: a line is printed or written, never both.
ToOutAlone(t) ==
  /\ pc[t] = "toOut"
  /\ shown' = IF logTo = "STDOUT" THEN shown \cup {logstr} ELSE shown
  /\ Goto(t, "unlock")
  /\ UNCHANGED <<config, backups, disk, logstr, lock, arg, ii, lost, counts>>

ToOut(t) ==
  /\ pc[t] = "toOut"
  /\ shown' = IF logTo \in {"STDOUT", "FILE_AND_STDOUT"} THEN shown \cup {logstr} ELSE shown
  /\ Goto(t, "unlock")
  /\ UNCHANGED <<config, backups, disk, logstr, lock, arg, ii, lost, counts>>

Unlock(t) ==
  /\ pc[t] = "unlock"
  /\ lock' = NoThread /\ Goto(t, "idle")
  /\ UNCHANGED <<config, backups, disk, logstr, arg, ii, shown, lost, counts>>
-----------------------------------------------------------------------------
(***************************************************************************)
(* log_file.                                                               *)
(***************************************************************************)
AfterFile(t) == IF arg[t].kind = "file" THEN "unlock" ELSE "toOut"

FileAt(i) == IF i \in DOMAIN files THEN files[i] ELSE <<>>
Put(fs, i, lines) == [j \in DOMAIN fs \cup {i} |-> IF j = i THEN lines ELSE fs[j]]
Removed(fs, i) == [j \in DOMAIN fs \ {i} |-> fs[j]]

\* The file is opened for appending unless it is open; if that fails the line goes
\* to stdout.
Open(t) ==
  /\ pc[t] = "file" /\ ~flog
  /\ \/ /\ flog' = TRUE /\ flushed' = Len(FileAt(0))
        /\ files' = Put(files, 0, FileAt(0))
        /\ UNCHANGED <<pc, shown, faults>>
     \/ /\ Fault
        /\ shown' = shown \cup {logstr}
        /\ Goto(t, AfterFile(t))
        /\ UNCHANGED <<flog, flushed, files>>
  /\ UNCHANGED <<config, backups, logstr, lock, arg, ii, written, lost, calls, sets, starts>>

\* Only the first n lines of the file flog has open reach it.
Cut(n) ==
  /\ files' = Put(files, 0, SubSeq(files[0], 1, n))
  /\ written' = SubSeq(written, 1, Len(written) - (Len(files[0]) - n))

\* The buffer of flog cannot be written out: any part of it is lost.
FlushFails ==
  /\ Fault
  /\ \E n \in flushed..Len(files[0]) : Cut(n)

Missing == Range(written) \ Range(written')

\* fprintf takes the line; a file that is now too long is to be closed and rotated.
Write(t) ==
  /\ pc[t] = "file" /\ flog
  /\ files' = Put(files, 0, Append(files[0], logstr))
  /\ written' = Append(written, logstr)
  /\ Goto(t, IF Len(files[0]) + 1 > LogSize THEN "close" ELSE AfterFile(t))
  /\ UNCHANGED <<config, backups, flog, flushed, logstr, lock, arg, ii, shown, lost, counts>>

\* fprintf fails: the file is closed with a part of the lines before, the next call opens
\* it again.
WriteFails(t) ==
  /\ pc[t] = "file" /\ flog
  /\ FlushFails
  /\ flog' = FALSE /\ lost' = lost \cup {logstr} \cup Missing
  /\ Goto(t, AfterFile(t))
  /\ UNCHANGED <<config, backups, flushed, logstr, lock, arg, ii, shown, calls, sets, starts>>

\* fclose before the rotation; that it failed goes unnoticed.
Close(t) ==
  /\ pc[t] = "close"
  /\ UNCHANGED <<files, written, faults>> \/ FlushFails
  /\ flog' = FALSE /\ lost' = lost \cup Missing
  /\ ii' = logNums - 1 /\ Goto(t, "shift")
  /\ UNCHANGED <<config, backups, flushed, logstr, lock, arg, shown, calls, sets, starts>>

\* Mutant of Renamed: the old name stays.
Copied(i) == Put(files, i + 1, files[i])

Renamed(i) == Put(Removed(files, i), i + 1, files[i])

\* Mutant of Rename: a rename that fails is not tried again.
RenameOnce(i) ==
  \/ i \in DOMAIN files /\ files' = Renamed(i) /\ UNCHANGED faults
  \/ i \in DOMAIN files /\ Fault /\ files' = Removed(files, i + 1)
  \/ i \notin DOMAIN files /\ files' = Removed(files, i + 1) /\ UNCHANGED faults

\* rename; if it fails, remove the target and try again.
Rename(i) ==
  \/ i \in DOMAIN files /\ files' = Renamed(i) /\ (UNCHANGED faults \/ Fault)
  \/ /\ i \in DOMAIN files /\ faults + 2 <= MaxFaults
     /\ faults' = faults + 2 /\ files' = Removed(files, i + 1)
  \/ i \notin DOMAIN files /\ files' = Removed(files, i + 1) /\ UNCHANGED faults

\* The backups move up by one, the oldest first, and the file becomes the first.
Shift(t) ==
  /\ pc[t] = "shift"
  /\ Rename(ii)
  /\ IF ii = 0 THEN Goto(t, AfterFile(t)) /\ UNCHANGED ii
               ELSE ii' = ii - 1 /\ UNCHANGED pc
  /\ UNCHANGED <<config, backups, flog, flushed, written, logstr, lock, arg, shown, lost, calls, sets, starts>>
-----------------------------------------------------------------------------
(***************************************************************************)
(* The calls that configure, and the process.                              *)
(***************************************************************************)
\* ez_log_set_level sets the level, then the destination, without the lock; a level or
\* destination that is none changes nothing and is not among Settings.
SetLevel(t, s) ==
  /\ pc[t] = "idle" /\ sets < MaxSets
  /\ sets' = sets + 1
  /\ logLevel' = s.level
  /\ arg' = [arg EXCEPT ![t] = s] /\ Goto(t, "setTo")
  /\ UNCHANGED <<logTo, steady, backups, disk, logstr, lock, ii, shown, lost, calls, faults, starts>>

SetTo(t) ==
  /\ pc[t] = "setTo"
  /\ logTo' = arg[t].to
  /\ steady' = [u \in Thread |-> steady[u] /\ logTo' = logTo]
  /\ Goto(t, "idle")
  /\ UNCHANGED <<logLevel, backups, disk, logstr, lock, arg, ii, shown, lost, counts>>

\* ez_log_destructor and ez_log_structure, when no thread is logging.
Restructure ==
  /\ \A t \in Thread : pc[t] = "idle"
  /\ starts < MaxStarts /\ starts' = starts + 1
  /\ UNCHANGED <<files, written, faults>> \/ (flog /\ FlushFails)
  /\ flog' = FALSE /\ lost' = lost \cup Missing
  /\ logNums' \in FileNums /\ renumbered' = (renumbered \/ logNums' # logNums)
  /\ UNCHANGED <<config, flushed, logstr, lock, pc, arg, ii, shown, calls, sets>>

\* The process dies, at any point, with a part of what flog has buffered, and another
\* one starts.
Crash ==
  /\ starts < MaxStarts /\ starts' = starts + 1
  /\ IF flog THEN \E n \in flushed..Len(files[0]) : Cut(n) ELSE UNCHANGED <<files, written>>
  /\ flog' = FALSE /\ lock' = NoThread
  /\ logLevel' = NONE /\ logTo' = "STDOUT"
  /\ logNums' \in FileNums /\ renumbered' = (renumbered \/ logNums' # logNums)
  /\ pc' = [t \in Thread |-> "idle"]
  /\ UNCHANGED <<steady, flushed, logstr, arg, ii, shown, lost, calls, sets, faults>>

NoCall == [by |-> NoThread, no |-> 0, kind |-> "L", level |-> NONE]

Init ==
  /\ logLevel = NONE /\ logTo = "STDOUT" /\ logNums \in FileNums
  /\ flog = FALSE /\ flushed = 0 /\ files = [i \in {} |-> <<>>]
  /\ logstr = NoCall /\ lock = NoThread /\ ii = 0
  /\ pc = [t \in Thread |-> "idle"] /\ arg = [t \in Thread |-> NoCall]
  /\ written = <<>> /\ shown = {} /\ lost = {}
  /\ steady = [t \in Thread |-> TRUE] /\ renumbered = FALSE
  /\ calls = [t \in Thread |-> 0] /\ sets = 0 /\ faults = 0 /\ starts = 0

\* A thread inside a call.
Run(t) ==
  \/ Lock(t) \/ MkLog(t) \/ ToFile(t) \/ ToOut(t) \/ Unlock(t)
  \/ Open(t) \/ Write(t) \/ WriteFails(t) \/ Close(t) \/ Shift(t)
  \/ SetTo(t)

Next ==
  \/ \E t \in Thread, c \in Calls : Call(t, c)
  \/ \E t \in Thread, s \in Settings : SetLevel(t, s)
  \/ \E t \in Thread : Run(t)
  \/ Restructure
  \/ Crash

\* No thread inside a call stops for good.
Spec == Init /\ [][Next]_vars /\ \A t \in Thread : WF_vars(Run(t))
-----------------------------------------------------------------------------
Numbers == UNION {0..n : n \in FileNums}

Line == [by : Thread, no : Nat \ {0}, kind : {"L", "file"}, level : EMERG..NONE]
Labels == {"idle", "lock", "make", "toFile", "file", "close", "shift", "toOut", "unlock", "setTo"}

\* flog is only used inside the lock, and renaming never reaches past the backups
\* (ez_log.c:161-181).
TypeOK ==
  /\ logLevel \in EMERG..NONE /\ logTo \in Destinations /\ logNums \in FileNums
  /\ pc \in [Thread -> Labels] /\ lock \in Thread \cup {NoThread}
  /\ \A t \in Thread : pc[t] \in {"make", "toFile", "file", "close", "shift", "toOut", "unlock"} => lock = t
  /\ \A i \in DOMAIN files : files[i] \in Seq(Line)
  /\ DOMAIN files \subseteq Numbers
  /\ flog => 0 \in DOMAIN files /\ flushed \in 0..Len(files[0])
  /\ ii \in Nat /\ \A t \in Thread : pc[t] = "shift" => ii < logNums

\* The lines the files hold, and the files that are full.
Kept == UNION {Range(files[i]) : i \in DOMAIN files}
Full(i) == i \in DOMAIN files /\ Len(files[i]) > LogSize

\* l was written before m.
Before(l, m) == \E p, q \in 1..Len(written) : p < q /\ written[p] = l /\ written[q] = m

\* A line is written once, never with another thread's text, and is not in the file if stdio
\* has lost it.
WrittenOnce == IsInjective(written) /\ \A k \in 1..Len(written) : written[k] \notin lost

\* The files always hold the newest of the lines they got: rotation loses the oldest and
\* nothing in between, wherever the process is killed and if stdio fails once; and while
\* the process lives it loses none unless all fnum backups are there, but for the one that
\* is being renamed, and full, but for one that was cut short when its buffer could not be
\* written out ("fnum: bak file number", ez_log.h:47).
KeepsNewest ==
  faults <= 1 =>
    /\ ~renumbered => \A p \in 1..Len(written) - 1 : written[p] \in Kept => written[p + 1] \in Kept
    /\ starts = 0 =>
         \/ Range(written) \subseteq Kept
         \/ \E hole \in 0..logNums :
              LET rest == (0..logNums) \ {hole} IN
              /\ rest \subseteq DOMAIN files
              /\ \A i, j \in rest : i = j \/ Full(i) \/ Full(j)
              /\ lost = {} => \A i \in rest : Full(i)

\* However often the number of files changes and renaming fails, no file holds a line
\* that is older than those of an older file, and no line is in two files.
KeepsOrder ==
  /\ Kept \subseteq Range(written)
  /\ \A i, j \in DOMAIN files : \A k \in 1..Len(files[i]), m \in 1..Len(files[j]) :
       i > j \/ (i = j /\ k < m) => Before(files[i][k], files[j][m])

\* A line that is not filtered goes where log_to says, unless log_to changes while it is
\* being logged or stdio loses it.
GoesWhereItShould ==
  \A t \in Thread :
    pc[t] = "unlock" /\ arg[t].level \in EMERG..NONE /\ steady[t] =>
      /\ arg[t].kind = "file" \/ logTo \in {"FILE", "FILE_AND_STDOUT"} =>
           Contains(written, arg[t]) \/ arg[t] \in lost \cup shown
      /\ arg[t].kind = "L" /\ logTo \in {"STDOUT", "FILE_AND_STDOUT"} => arg[t] \in shown

\* Every call returns.
CallsReturn == \A t \in Thread : pc[t] # "idle" ~> pc[t] = "idle"

=============================================================================
