-------------------------------- MODULE MCEzLog --------------------------------
(***************************************************************************)
(* EzLog with files of one line.  In some behaviours two threads log and   *)
(* configure, each a little; in the others one thread writes its file over *)
(* and over, and the process is killed and started again with more backups *)
(* or fewer.                                                               *)
(***************************************************************************)
EXTENDS EzLog

CONSTANTS t1, t2

\* ez_log_L with an error and with a level that does not exist, and ez_log.
MCCalls == {[kind |-> "L", level |-> 3], [kind |-> "L", level |-> -1], [kind |-> "file", level |-> INFO]}

\* 27, 34 and 12 for ez_log_set_level.
MCSettings == {[level |-> 7, to |-> "FILE"], [level |-> 4, to |-> "FILE_AND_STDOUT"],
               [level |-> 2, to |-> "STDOUT"]}

\* Two threads with one backup, two calls each and one failing call of stdio.
Threads ==
  /\ logNums = 1 /\ starts = 0 /\ faults <= 1
  /\ \A t \in Thread : calls[t] <= 2

\* One thread that only calls ez_log.
Files ==
  /\ sets = 0 /\ calls[t2] = 0
  /\ arg[t1] = NoCall \/ arg[t1].kind = "file"

MCInit == Init
MCNext == Next /\ (Threads \/ Files)'
MCSpec == MCInit /\ [][MCNext]_vars /\ \A t \in Thread : WF_vars(Run(t))
=============================================================================
