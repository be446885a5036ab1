------------------------------- MODULE Backup -------------------------------
(***************************************************************************)
(* Database backups: runs of doBackup, begun by cron or by an              *)
(* administrator, the lock schedule:backup:running that keeps them apart,  *)
(* and the files in BACKUP_DIR.  A run holds the lock from its SETNX to    *)
(* its DEL; the lock also expires, and Redis may fail, in which case the   *)
(* run goes on without a lock.                                             *)
(*                                                                         *)
(* The dump is killed after 300 s and the clean-up takes moments, so the   *)
(* 600 s of the lock pass only over a run that waits for the mail server,  *)
(* which nothing limits, or that has died.  A name is the second in which  *)
(* the dump began; no two dumps are taken to begin in the same second.     *)
(***************************************************************************)
EXTENDS Integers, Sequences, FiniteSets, SequencesExt

CONSTANTS
  Runner,       \* backup runs that may overlap
  File,         \* names backup-<date>-<time>.sql
  NoRunner,
  MaxBackups,   \* MAX_BACKUPS: how many dumps are kept
  MaxBackupFaults  \* bound on failing Redis calls and killed runs

ASSUME BackupAssumption ==
  /\ MaxBackups \in Nat \ {0} /\ MaxBackupFaults \in Nat /\ NoRunner \notin Runner

VARIABLES
  run,       \* run[r]: one run of doBackup
  lock,      \* whose SETNX wrote schedule:backup:running
  dumps,     \* the finished .sql files by mtime, oldest first
  leftovers, \* .sql.tmp files of runs that were killed
  backupFaults

backupVars == <<run, lock, dumps, leftovers, backupFaults>>
fileVars == <<dumps, leftovers>>

\* A run that is writing or cleaning, which no other is to do.
Working == {"dump", "list", "stat", "unlink"}

RunState ==
  [pc     : {"idle", "start", "mail"} \cup Working,
   held   : BOOLEAN,               \* lockHeld
   lost   : BOOLEAN,               \* history: its lock expired, or a run that had
                                   \* lost its own deleted it
   alone  : BOOLEAN,               \* history: no other run has worked beside it
   listed : SUBSET File,           \* what cleanOldBackups has listed,
   doomed : SUBSET File]           \* and what it is going to delete

IdleRun == [pc |-> "idle", held |-> FALSE, lost |-> FALSE, alone |-> TRUE,
            listed |-> {}, doomed |-> {}]

BackupTypeOK ==
  /\ run \in [Runner -> RunState]
  /\ lock \in Runner \cup {NoRunner}
  /\ dumps \in Seq(File)
  /\ \A i, j \in DOMAIN dumps : dumps[i] = dumps[j] => i = j
  /\ leftovers \in Nat
  /\ backupFaults \in 0..MaxBackupFaults

BackupInit ==
  /\ run = [r \in Runner |-> IdleRun]
  /\ lock = NoRunner /\ dumps = <<>>
  /\ leftovers = 0 /\ backupFaults = 0

-----------------------------------------------------------------------------
RunAt(r, pc) == run[r].pc = pc
IsWorking(r) == run[r].pc \in Working
SetRun(r, state) == run' = [run EXCEPT ![r] = state]
BackupFault == backupFaults < MaxBackupFaults /\ backupFaults' = backupFaults + 1

\* Nothing but the notification is left to do.
Notifying(r) ==
  [IdleRun EXCEPT !.pc = "mail", !.held = run[r].held, !.lost = run[r].lost]

\* The names that a run has in hand.
Noticed(r) == run[r].listed \cup run[r].doomed

\* Of the files fs, those of s that are oldest, n of them if there are so many.
Oldest(s, fs, n) ==
  {s[i] : i \in {k \in DOMAIN s : s[k] \in fs /\ Cardinality({j \in 1..k : s[j] \in fs}) <= n}}

-----------------------------------------------------------------------------
\* Faulty: EXISTS and then SET, with another run's SETNX in between.
TakeLockUnchecked(r) ==
  /\ RunAt(r, "idle")
  /\ lock' = r /\ SetRun(r, [IdleRun EXCEPT !.pc = "start", !.held = TRUE])
  /\ UNCHANGED <<fileVars, backupFaults>>

\* The run begins; if the lock is taken it ends as busy.
TakeLock(r) ==
  /\ RunAt(r, "idle") /\ lock = NoRunner
  /\ lock' = r /\ SetRun(r, [IdleRun EXCEPT !.pc = "start", !.held = TRUE])
  /\ UNCHANGED <<fileVars, backupFaults>>

\* SETNX fails, executed or not: the run goes on without holding the lock.
LockDegraded(r) ==
  /\ RunAt(r, "idle") /\ BackupFault
  /\ lock' \in {lock, IF lock = NoRunner THEN r ELSE lock}
  /\ SetRun(r, [IdleRun EXCEPT !.pc = "start"])
  /\ UNCHANGED fileVars

\* From now on the run works; it notes whether it is alone.
StartDump(r) ==
  /\ RunAt(r, "start")
  /\ LET others == {q \in Runner \ {r} : IsWorking(q)}
     IN  run' = [q \in Runner |->
                   IF q = r THEN [run[r] EXCEPT !.pc = "dump", !.alone = others = {}]
                   ELSE [run[q] EXCEPT !.alone = @ /\ q \notin others]]
  /\ UNCHANGED <<lock, fileVars, backupFaults>>

\* A bad exit, 300 s, too small a file: .tmp is unlinked, the failure recorded.
DumpFails(r) ==
  /\ RunAt(r, "dump")
  /\ SetRun(r, Notifying(r))
  /\ UNCHANGED <<lock, fileVars, backupFaults>>

\* rename makes .tmp the newest dump.
Finish(r) ==
  /\ RunAt(r, "dump")
  /\ LET new == {f \in File \ ToSet(dumps) : \A q \in Runner : f \notin Noticed(q)}
     IN  new # {} /\ dumps' = Append(dumps, CHOOSE f \in new : TRUE)
  /\ SetRun(r, [run[r] EXCEPT !.pc = "list"])
  /\ UNCHANGED <<lock, leftovers, backupFaults>>

\* cleanOldBackups: readdir; leftovers older than 24 h go.
ListBackups(r) ==
  /\ RunAt(r, "list")
  /\ leftovers' \in 0..leftovers
  /\ IF Len(dumps) > MaxBackups
     THEN SetRun(r, [run[r] EXCEPT !.pc = "stat", !.listed = ToSet(dumps)])
     ELSE SetRun(r, Notifying(r))
  /\ UNCHANGED <<lock, dumps, backupFaults>>

\* Faulty: a dump too many.
StatBackupsOneMore(r) ==
  /\ RunAt(r, "stat")
  /\ LET excess == Cardinality(run[r].listed) - MaxBackups + 1
     IN  SetRun(r, [run[r] EXCEPT !.pc = "unlink", !.listed = {},
                                  !.doomed = Oldest(dumps, run[r].listed, excess)])
  /\ UNCHANGED <<lock, fileVars, backupFaults>>

\* What has gone since the listing has no mtime, but counts in the excess.
StatBackups(r) ==
  /\ RunAt(r, "stat")
  /\ LET excess == Cardinality(run[r].listed) - MaxBackups
     IN  SetRun(r, [run[r] EXCEPT !.pc = "unlink", !.listed = {},
                                  !.doomed = Oldest(dumps, run[r].listed, excess)])
  /\ UNCHANGED <<lock, fileVars, backupFaults>>

\* One unlink after another; one that fails is skipped.
UnlinkBackup(r) ==
  /\ RunAt(r, "unlink")
  /\ IF run[r].doomed = {}
     THEN SetRun(r, Notifying(r)) /\ UNCHANGED dumps
     ELSE \E f \in run[r].doomed :
            /\ SetRun(r, [run[r] EXCEPT !.doomed = @ \ {f}])
            /\ \/ UNCHANGED dumps
               \/ \E i \in DOMAIN dumps : dumps[i] = f /\ dumps' = RemoveAt(dumps, i)
  /\ UNCHANGED <<lock, leftovers, backupFaults>>

-----------------------------------------------------------------------------
\* DEL by r; if r had lost its lock, so has whoever owns the one that goes.
Delete(r) ==
  /\ lock' = NoRunner
  /\ run' = [q \in Runner |->
               IF q = r THEN IdleRun
               ELSE [run[q] EXCEPT !.lost = @ \/ (run[r].lost /\ lock = q)]]

\* The finally block: what is held is released, whoever owns the lock by now.
Release(r) ==
  /\ RunAt(r, "mail")
  /\ IF run[r].held THEN Delete(r) ELSE SetRun(r, IdleRun) /\ UNCHANGED lock
  /\ UNCHANGED <<fileVars, backupFaults>>

\* The DEL does not reach Redis: the lock stays until it expires.
ReleaseFails(r) ==
  /\ RunAt(r, "mail") /\ run[r].held /\ BackupFault
  /\ SetRun(r, IdleRun)
  /\ UNCHANGED <<lock, fileVars>>

\* The process is killed: lock and .tmp stay behind.
RunDies(r) ==
  /\ ~RunAt(r, "idle") /\ BackupFault
  /\ leftovers' = IF RunAt(r, "dump") THEN leftovers + 1 ELSE leftovers
  /\ SetRun(r, IdleRun)
  /\ UNCHANGED <<lock, dumps>>

\* 600 s are over; no run works that long.
LockExpires ==
  /\ lock # NoRunner /\ run[lock].pc \in {"idle", "mail"}
  /\ lock' = NoRunner
  /\ run' = [run EXCEPT ![lock].lost = run[lock].held]
  /\ UNCHANGED <<fileVars, backupFaults>>

RunStep(r) ==
  \/ TakeLock(r) \/ LockDegraded(r)
  \/ StartDump(r) \/ DumpFails(r) \/ Finish(r)
  \/ ListBackups(r) \/ StatBackups(r) \/ UnlinkBackup(r)
  \/ Release(r) \/ ReleaseFails(r) \/ RunDies(r)

BackupNext == (\E r \in Runner : RunStep(r)) \/ LockExpires

BackupSpec == BackupInit /\ [][BackupNext]_backupVars

-----------------------------------------------------------------------------
(* Two runs dump and clean at the same time only if Redis failed when one of
   them asked for the lock, or if its lock was deleted by a run that had lost
   its own.                                                                   *)
Exclusive ==
  \A p, q \in Runner :
    p # q /\ IsWorking(p) /\ IsWorking(q) =>
      \E r \in {p, q} : ~run[r].held \/ run[r].lost

(* A run that has been alone deletes none of the MaxBackups newest dumps, what-
   ever runs before it have left behind.                                      *)
Newest == {dumps[i] : i \in {k \in DOMAIN dumps : k > Len(dumps) - MaxBackups}}
NewestKept ==
  [][\A r \in Runner : run[r].alone /\ RunAt(r, "unlink") /\ run'[r] # run[r] =>
       Newest \subseteq ToSet(dumps')]_backupVars
=============================================================================
