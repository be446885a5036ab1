----------------------------- MODULE BackupWatch -----------------------------
(***************************************************************************)
(* Whether backups are made at all: the heartbeats schedule:last-run:* of  *)
(* the nightly and the manual backup, and checkBackupFreshness, which every *)
(* server instance runs at boot and every hour and which reports a missing *)
(* backup in the error log, once a day.  Instances die and are started     *)
(* again; the nightly job is not caught up with.  What a backup does is in *)
(* Backup; here it succeeds or not.                                        *)
(***************************************************************************)
EXTENDS Integers, FiniteSets

CONSTANTS
  Instance,       \* server instances, on one Redis
  DayHours,       \* hours of a day
  Life,           \* LAST_RUN_TTL, in hours: a heartbeat as old as that is gone
  MaxWatchFaults  \* bound on failing calls and deaths

\* BACKUP_FRESHNESS_MAX_HOURS: a day and an hour.
MaxAge == DayHours + 1

ASSUME WatchAssumption ==
  /\ DayHours \in Nat \ {0} /\ MaxWatchFaults \in Nat
  /\ Life \in Nat /\ Life > MaxAge + 1

VARIABLES
  hour,      \* of the day
  cronDue,   \* the nightly backup has not been tried yet
  daily,     \* age of the heartbeat dailyBackup; Life: there is none
  manual,    \* age of the heartbeat manualBackup
  check,     \* check[i]: where instance i is in checkBackupFreshness
  claimed,   \* today's keys schedule:backup:missing-alert:*
  reported,  \* history: what has been recorded today
  watchFaults

watchVars == <<hour, cronDue, daily, manual, check, claimed, reported, watchFaults>>

Alert == {"baseline", "missing"}
CheckState == [pc : {"idle", "due", "manual", "claim", "record", "down"}, alert : Alert]

WatchTypeOK ==
  /\ hour \in 0..(DayHours - 1) /\ cronDue \in BOOLEAN
  /\ daily \in 0..Life /\ manual \in 0..Life
  /\ check \in [Instance -> CheckState]
  /\ claimed \subseteq Alert /\ reported \subseteq claimed
  /\ watchFaults \in 0..MaxWatchFaults

\* A first deployment: no backup has ever been made.
WatchInit ==
  /\ hour = 0 /\ cronDue = FALSE /\ daily = Life /\ manual = Life
  /\ check = [i \in Instance |-> [pc |-> "due", alert |-> "missing"]]
  /\ claimed = {} /\ reported = {} /\ watchFaults = 0

-----------------------------------------------------------------------------
CheckAt(i, pc) == check[i].pc = pc
CheckGoto(i, pc) == check' = [check EXCEPT ![i].pc = pc]
GoClaim(i, kind) == check' = [check EXCEPT ![i] = [pc |-> "claim", alert |-> kind]]
WatchFault == watchFaults < MaxWatchFaults /\ watchFaults' = watchFaults + 1
runVars == <<hour, cronDue, daily, manual>>

\* No heartbeat, a fresh one, or one that is too old unless a manual one is fresh.
ReadDaily(i) ==
  /\ CheckAt(i, "due")
  /\ IF daily = Life THEN GoClaim(i, "baseline")
                      ELSE CheckGoto(i, IF daily <= MaxAge THEN "idle" ELSE "manual")
  /\ UNCHANGED <<runVars, claimed, reported, watchFaults>>

ReadManual(i) ==
  /\ CheckAt(i, "manual")
  /\ IF manual <= MaxAge THEN CheckGoto(i, "idle") ELSE GoClaim(i, "missing")
  /\ UNCHANGED <<runVars, claimed, reported, watchFaults>>

\* SETNX of today's key.
ClaimAlert(i) ==
  /\ CheckAt(i, "claim")
  /\ claimed' = claimed \cup {check[i].alert}
  /\ CheckGoto(i, IF check[i].alert \in claimed THEN "idle" ELSE "record")
  /\ UNCHANGED <<runVars, reported, watchFaults>>

RecordAlert(i) ==
  /\ CheckAt(i, "record")
  /\ reported' = reported \cup {check[i].alert}
  /\ CheckGoto(i, "idle")
  /\ UNCHANGED <<runVars, claimed, watchFaults>>

(* A call fails, executed or not, and the check is over: a day whose key is
   claimed and whose record failed stays silent.                             *)
CheckFails(i) ==
  /\ check[i].pc \notin {"idle", "down"} /\ WatchFault
  /\ CheckGoto(i, "idle")
  /\ \/ UNCHANGED claimed
     \/ CheckAt(i, "claim") /\ claimed' = claimed \cup {check[i].alert}
  /\ UNCHANGED <<runVars, reported>>

InstanceDies(i) ==
  /\ ~CheckAt(i, "down") /\ WatchFault
  /\ CheckGoto(i, "down")
  /\ UNCHANGED <<runVars, claimed, reported>>

\* onApplicationBootstrap.
InstanceBoots(i) ==
  /\ CheckAt(i, "down")
  /\ CheckGoto(i, "due")
  /\ UNCHANGED <<runVars, claimed, reported, watchFaults>>

\* dailyBackup of the instances that run: only success leaves a heartbeat.
CronSucceeds ==
  /\ cronDue /\ \E i \in Instance : ~CheckAt(i, "down")
  /\ cronDue' = FALSE /\ daily' = 0
  /\ UNCHANGED <<hour, manual, check, claimed, reported, watchFaults>>

\* It fails, is busy, no instance runs, or the heartbeat cannot be written.
CronLeavesNothing ==
  /\ cronDue
  /\ cronDue' = FALSE
  /\ UNCHANGED <<hour, daily, manual, check, claimed, reported, watchFaults>>

ManualSucceeds ==
  /\ manual # 0 /\ \E i \in Instance : ~CheckAt(i, "down")
  /\ manual' = 0
  /\ UNCHANGED <<hour, cronDue, daily, check, claimed, reported, watchFaults>>

HourOlder(age) == IF age = Life THEN Life ELSE age + 1

\* cleanOrphanUploads begins every hour with the check.
Hourly == [i \in Instance |-> IF CheckAt(i, "down") THEN check[i]
                                                    ELSE [check[i] EXCEPT !.pc = "due"]]

\* Faulty: alert keys without the date in them.
ClaimedForever == claimed

\* The date is in the keys: none of a new day is claimed.
ClaimedNextDay == {}

\* An hour passes; the checks of the last one are over.
HourPasses ==
  /\ ~cronDue /\ \A i \in Instance : check[i].pc \in {"idle", "down"}
  /\ hour' = (hour + 1) % DayHours
  /\ cronDue' = (hour' = 0)
  /\ daily' = HourOlder(daily) /\ manual' = HourOlder(manual)
  /\ check' = Hourly
  /\ claimed' = IF hour' = 0 THEN ClaimedNextDay ELSE claimed
  /\ reported' = IF hour' = 0 THEN {} ELSE reported
  /\ UNCHANGED watchFaults

CheckStep(i) ==
  \/ ReadDaily(i) \/ ReadManual(i) \/ ClaimAlert(i) \/ RecordAlert(i)
  \/ InstanceBoots(i)

WatchNext ==
  \/ \E i \in Instance : CheckStep(i) \/ CheckFails(i) \/ InstanceDies(i)
  \/ CronSucceeds \/ CronLeavesNothing \/ ManualSucceeds \/ HourPasses

WatchSpec == WatchInit /\ [][WatchNext]_watchVars

\* Checks go on, dead instances are restarted, the cron job ends and time passes.
FairWatchSpec ==
  /\ WatchSpec
  /\ WF_watchVars(\E i \in Instance : CheckStep(i))
  /\ WF_watchVars(CronLeavesNothing) /\ WF_watchVars(HourPasses)

-----------------------------------------------------------------------------
(* When neither kind of backup has succeeded for more than a day and an hour,
   an alert gets into the error log on that day or a later one, or a backup
   succeeds, although checks fail and instances die between claiming an alert
   and recording it.                                                          *)
Missing == daily > MaxAge /\ manual > MaxAge
MissingIsReported == Missing ~> (reported # {} \/ ~Missing)
=============================================================================
