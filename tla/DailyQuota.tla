----------------------------- MODULE DailyQuota -----------------------------
(***************************************************************************)
(* The daily quotas: what one user may do of one kind in a day (manual     *)
(* backups, uploads, test notifications, new accounts).  A request takes   *)
(* one from the day's counter, does its work, and gives it back to the     *)
(* same key if the work fails.  Requests overlap, midnight comes between   *)
(* any two of their steps, and the counter's Redis may fail.               *)
(***************************************************************************)
EXTENDS Integers, FiniteSets

CONSTANTS
  Attempt,        \* requests of the user that may overlap
  QuotaLimit,     \* MANUAL_BACKUP_DAILY_LIMIT, UPLOAD_DAILY_LIMIT, ...
  MaxUsed,        \* bound on the counter
  MaxQuotaFaults  \* bound on failing Redis calls

ASSUME QuotaAssumption ==
  /\ QuotaLimit \in Nat /\ MaxQuotaFaults \in Nat
  /\ MaxUsed \in Nat /\ QuotaLimit <= MaxUsed

VARIABLES
  attempt,   \* attempt[a]: what a request is doing and on which key it was charged
  used,      \* quota:<action>:<userId>:<today>
  done,      \* history: charged requests that succeeded today
  quotaFaults

quotaVars == <<attempt, used, done, quotaFaults>>

AttemptState ==
  [pc      : {"idle", "work", "refund"},
   charged : {"no", "today", "earlier"}]     \* DailyQuotaConsume

NoAttempt == [pc |-> "idle", charged |-> "no"]

QuotaTypeOK ==
  /\ attempt \in [Attempt -> AttemptState]
  /\ used \in 0..MaxUsed /\ done \in 0..MaxUsed
  /\ quotaFaults \in 0..MaxQuotaFaults

QuotaInit ==
  /\ attempt = [a \in Attempt |-> NoAttempt]
  /\ used = 0 /\ done = 0 /\ quotaFaults = 0

-----------------------------------------------------------------------------
SetAttempt(a, pc, charged) ==
  attempt' = [attempt EXCEPT ![a] = [pc |-> pc, charged |-> charged]]
EndAttempt(a) == attempt' = [attempt EXCEPT ![a] = NoAttempt]
QuotaFault == quotaFaults < MaxQuotaFaults /\ quotaFaults' = quotaFaults + 1

\* INCR in one script: what is refused has raised the counter too.
Consume(a) ==
  /\ attempt[a].pc = "idle" /\ used < MaxUsed
  /\ used' = used + 1
  /\ IF used' > QuotaLimit THEN UNCHANGED attempt ELSE SetAttempt(a, "work", "today")
  /\ UNCHANGED <<done, quotaFaults>>

\* The script fails, executed or not: the request goes on and is not charged.
ConsumeFails(a) ==
  /\ attempt[a].pc = "idle" /\ used < MaxUsed /\ QuotaFault
  /\ used' \in {used, used + 1}
  /\ SetAttempt(a, "work", "no")
  /\ UNCHANGED done

WorkSucceeds(a) ==
  /\ attempt[a].pc = "work"
  /\ done' = IF attempt[a].charged = "today" THEN done + 1 ELSE done
  /\ EndAttempt(a)
  /\ UNCHANGED <<used, quotaFaults>>

\* The callers' catch blocks: a backup is busy or fails, an insert fails, ...
WorkFails(a) ==
  /\ attempt[a].pc = "work"
  /\ IF attempt[a].charged = "no" THEN EndAttempt(a)
                                  ELSE SetAttempt(a, "refund", attempt[a].charged)
  /\ UNCHANGED <<used, done, quotaFaults>>

\* Faulty: the key of the day it is, whichever was charged.
RefundToday(a) ==
  /\ attempt[a].pc = "refund"
  /\ used' = IF used > 0 THEN used - 1 ELSE used
  /\ EndAttempt(a)
  /\ UNCHANGED <<done, quotaFaults>>

\* Faulty: a bare DECR of it, be it there or not.
RefundByDecr(a) ==
  /\ attempt[a].pc = "refund"
  /\ used' = used - 1
  /\ EndAttempt(a)
  /\ UNCHANGED <<done, quotaFaults>>

\* rollbackDailyQuota: the key that was charged, never below zero.
Refund(a) ==
  /\ attempt[a].pc = "refund"
  /\ used' = IF attempt[a].charged = "today" /\ used > 0 THEN used - 1 ELSE used
  /\ EndAttempt(a)
  /\ UNCHANGED <<done, quotaFaults>>

\* rollbackDailyQuotaQuietly: what was charged is lost, the request ends all the same.
RefundFails(a) ==
  /\ attempt[a].pc = "refund" /\ QuotaFault
  /\ EndAttempt(a)
  /\ UNCHANGED <<used, done>>

\* Another day, another key; the old one expires.
Midnight ==
  /\ used' = 0 /\ done' = 0
  /\ attempt' = [a \in Attempt |->
       IF attempt[a].charged = "today" THEN [attempt[a] EXCEPT !.charged = "earlier"]
                                       ELSE attempt[a]]
  /\ UNCHANGED quotaFaults

QuotaNext ==
  \/ \E a \in Attempt : \/ Consume(a) \/ ConsumeFails(a) \/ WorkSucceeds(a) \/ WorkFails(a)
                        \/ Refund(a) \/ RefundFails(a)
  \/ Midnight

QuotaSpec == QuotaInit /\ [][QuotaNext]_quotaVars

-----------------------------------------------------------------------------
(* The counter covers every request of today that was charged and is under way
   or has succeeded, whatever else was refused, failed or given back, also
   around midnight: no more than QuotaLimit of them succeed in a day.         *)
Charged == {a \in Attempt : attempt[a].charged = "today"}
QuotaCovers == used >= done + Cardinality(Charged) /\ done + Cardinality(Charged) <= QuotaLimit
=============================================================================
