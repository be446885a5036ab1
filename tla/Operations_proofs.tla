------------------------- MODULE Operations_proofs --------------------------
(***************************************************************************)
(* Proofs about what keeps the site running: DailyQuota and Backup, for any*)
(* number of requests, runs and failures, and ErrorLogs, for any number of *)
(* records, rules and patterns and any life of the cache.                  *)
(***************************************************************************)
EXTENDS DailyQuota, Backup, ErrorLogs, FiniteSetTheorems, FunctionTheorems, SequenceTheorems, TLAPS

-----------------------------------------------------------------------------
(* The quota.  The counter covers the charged requests because only a request
   that is not charged begins, and because one that ends was charged once; the
   counter's own cap is never reached by a success.                           *)
QuotaInv ==
  /\ attempt \in [Attempt -> AttemptState]
  /\ used \in 0..MaxUsed /\ done \in Nat /\ quotaFaults \in 0..MaxQuotaFaults
  /\ \A a \in Attempt : /\ attempt[a].pc = "idle" => attempt[a].charged = "no"
                        /\ attempt[a].pc = "refund" => attempt[a].charged # "no"
  /\ IsFiniteSet(Charged)
  /\ QuotaCovers

LEMMA ChargedCounted == ASSUME QuotaInv PROVE Cardinality(Charged) \in Nat
  BY FS_CardinalityType DEF QuotaInv

\* What a step of one request does to the set of charged requests.
LEMMA ChargedBy ==
  ASSUME QuotaInv, NEW a \in Attempt, NEW s \in AttemptState,
         attempt' = [attempt EXCEPT ![a] = s]
  PROVE  /\ attempt' \in [Attempt -> AttemptState]
         /\ Charged' = IF s.charged = "today" THEN Charged \cup {a} ELSE Charged \ {a}
         /\ IsFiniteSet(Charged')
         /\ Cardinality(Charged') =
              IF s.charged = "today"
                THEN IF attempt[a].charged = "today" THEN Cardinality(Charged) ELSE Cardinality(Charged) + 1
                ELSE IF attempt[a].charged = "today" THEN Cardinality(Charged) - 1 ELSE Cardinality(Charged)
  <1>1. attempt' \in [Attempt -> AttemptState]
    BY DEF QuotaInv
  <1>2. Charged' = IF s.charged = "today" THEN Charged \cup {a} ELSE Charged \ {a}
    BY DEF QuotaInv, Charged
  <1>3. a \in Charged <=> attempt[a].charged = "today"
    BY DEF Charged
  <1>4. IsFiniteSet(Charged)
    BY DEF QuotaInv
  <1>5. QED
    BY <1>1, <1>2, <1>3, <1>4, FS_AddElement, FS_RemoveElement

\* The end of a request, charged or not.
LEMMA EndsCharge ==
  ASSUME QuotaInv, NEW a \in Attempt, EndAttempt(a)
  PROVE  /\ attempt' \in [Attempt -> AttemptState]
         /\ \A b \in Attempt : attempt'[b] = IF b = a THEN NoAttempt ELSE attempt[b]
         /\ IsFiniteSet(Charged') /\ Cardinality(Charged') \in Nat
         /\ Cardinality(Charged) =
              IF attempt[a].charged = "today" THEN Cardinality(Charged') + 1 ELSE Cardinality(Charged')
  <1>1. NoAttempt \in AttemptState /\ NoAttempt.charged # "today"
    BY DEF NoAttempt, AttemptState
  <1>2. attempt' = [attempt EXCEPT ![a] = NoAttempt] /\ attempt \in [Attempt -> AttemptState]
    BY DEF EndAttempt, QuotaInv
  <1>3. /\ IsFiniteSet(Charged')
        /\ Cardinality(Charged') =
             IF attempt[a].charged = "today" THEN Cardinality(Charged) - 1 ELSE Cardinality(Charged)
    BY <1>1, <1>2, ChargedBy
  <1>4. Cardinality(Charged') \in Nat
    BY <1>3, FS_CardinalityType
  <1>5. QED
    BY <1>1, <1>2, <1>3, <1>4, ChargedCounted

LEMMA QuotaStep ==
  ASSUME QuotaInv, NEW a \in Attempt,
         \/ Consume(a) \/ ConsumeFails(a) \/ WorkSucceeds(a) \/ WorkFails(a)
         \/ Refund(a) \/ RefundFails(a)
  PROVE  QuotaInv'
  <1> USE QuotaAssumption
  <1>0. /\ attempt[a] \in AttemptState /\ NoAttempt \in AttemptState /\ Cardinality(Charged) \in Nat
        /\ NoAttempt.charged = "no" /\ NoAttempt.pc = "idle"
    BY ChargedCounted DEF QuotaInv, NoAttempt, AttemptState
  <1>1. CASE Consume(a)
    <2>1. CASE used + 1 > QuotaLimit
      <3>1. attempt' = attempt
        BY <1>1, <2>1 DEF Consume
      <3>2. Charged' = Charged
        BY <3>1 DEF Charged
      <3>3. QED
        BY <1>0, <1>1, <3>1, <3>2 DEF Consume, QuotaInv, QuotaCovers
    <2>2. CASE used + 1 <= QuotaLimit
      <3> DEFINE s == [pc |-> "work", charged |-> "today"]
      <3>1. s \in AttemptState /\ attempt' = [attempt EXCEPT ![a] = s]
        BY <1>1, <2>2 DEF Consume, SetAttempt, AttemptState, QuotaInv
      <3>2. attempt[a].charged = "no"
        BY <1>1 DEF Consume, QuotaInv
      <3>3. Cardinality(Charged') = Cardinality(Charged) + 1 /\ IsFiniteSet(Charged')
        BY <3>1, <3>2, ChargedBy
      <3>4. QED
        BY <1>0, <1>1, <2>2, <3>1, <3>3, ChargedBy DEF Consume, QuotaInv, QuotaCovers
    <2>3. QED
      BY <2>1, <2>2 DEF QuotaInv
  <1>2. CASE ConsumeFails(a)
    <2> DEFINE s == [pc |-> "work", charged |-> "no"]
    <2>1. s \in AttemptState /\ attempt' = [attempt EXCEPT ![a] = s]
      BY <1>2 DEF ConsumeFails, SetAttempt, AttemptState
    <2>2. attempt[a].charged = "no"
      BY <1>2 DEF ConsumeFails, QuotaInv
    <2>3. Cardinality(Charged') = Cardinality(Charged) /\ IsFiniteSet(Charged')
      BY <2>1, <2>2, ChargedBy
    <2>4. QED
      BY <1>0, <1>2, <2>1, <2>3, ChargedBy DEF ConsumeFails, QuotaFault, QuotaInv, QuotaCovers
  <1>3. CASE WorkSucceeds(a)
    <2>1. EndAttempt(a)
      BY <1>3 DEF WorkSucceeds
    <2>2. QED
      BY <1>0, <1>3, <2>1, EndsCharge DEF WorkSucceeds, QuotaInv, QuotaCovers, AttemptState
  <1>4. CASE WorkFails(a)
    <2>1. CASE attempt[a].charged = "no"
      <3>1. attempt' = [attempt EXCEPT ![a] = NoAttempt]
        BY <1>4, <2>1 DEF WorkFails, EndAttempt
      <3>2. QED
        BY <1>0, <1>4, <2>1, <3>1, ChargedBy DEF WorkFails, QuotaInv, QuotaCovers
    <2>2. CASE attempt[a].charged # "no"
      <3> DEFINE s == [pc |-> "refund", charged |-> attempt[a].charged]
      <3>1. s \in AttemptState /\ attempt' = [attempt EXCEPT ![a] = s]
        BY <1>0, <1>4, <2>2 DEF WorkFails, SetAttempt, AttemptState
      <3>3. s.pc = "refund" /\ s.charged = attempt[a].charged
        OBVIOUS
      <3> HIDE DEF s
      <3>2. QED
        BY <1>0, <1>4, <2>2, <3>1, <3>3, ChargedBy, ZenonT(40) DEF WorkFails, QuotaInv, QuotaCovers
    <2>3. QED
      BY <2>1, <2>2
  <1>5. CASE Refund(a)
    <2>1. EndAttempt(a)
      BY <1>5 DEF Refund
    <2>2. QED
      BY <1>0, <1>5, <2>1, EndsCharge DEF Refund, QuotaInv, QuotaCovers, AttemptState
  <1>6. CASE RefundFails(a)
    <2>1. EndAttempt(a)
      BY <1>6 DEF RefundFails
    <2>2. QED
      BY <1>0, <1>6, <2>1, EndsCharge DEF RefundFails, QuotaFault, QuotaInv, QuotaCovers, AttemptState
  <1>7. QED
    BY <1>1, <1>2, <1>3, <1>4, <1>5, <1>6

LEMMA MidnightStep == ASSUME QuotaInv, Midnight PROVE QuotaInv'
  <1>1. Charged' = {}
    BY DEF Midnight, Charged, QuotaInv, AttemptState
  <1>2. attempt' \in [Attempt -> AttemptState]
    BY DEF Midnight, QuotaInv, AttemptState
  <1>3. \A a \in Attempt : attempt'[a].pc = attempt[a].pc /\ (attempt'[a].charged = "no" <=> attempt[a].charged = "no")
    BY DEF Midnight, QuotaInv, AttemptState
  <1>4. IsFiniteSet({}) /\ Cardinality({}) = 0
    BY FS_EmptySet
  <1>5. QED
    BY <1>1, <1>2, <1>3, <1>4, QuotaAssumption DEF Midnight, QuotaInv, QuotaCovers

LEMMA QuotaInductive == QuotaSpec => []QuotaInv
  <1>1. QuotaInit => QuotaInv
    <2> SUFFICES ASSUME QuotaInit PROVE QuotaInv
      OBVIOUS
    <2>1. Charged = {} /\ attempt \in [Attempt -> AttemptState]
      BY DEF QuotaInit, Charged, NoAttempt, AttemptState
    <2>2. QED
      BY <2>1, FS_EmptySet, QuotaAssumption DEF QuotaInit, QuotaInv, QuotaCovers, NoAttempt
  <1>2. QuotaInv /\ [QuotaNext]_quotaVars => QuotaInv'
    <2> SUFFICES ASSUME QuotaInv, [QuotaNext]_quotaVars PROVE QuotaInv'
      OBVIOUS
    <2>1. CASE UNCHANGED quotaVars
      BY <2>1 DEF quotaVars, QuotaInv, QuotaCovers, Charged
    <2>2. QED
      BY <2>1, QuotaStep, MidnightStep DEF QuotaNext
  <1>3. QED
    BY <1>1, <1>2, PTL DEF QuotaSpec

(* Whatever requests overlap, fail and are given back around midnight, the counter
   covers the charged ones, of which no more than the limit succeed in a day.      *)
THEOREM QuotaIsCovered == QuotaSpec => [](QuotaTypeOK /\ QuotaCovers)
  <1>1. QuotaInv => QuotaTypeOK /\ QuotaCovers
    BY ChargedCounted, QuotaAssumption DEF QuotaInv, QuotaTypeOK, QuotaCovers
  <1>2. QED
    BY <1>1, QuotaInductive, PTL

-----------------------------------------------------------------------------
(* Sequences without repetition. *)
Distinct(s) == \A i, j \in DOMAIN s : s[i] = s[j] => i = j

LEMMA Removed ==
  ASSUME NEW S, NEW s \in Seq(S), NEW i \in DOMAIN s
  PROVE  /\ RemoveAt(s, i) \in Seq(S)
         /\ Len(RemoveAt(s, i)) = Len(s) - 1
         /\ \A j \in 1..(Len(s) - 1) : RemoveAt(s, i)[j] = IF j < i THEN s[j] ELSE s[j + 1]
  <1> DEFINE front == SubSeq(s, 1, i - 1)
             back == SubSeq(s, i + 1, Len(s))
  <1>1. i \in 1..Len(s) /\ Len(s) \in Nat /\ \A j \in 1..Len(s) : s[j] \in S
    BY LenProperties
  <1>2. /\ front \in Seq(S) /\ Len(front) = i - 1
        /\ \A j \in 1..(i - 1) : front[j] = s[j]
    BY <1>1, SubSeqProperties
  <1>3. /\ back \in Seq(S) /\ Len(back) = Len(s) - i
        /\ \A j \in 1..(Len(s) - i) : back[j] = s[j + i]
    BY <1>1, SubSeqProperties
  <1> HIDE DEF front, back
  <1>4. /\ front \o back \in Seq(S) /\ Len(front \o back) = Len(front) + Len(back)
        /\ \A j \in 1..(Len(front) + Len(back)) :
             (front \o back)[j] = IF j <= Len(front) THEN front[j] ELSE back[j - Len(front)]
    BY <1>2, <1>3, ConcatProperties
  <1>5. Len(front) + Len(back) = Len(s) - 1
    BY <1>1, <1>2, <1>3
  <1>6. ASSUME NEW j \in 1..(Len(s) - 1)
        PROVE  (front \o back)[j] = IF j < i THEN s[j] ELSE s[j + 1]
    <2>0. i \in Int /\ j \in Int
      BY <1>1, <1>6
    <2>1. CASE j < i
      BY <1>1, <1>2, <1>4, <1>5, <1>6, <2>1
    <2>2. CASE ~(j < i)
      <3>0. j >= i
        BY <2>0, <2>2
      <3>1. PICK k \in 1..(Len(s) - i) : k = j - (i - 1)
        BY <1>1, <1>6, <3>0
      <3>2. k + i = j + 1 /\ k = j - Len(front) /\ j \in 1..(Len(front) + Len(back)) /\ ~(j <= Len(front))
        <4>1. Len(front) = i - 1 /\ Len(front) + Len(back) = Len(s) - 1 /\ Len(s) \in Nat
          BY <1>1, <1>2, <1>5
        <4> HIDE DEF front, back
        <4> QED
          BY <1>6, <2>0, <3>0, <3>1, <4>1, SMTT(30)
      <3>3. (front \o back)[j] = back[k]
        BY <1>4, <3>2
      <3>4. back[k] = s[j + 1]
        BY <1>3, <3>1, <3>2
      <3>5. QED
        BY <1>1, <1>6, <2>2, <3>3, <3>4
    <2>3. QED
      BY <2>1, <2>2, Zenon
  <1>7. RemoveAt(s, i) = front \o back
    BY DEF RemoveAt, front, back
  <1>8. QED
    BY <1>4, <1>5, <1>6, <1>7

LEMMA RemovedDistinct ==
  ASSUME NEW S, NEW s \in Seq(S), Distinct(s), NEW i \in DOMAIN s
  PROVE  Distinct(RemoveAt(s, i))
  <1>1. Len(s) \in Nat /\ DOMAIN s = 1..Len(s)
    BY LenProperties
  <1> DEFINE t == RemoveAt(s, i)
  <1>2. /\ t \in Seq(S) /\ Len(t) = Len(s) - 1
        /\ \A j \in 1..(Len(s) - 1) : t[j] = IF j < i THEN s[j] ELSE s[j + 1]
    BY Removed
  <1> HIDE DEF t
  <1>3. DOMAIN t = 1..(Len(s) - 1)
    BY <1>2, LenProperties
  <1>4. ASSUME NEW j \in DOMAIN t, NEW k \in DOMAIN t, t[j] = t[k]
        PROVE  j = k
    <2>1. s[IF j < i THEN j ELSE j + 1] = s[IF k < i THEN k ELSE k + 1]
      BY <1>2, <1>3, <1>4
    <2>2. (IF j < i THEN j ELSE j + 1) = (IF k < i THEN k ELSE k + 1)
      BY <1>1, <1>3, <2>1 DEF Distinct
    <2>3. QED
      BY <1>1, <1>3, <2>2
  <1>5. QED
    BY <1>4 DEF Distinct, t

LEMMA AppendedDistinct ==
  ASSUME NEW S, NEW s \in Seq(S), Distinct(s), NEW e \in S, e \notin ToSet(s)
  PROVE  Append(s, e) \in Seq(S) /\ Distinct(Append(s, e))
  BY LenProperties, AppendProperties DEF Distinct, ToSet

LEMMA CountedOnce ==
  ASSUME NEW S, NEW s \in Seq(S), Distinct(s)
  PROVE  Cardinality(ToSet(s)) = Len(s)
  <1>1. Len(s) \in Nat /\ s \in [1..Len(s) -> S] /\ DOMAIN s = 1..Len(s)
    BY LenProperties
  <1>2. s \in [1..Len(s) -> ToSet(s)] /\ \A e \in ToSet(s) : \E i \in 1..Len(s) : s[i] = e
    BY <1>1 DEF ToSet
  <1>3. \A i, j \in 1..Len(s) : s[i] = s[j] => i = j
    BY <1>1 DEF Distinct
  <1>4. s \in Bijection(1..Len(s), ToSet(s))
    BY <1>2, <1>3, Fun_IsBij
  <1>5. ExistsBijection(1..Len(s), ToSet(s))
    BY <1>4 DEF ExistsBijection
  <1>6. QED
    BY <1>1, <1>5, FS_CountingElements

-----------------------------------------------------------------------------
(* Backups.  A run that holds its lock and has not lost it is the one the lock
   names.  A run that has been alone sees the dumps nobody else changes: what it
   has listed are all of them, and what it is going to delete are none of the
   MaxBackups newest.                                                          *)
LockOwned == \A r \in Runner : run[r].held /\ ~run[r].lost => lock = r

Fitting(s, d) ==
  /\ s.pc = "stat" => s.listed = ToSet(d)
  /\ s.pc = "unlink" => \A i \in DOMAIN d : d[i] \in s.doomed => i <= Len(d) - MaxBackups

AloneInv ==
  \A r \in Runner : run[r].alone /\ IsWorking(r) =>
    (\A q \in Runner \ {r} : ~IsWorking(q)) /\ Fitting(run[r], dumps)

RunsTyped == run \in [Runner -> RunState] /\ lock \in Runner \cup {NoRunner}
FilesTyped == dumps \in Seq(File) /\ Distinct(dumps) /\ leftovers \in Nat
BackupTyped == RunsTyped /\ FilesTyped /\ backupFaults \in 0..MaxBackupFaults

BackupInv == BackupTyped /\ LockOwned /\ AloneInv

LEMMA SetRunTyped ==
  ASSUME RunsTyped, NEW r \in Runner, NEW s \in RunState, SetRun(r, s)
  PROVE  /\ run' \in [Runner -> RunState]
         /\ \A q \in Runner : run'[q] = IF q = r THEN s ELSE run[q]
  BY DEF RunsTyped, SetRun

LEMMA NotifyingTyped ==
  ASSUME RunsTyped, NEW r \in Runner
  PROVE  /\ IdleRun \in RunState /\ Notifying(r) \in RunState
         /\ Notifying(r).held = run[r].held /\ Notifying(r).lost = run[r].lost
         /\ Notifying(r).pc = "mail" /\ IdleRun.pc = "idle" /\ ~IdleRun.held
  BY DEF RunsTyped, RunState, IdleRun, Notifying, Working

\* A run that writes only its own record keeps the lock's owner.
LEMMA OwnLock ==
  ASSUME RunsTyped, LockOwned, NEW r \in Runner, NEW s \in RunState, SetRun(r, s),
         lock' = lock, s.held => run[r].held /\ s.lost = run[r].lost
  PROVE  LockOwned'
  BY SetRunTyped DEF LockOwned

\* And it disturbs no run that is alone, unless that is itself.
LEMMA OwnFiles ==
  ASSUME RunsTyped, AloneInv, NEW r \in Runner, NEW s \in RunState, SetRun(r, s),
         s.pc \in Working => IsWorking(r) /\ s.alone = run[r].alone,
         s.pc \in Working /\ s.alone => Fitting(s, dumps'),
         dumps' = dumps \/ IsWorking(r)
  PROVE  AloneInv'
  <1>1. \A q \in Runner : run'[q] = IF q = r THEN s ELSE run[q]
    BY SetRunTyped
  <1>2. ASSUME NEW q \in Runner, run'[q].alone, run'[q].pc \in Working
        PROVE  (\A p \in Runner \ {q} : run'[p].pc \notin Working) /\ Fitting(run'[q], dumps')
    <2>1. CASE q = r
      BY <1>1, <1>2, <2>1 DEF AloneInv, IsWorking
    <2>2. CASE q # r
      <3>1. run'[q] = run[q] /\ ~IsWorking(r) /\ s.pc \notin Working
        BY <1>1, <1>2, <2>2 DEF AloneInv, IsWorking
      <3>2. QED
        BY <1>1, <1>2, <2>2, <3>1 DEF AloneInv, IsWorking
    <2>3. QED
      BY <2>1, <2>2
  <1>3. QED
    BY <1>2 DEF AloneInv, IsWorking

\* Of what is listed, the oldest beyond the MaxBackups newest.
LEMMA OldestFit ==
  ASSUME NEW d \in Seq(File), Distinct(d)
  PROVE  LET doomed == Oldest(d, ToSet(d), Cardinality(ToSet(d)) - MaxBackups)
         IN  doomed \subseteq File
             /\ \A i \in DOMAIN d : d[i] \in doomed => i <= Len(d) - MaxBackups
  <1>1. Len(d) \in Nat /\ DOMAIN d = 1..Len(d) /\ \A i \in 1..Len(d) : d[i] \in File
    BY LenProperties
  <1>2. Cardinality(ToSet(d)) = Len(d)
    BY CountedOnce
  <1> DEFINE doomed == Oldest(d, ToSet(d), Len(d) - MaxBackups)
  <1>3. doomed \subseteq File
    BY <1>1 DEF Oldest
  <1>4. ASSUME NEW i \in DOMAIN d, d[i] \in doomed
        PROVE  i <= Len(d) - MaxBackups
    <2>1. PICK k \in DOMAIN d :
            d[k] = d[i] /\ Cardinality({j \in 1..k : d[j] \in ToSet(d)}) <= Len(d) - MaxBackups
      BY <1>4 DEF Oldest
    <2>2. k = i /\ i \in Int
      BY <1>1, <1>4, <2>1 DEF Distinct
    <2>3. {j \in 1..i : d[j] \in ToSet(d)} = 1..i
      BY <1>1, <1>4 DEF ToSet
    <2>4. Cardinality(1..i) = i
      BY <1>1, <1>4, FS_Interval
    <2>5. QED
      BY <2>1, <2>2, <2>3, <2>4
  <1>5. QED
    BY <1>2, <1>3, <1>4

\* What UnlinkBackup leaves: a doomed file lies below the newest, before and after.
LEMMA UnlinkFits ==
  ASSUME NEW d \in Seq(File), Distinct(d), NEW i \in DOMAIN d, NEW doomed,
         d[i] \in doomed, \A j \in DOMAIN d : d[j] \in doomed => j <= Len(d) - MaxBackups
  PROVE  LET t == RemoveAt(d, i)
         IN  /\ \A j \in DOMAIN t : t[j] \in doomed => j <= Len(t) - MaxBackups
             /\ \A k \in DOMAIN d : k > Len(d) - MaxBackups => d[k] \in ToSet(t)
  <1> DEFINE t == RemoveAt(d, i)
  <1>1. /\ Len(d) \in Nat /\ DOMAIN d = 1..Len(d) /\ i \in 1..Len(d)
        /\ i <= Len(d) - MaxBackups /\ MaxBackups \in Nat
    BY LenProperties, BackupAssumption
  <1>2. /\ t \in Seq(File) /\ Len(t) = Len(d) - 1
        /\ \A j \in 1..(Len(d) - 1) : t[j] = IF j < i THEN d[j] ELSE d[j + 1]
    BY Removed
  <1> HIDE DEF t
  <1>3. DOMAIN t = 1..(Len(d) - 1)
    BY <1>2, LenProperties
  <1>4. ASSUME NEW j \in DOMAIN t, t[j] \in doomed
        PROVE  j <= Len(t) - MaxBackups
    <2>1. CASE j < i
      BY <1>1, <1>2, <1>3, <2>1
    <2>2. CASE ~(j < i)
      <3>1. t[j] = d[j + 1] /\ j + 1 \in DOMAIN d
        BY <1>1, <1>2, <1>3, <1>4, <2>2
      <3>2. j + 1 <= Len(d) - MaxBackups
        BY <1>4, <3>1
      <3>3. QED
        BY <1>1, <1>2, <1>3, <1>4, <3>2
    <2>3. QED
      BY <2>1, <2>2
  <1>5. ASSUME NEW k \in DOMAIN d, k > Len(d) - MaxBackups
        PROVE  d[k] \in ToSet(t)
    <2>1. PICK j \in 1..(Len(d) - 1) : k = j + 1
      BY <1>1, <1>5
    <2>2. ~(j < i)
      BY <1>1, <1>5, <2>1
    <2>3. t[j] = d[k]
      BY <1>2, <2>1, <2>2
    <2>4. QED
      BY <1>3, <2>1, <2>3 DEF ToSet
  <1>6. QED
    BY <1>4, <1>5 DEF t

LEMMA FilesKept ==
  ASSUME FilesTyped, dumps' = dumps, leftovers' \in Nat
  PROVE  FilesTyped'
  BY DEF FilesTyped

LEMMA RunInductive ==
  ASSUME BackupInv, NEW r \in Runner, RunStep(r)
  PROVE  BackupInv'
  <1>0. /\ RunsTyped /\ FilesTyped /\ LockOwned /\ AloneInv
        /\ run[r] \in RunState /\ IdleRun \in RunState /\ Notifying(r) \in RunState
        /\ backupFaults \in 0..MaxBackupFaults /\ MaxBackupFaults \in Nat
    BY NotifyingTyped, BackupAssumption DEF BackupInv, BackupTyped, RunsTyped
  <1>1. CASE TakeLock(r)
    <2> DEFINE s == [IdleRun EXCEPT !.pc = "start", !.held = TRUE]
    <2>1. s \in RunState /\ s.pc \notin Working /\ SetRun(r, s)
      BY <1>1 DEF TakeLock, IdleRun, RunState, Working
    <2> HIDE DEF s
    <2>2. RunsTyped'
      BY <1>0, <1>1, <2>1, SetRunTyped DEF TakeLock, RunsTyped
    <2>3. LockOwned'
      BY <1>0, <1>1, <2>1, SetRunTyped, BackupAssumption DEF TakeLock, LockOwned
    <2>4. AloneInv'
      BY <1>0, <1>1, <2>1, OwnFiles DEF TakeLock, fileVars
    <2>5. FilesTyped'
      BY <1>0, <1>1 DEF TakeLock, fileVars, FilesTyped
    <2>6. QED
      BY <1>0, <1>1, <2>2, <2>3, <2>4, <2>5 DEF TakeLock, BackupInv, BackupTyped
  <1>2. CASE LockDegraded(r)
    <2> DEFINE s == [IdleRun EXCEPT !.pc = "start"]
    <2>1. s \in RunState /\ s.pc \notin Working /\ SetRun(r, s) /\ ~s.held
      BY <1>2 DEF LockDegraded, IdleRun, RunState, Working
    <2> HIDE DEF s
    <2>2. RunsTyped'
      BY <1>0, <1>2, <2>1, SetRunTyped DEF LockDegraded, RunsTyped
    <2>3. LockOwned'
      BY <1>0, <1>2, <2>1, SetRunTyped, BackupAssumption DEF LockDegraded, LockOwned
    <2>4. AloneInv'
      BY <1>0, <1>2, <2>1, OwnFiles DEF LockDegraded, fileVars
    <2>5. FilesTyped'
      BY <1>0, <1>2 DEF LockDegraded, fileVars, FilesTyped
    <2>6. QED
      BY <1>0, <1>2, <2>2, <2>3, <2>4, <2>5 DEF LockDegraded, BackupFault, BackupInv, BackupTyped
  <1>3. CASE StartDump(r)
    <2> DEFINE others == {q \in Runner \ {r} : IsWorking(q)}
    <2>1. run' = [q \in Runner |->
                   IF q = r THEN [run[r] EXCEPT !.pc = "dump", !.alone = others = {}]
                   ELSE [run[q] EXCEPT !.alone = run[q].alone /\ q \notin others]]
      BY <1>3 DEF StartDump
    <2>2. \A q \in Runner : run[q] \in RunState
      BY <1>0 DEF RunsTyped
    <2>3. [run[r] EXCEPT !.pc = "dump", !.alone = others = {}] \in RunState
      BY <2>2 DEF RunState, Working
    <2>4. \A q \in Runner \ {r} : [run[q] EXCEPT !.alone = run[q].alone /\ q \notin others] \in RunState
      BY <2>2 DEF RunState
    <2>5. /\ run'[r].pc = "dump" /\ run'[r].held = run[r].held /\ run'[r].lost = run[r].lost
          /\ run'[r].alone <=> others = {}
      BY <2>1, <2>2 DEF RunState
    <2>6. \A q \in Runner \ {r} :
            /\ run'[q].pc = run[q].pc /\ run'[q].held = run[q].held /\ run'[q].lost = run[q].lost
            /\ run'[q].listed = run[q].listed /\ run'[q].doomed = run[q].doomed
            /\ run'[q].alone <=> (run[q].alone /\ q \notin others)
      BY <2>1, <2>2 DEF RunState
    <2>7. RunsTyped'
      <3>1. run' \in [Runner -> RunState]
        BY <2>1, <2>3, <2>4
      <3>2. QED
        BY <1>0, <1>3, <3>1 DEF StartDump, RunsTyped
    <2>8. LockOwned'
      <3>1. \A q \in Runner : run'[q].held = run[q].held /\ run'[q].lost = run[q].lost
        BY <2>5, <2>6
      <3>2. QED
        BY <1>0, <1>3, <3>1, ZenonT(40) DEF StartDump, LockOwned
    <2>9. AloneInv'
      BY <1>0, <1>3, <2>5, <2>6, ZenonT(40) DEF StartDump, AloneInv, Fitting, IsWorking, fileVars
    <2>10. FilesTyped'
      BY <1>0, <1>3 DEF StartDump, fileVars, FilesTyped
    <2>11. QED
      BY <1>0, <1>3, <2>7, <2>8, <2>9, <2>10 DEF StartDump, BackupInv, BackupTyped
  <1>4. CASE DumpFails(r)
    <2>1. LockOwned' /\ AloneInv' /\ RunsTyped'
      BY <1>0, <1>4, OwnLock, OwnFiles, SetRunTyped, NotifyingTyped
      DEF DumpFails, fileVars, Working, RunsTyped
    <2>2. FilesTyped'
      BY <1>0, <1>4 DEF DumpFails, fileVars, FilesTyped
    <2>3. QED
      BY <1>0, <1>4, <2>1, <2>2 DEF DumpFails, BackupInv, BackupTyped
  <1>5. CASE Finish(r)
    <2> DEFINE s == [run[r] EXCEPT !.pc = "list"]
    <2>1. /\ s \in RunState /\ s.pc = "list" /\ s.held = run[r].held /\ s.lost = run[r].lost
          /\ s.alone = run[r].alone /\ SetRun(r, s)
      BY <1>0, <1>5 DEF Finish, RunState, Working
    <2> HIDE DEF s
    <2>2. IsWorking(r)
      BY <1>5 DEF Finish, RunAt, IsWorking, Working
    <2>3. PICK f \in File \ ToSet(dumps) : dumps' = Append(dumps, f)
      BY <1>5 DEF Finish
    <2>4. FilesTyped'
      BY <1>0, <1>5, <2>3, AppendedDistinct DEF Finish, FilesTyped
    <2>5. LockOwned' /\ RunsTyped'
      BY <1>0, <1>5, <2>1, OwnLock, SetRunTyped DEF Finish, RunsTyped
    <2>6. AloneInv'
      BY <1>0, <2>1, <2>2, OwnFiles DEF Fitting
    <2>7. QED
      BY <1>0, <1>5, <2>4, <2>5, <2>6 DEF Finish, BackupInv, BackupTyped
  <1>6. CASE ListBackups(r)
    <2>1. PICK s \in {[run[r] EXCEPT !.pc = "stat", !.listed = ToSet(dumps)], Notifying(r)} : SetRun(r, s)
      BY <1>6 DEF ListBackups
    <2>2. /\ ToSet(dumps) \subseteq File /\ IsWorking(r)
      BY <1>0, <1>6, LenProperties DEF FilesTyped, ToSet, ListBackups, RunAt, IsWorking, Working
    <2>3. /\ s \in RunState /\ s.held = run[r].held /\ s.lost = run[r].lost
          /\ s.pc \in Working => s.alone = run[r].alone /\ Fitting(s, dumps)
      BY <1>0, <2>1, <2>2, NotifyingTyped DEF RunState, Working, Fitting
    <2>4. LockOwned' /\ RunsTyped' /\ AloneInv'
      BY <1>0, <1>6, <2>1, <2>2, <2>3, OwnLock, OwnFiles, SetRunTyped DEF ListBackups, RunsTyped
    <2>5. FilesTyped'
      BY <1>0, <1>6 DEF ListBackups, FilesTyped
    <2>6. QED
      BY <1>0, <1>6, <2>4, <2>5 DEF ListBackups, BackupInv, BackupTyped
  <1>7. CASE StatBackups(r)
    <2> DEFINE doomed == Oldest(dumps, run[r].listed, Cardinality(run[r].listed) - MaxBackups)
               s == [run[r] EXCEPT !.pc = "unlink", !.listed = {}, !.doomed = doomed]
    <2>1. SetRun(r, s) /\ IsWorking(r)
      BY <1>7 DEF StatBackups, RunAt, IsWorking, Working
    <2>2. doomed \subseteq File
      <3>1. \A i \in DOMAIN dumps : dumps[i] \in File
        BY <1>0, LenProperties DEF FilesTyped
      <3>2. QED
        BY <3>1 DEF Oldest
    <2>3. run[r].alone => \A i \in DOMAIN dumps : dumps[i] \in doomed => i <= Len(dumps) - MaxBackups
      BY <1>0, <1>7, <2>1, OldestFit DEF StatBackups, RunAt, AloneInv, Fitting, FilesTyped
    <2> HIDE DEF doomed
    <2>4. /\ s \in RunState /\ s.held = run[r].held /\ s.lost = run[r].lost
          /\ s.alone = run[r].alone /\ s.pc = "unlink" /\ s.doomed = doomed
      BY <1>0, <2>2 DEF RunState, Working
    <2> HIDE DEF s
    <2>5. LockOwned' /\ RunsTyped'
      BY <1>0, <1>7, <2>1, <2>4, OwnLock, SetRunTyped DEF StatBackups, RunsTyped
    <2>6. AloneInv'
      BY <1>0, <1>7, <2>1, <2>3, <2>4, OwnFiles DEF StatBackups, fileVars, Fitting
    <2>7. FilesTyped'
      BY <1>0, <1>7 DEF StatBackups, fileVars, FilesTyped
    <2>8. QED
      BY <1>0, <1>7, <2>5, <2>6, <2>7 DEF StatBackups, BackupInv, BackupTyped
  <1>8. CASE UnlinkBackup(r)
    <2>1. IsWorking(r) /\ run[r].pc = "unlink"
      BY <1>8 DEF UnlinkBackup, RunAt, IsWorking, Working
    <2>2. CASE run[r].doomed = {}
      <3>1. LockOwned' /\ AloneInv' /\ RunsTyped' /\ FilesTyped'
        BY <1>0, <1>8, <2>2, OwnLock, OwnFiles, SetRunTyped, NotifyingTyped
        DEF UnlinkBackup, Working, RunsTyped, FilesTyped
      <3>2. QED
        BY <1>0, <1>8, <3>1 DEF UnlinkBackup, BackupInv, BackupTyped
    <2>3. CASE run[r].doomed # {}
      <3>1. PICK f \in run[r].doomed :
              /\ SetRun(r, [run[r] EXCEPT !.doomed = run[r].doomed \ {f}])
              /\ \/ dumps' = dumps
                 \/ \E i \in DOMAIN dumps : dumps[i] = f /\ dumps' = RemoveAt(dumps, i)
        BY <1>8, <2>3 DEF UnlinkBackup
      <3> DEFINE s == [run[r] EXCEPT !.doomed = run[r].doomed \ {f}]
      <3>2. /\ s \in RunState /\ s.held = run[r].held /\ s.lost = run[r].lost /\ s.pc = "unlink"
            /\ s.alone = run[r].alone /\ s.doomed = run[r].doomed \ {f}
        BY <1>0, <2>1 DEF RunState
      <3> HIDE DEF s
      <3>3. SetRun(r, s)
        BY <3>1 DEF s
      <3>4. FilesTyped' /\ (run[r].alone => Fitting(s, dumps'))
        <4>1. CASE dumps' = dumps
          BY <1>0, <1>8, <2>1, <3>2, <4>1 DEF UnlinkBackup, FilesTyped, AloneInv, Fitting
        <4>2. ASSUME NEW i \in DOMAIN dumps, dumps[i] = f, dumps' = RemoveAt(dumps, i)
              PROVE  FilesTyped' /\ (run[r].alone => Fitting(s, dumps'))
          <5>1. FilesTyped'
            BY <1>0, <1>8, <4>2, Removed, RemovedDistinct DEF UnlinkBackup, FilesTyped
          <5>2. ASSUME run[r].alone PROVE Fitting(s, dumps')
            <6>1. \A j \in DOMAIN dumps : dumps[j] \in run[r].doomed => j <= Len(dumps) - MaxBackups
              BY <1>0, <2>1, <5>2 DEF AloneInv, Fitting
            <6>2. \A j \in DOMAIN dumps' : dumps'[j] \in run[r].doomed => j <= Len(dumps') - MaxBackups
              BY <1>0, <4>2, <6>1, UnlinkFits DEF FilesTyped
            <6>3. QED
              BY <3>2, <6>2 DEF Fitting
          <5>3. QED
            BY <5>1, <5>2
        <4>3. QED
          BY <3>1, <4>1, <4>2
      <3>5. LockOwned' /\ RunsTyped'
        BY <1>0, <1>8, <3>2, <3>3, OwnLock, SetRunTyped DEF UnlinkBackup, RunsTyped
      <3>6. AloneInv'
        BY <1>0, <2>1, <3>2, <3>3, <3>4, OwnFiles
      <3>7. QED
        BY <1>0, <1>8, <3>4, <3>5, <3>6 DEF UnlinkBackup, BackupInv, BackupTyped
    <2>4. QED
      BY <2>2, <2>3
  <1>9. CASE Release(r)
    <2>1. run[r].pc = "mail" /\ ~IsWorking(r)
      BY <1>9 DEF Release, RunAt, IsWorking, Working
    <2>2. CASE run[r].held
      <3>1. /\ lock' = NoRunner
            /\ run' = [q \in Runner |->
                         IF q = r THEN IdleRun
                         ELSE [run[q] EXCEPT !.lost = run[q].lost \/ (run[r].lost /\ lock = q)]]
        BY <1>9, <2>2 DEF Release, Delete
      <3>2. \A q \in Runner : run[q] \in RunState
        BY <1>0 DEF RunsTyped
      <3>3. \A q \in Runner \ {r} :
              /\ run'[q] \in RunState /\ run'[q].pc = run[q].pc /\ run'[q].held = run[q].held
              /\ run'[q].listed = run[q].listed /\ run'[q].doomed = run[q].doomed
              /\ run'[q].alone = run[q].alone
              /\ run'[q].lost <=> (run[q].lost \/ (run[r].lost /\ lock = q))
        BY <3>1, <3>2 DEF RunState
      <3>4. run'[r] = IdleRun
        BY <3>1
      <3>5. RunsTyped'
        BY <1>0, <3>1, <3>3, <3>4 DEF RunsTyped
      <3>6. LockOwned'
        BY <1>0, <2>2, <3>3, <3>4, NotifyingTyped DEF LockOwned
      <3>7. AloneInv'
        BY <1>0, <1>9, <3>3, <3>4, NotifyingTyped
        DEF Release, fileVars, AloneInv, Fitting, IsWorking, Working
      <3>8. QED
        BY <1>0, <1>9, <3>5, <3>6, <3>7 DEF Release, fileVars, FilesTyped, BackupInv, BackupTyped
    <2>3. CASE ~run[r].held
      <3>1. LockOwned' /\ AloneInv' /\ RunsTyped'
        BY <1>0, <1>9, <2>3, OwnLock, OwnFiles, SetRunTyped, NotifyingTyped
        DEF Release, fileVars, Working, RunsTyped
      <3>2. QED
        BY <1>0, <1>9, <3>1 DEF Release, fileVars, FilesTyped, BackupInv, BackupTyped
    <2>4. QED
      BY <2>2, <2>3
  <1>10. CASE ReleaseFails(r)
    <2>1. LockOwned' /\ AloneInv' /\ RunsTyped'
      BY <1>0, <1>10, OwnLock, OwnFiles, SetRunTyped, NotifyingTyped
      DEF ReleaseFails, fileVars, Working, RunsTyped
    <2>2. QED
      BY <1>0, <1>10, <2>1 DEF ReleaseFails, fileVars, FilesTyped, BackupFault, BackupInv, BackupTyped
  <1>11. CASE RunDies(r)
    <2>1. LockOwned' /\ AloneInv' /\ RunsTyped'
      BY <1>0, <1>11, OwnLock, OwnFiles, SetRunTyped, NotifyingTyped DEF RunDies, Working, RunsTyped
    <2>2. leftovers' \in Nat
      BY <1>0, <1>11 DEF RunDies, FilesTyped
    <2>3. QED
      BY <1>0, <1>11, <2>1, <2>2 DEF RunDies, FilesTyped, BackupFault, BackupInv, BackupTyped
  <1>12. QED
    BY <1>1, <1>2, <1>3, <1>4, <1>5, <1>6, <1>7, <1>8, <1>9, <1>10, <1>11 DEF RunStep

LEMMA ExpiryInductive == ASSUME BackupInv, LockExpires PROVE BackupInv'
  <1>1. /\ RunsTyped /\ LockOwned /\ AloneInv /\ lock \in Runner
        /\ run[lock] \in RunState /\ ~IsWorking(lock)
    BY DEF LockExpires, BackupInv, BackupTyped, RunsTyped, IsWorking, Working
  <1>2. SetRun(lock, [run[lock] EXCEPT !.lost = run[lock].held])
    BY DEF LockExpires, SetRun
  <1> DEFINE s == [run[lock] EXCEPT !.lost = run[lock].held]
  <1>3. s \in RunState /\ s.held = run[lock].held /\ (s.held => s.lost) /\ s.pc \notin Working
    BY <1>1 DEF RunState, IsWorking
  <1> HIDE DEF s
  <1>4. SetRun(lock, s)
    BY <1>2 DEF s
  <1>5. RunsTyped'
    BY <1>1, <1>3, <1>4, SetRunTyped DEF LockExpires, RunsTyped
  <1>6. LockOwned'
    BY <1>1, <1>3, <1>4, SetRunTyped DEF LockOwned
  <1>7. AloneInv'
    BY <1>1, <1>3, <1>4, OwnFiles DEF LockExpires, fileVars
  <1>8. QED
    BY <1>5, <1>6, <1>7 DEF LockExpires, fileVars, FilesTyped, BackupInv, BackupTyped

LEMMA BackupInductive == BackupSpec => []BackupInv
  <1>1. BackupInit => BackupInv
    <2> SUFFICES ASSUME BackupInit PROVE BackupInv
      OBVIOUS
    <2>1. dumps \in Seq(File) /\ DOMAIN dumps = {}
      BY DEF BackupInit
    <2>2. RunsTyped /\ LockOwned /\ AloneInv
      BY DEF BackupInit, IdleRun, RunsTyped, RunState, LockOwned, AloneInv, IsWorking, Working
    <2>3. QED
      BY <2>1, <2>2, BackupAssumption DEF BackupInit, BackupInv, BackupTyped, FilesTyped, Distinct
  <1>2. BackupInv /\ [BackupNext]_backupVars => BackupInv'
    <2> SUFFICES ASSUME BackupInv, [BackupNext]_backupVars PROVE BackupInv'
      OBVIOUS
    <2>1. CASE UNCHANGED backupVars
      BY <2>1 DEF backupVars, BackupInv, BackupTyped, RunsTyped, FilesTyped, LockOwned, AloneInv,
                  Fitting, IsWorking
    <2>2. QED
      BY <2>1, RunInductive, ExpiryInductive DEF BackupNext
  <1>3. QED
    BY <1>1, <1>2, PTL DEF BackupSpec

(* Every state the backups reach has the types of BackupTypeOK: one file per slot,
   and runs that know the file they write.                                     *)
THEOREM BackupTypeCorrect == BackupSpec => []BackupTypeOK
  <1>1. BackupInv => BackupTypeOK
    BY DEF BackupInv, BackupTyped, RunsTyped, FilesTyped, Distinct, BackupTypeOK
  <1>2. QED
    BY <1>1, BackupInductive, PTL

(* No two dumps run at a time while Redis answers and no lock outlives its owner,
   and no run gives back a lock that is not its own.                           *)
THEOREM DumpsAreExclusive == BackupSpec => []Exclusive
  <1>1. BackupInv => Exclusive
    BY DEF BackupInv, LockOwned, Exclusive
  <1>2. QED
    BY <1>1, BackupInductive, PTL

LEMMA NewestKeptByStep ==
  ASSUME BackupInv, [BackupNext]_backupVars, NEW r \in Runner,
         run[r].alone, RunAt(r, "unlink"), run'[r] # run[r]
  PROVE  Newest \subseteq ToSet(dumps')
  <1>1. RunsTyped /\ FilesTyped /\ AloneInv
    BY DEF BackupInv, BackupTyped
  <1>2. /\ \A q \in Runner \ {r} : run[q].pc \notin Working
        /\ \A i \in DOMAIN dumps : dumps[i] \in run[r].doomed => i <= Len(dumps) - MaxBackups
    BY <1>1 DEF AloneInv, IsWorking, RunAt, Working, Fitting
  <1>3. Newest \subseteq ToSet(dumps)
    BY DEF Newest, ToSet
  <1>4. PICK q \in Runner : RunStep(q) \/ LockExpires
    BY DEF BackupNext, backupVars
  <1>5. CASE UnlinkBackup(q) /\ dumps' # dumps
    <2>1. q = r
      BY <1>2, <1>5 DEF UnlinkBackup, RunAt, Working
    <2>2. PICK i \in DOMAIN dumps : dumps[i] \in run[r].doomed /\ dumps' = RemoveAt(dumps, i)
      BY <1>5, <2>1 DEF UnlinkBackup
    <2>3. \A k \in DOMAIN dumps : k > Len(dumps) - MaxBackups => dumps[k] \in ToSet(dumps')
      BY <1>1, <1>2, <2>2, UnlinkFits DEF FilesTyped
    <2>4. QED
      BY <2>3 DEF Newest
  <1>6. CASE Finish(q)
    BY <1>2, <1>6 DEF Finish, RunAt, Working
  <1>7. CASE dumps' = dumps
    BY <1>3, <1>7
  <1>8. QED
    BY <1>4, <1>5, <1>6, <1>7 DEF RunStep, TakeLock, LockDegraded, StartDump, DumpFails, ListBackups,
       StatBackups, Release, ReleaseFails, RunDies, LockExpires, fileVars

(* Whatever runs overlap, fail and die, a clean-up deletes a dump only if
   MaxBackups newer ones are there.                                            *)
THEOREM NewestAreKept == BackupSpec => NewestKept
  <1>1. BackupInv /\ [BackupNext]_backupVars =>
          [\A r \in Runner : run[r].alone /\ RunAt(r, "unlink") /\ run'[r] # run[r] =>
             Newest \subseteq ToSet(dumps')]_backupVars
    BY NewestKeptByStep
  <1>2. QED
    BY <1>1, BackupInductive, PTL DEF BackupSpec, NewestKept

-----------------------------------------------------------------------------
USE LogAssumption DEF UnderWay, Kind

\* What the server records itself, and what never happens to it.
Own == {"refusal", "internal"}

Kept(s) == s.kind \in Own =>
  /\ s.pc \notin {"lookup", "fill", "silenced"}
  /\ s.kind = "refusal" => s.pc # "removed"
  /\ s.kind = "internal" => s.pc \notin {"cap", "capped"}
  /\ s.pc = "cut" => ~s.early

\* One that was under way when the shutdown began is among those it waits for, and
\* none is left once the wait is over.
Awaited(s, srv) ==
  s.kind \in Own /\ s.early /\ s.pc \in UnderWay => s.drained /\ srv = "draining"

\* What a look-up has read is in force, or was until this very tick.
Fresh(s, w) == s.pc = "fill" => \A p \in s.seen : w[p] = 0

EntryOK(s, srv, w) == s \in EntryState /\ Kept(s) /\ Awaited(s, srv) /\ Fresh(s, w)

ForceIsFresh == \A p \in InForce : withdrawn[p] = 0
CacheIsYoung == \A p \in cache.list : withdrawn[p] + cache.left <= CacheLife

LogInv ==
  /\ LogTypeOK
  /\ \A e \in Entry : EntryOK(entry[e], server, withdrawn)
  /\ ForceIsFresh
  /\ CacheIsYoung

LEMMA NoEntryOK ==
  ASSUME NEW srv, NEW w
  PROVE  EntryOK(NoEntry, srv, w)
  BY DEF NoEntry, EntryState, EntryOK, Kept, Awaited, Fresh

LEMMA LogInitInv == LogInit => LogInv
  <1> SUFFICES ASSUME LogInit PROVE LogInv
    OBVIOUS
  <1>1. \A e \in Entry : EntryOK(entry[e], server, withdrawn)
    BY NoEntryOK DEF LogInit
  <1>2. entry \in [Entry -> EntryState]
    BY <1>1 DEF EntryOK, LogInit
  <1>3. rules \in [Rule -> RuleState] /\ \A r \in Rule : rules[r].deleted
    <2> DEFINE Rows == {[pattern |-> p, active |-> FALSE, deleted |-> TRUE] : p \in Pattern}
    <2>1. ASSUME NEW row \in Rows PROVE row \in RuleState /\ row.deleted
      <3>1. PICK p \in Pattern : row = [pattern |-> p, active |-> FALSE, deleted |-> TRUE]
        OBVIOUS
      <3>2. QED
        BY <3>1 DEF RuleState
    <2>2. rules \in [Rule -> Rows]
      BY DEF LogInit
    <2> HIDE DEF Rows
    <2>3. QED
      BY <2>1, <2>2
  <1>4. LogTypeOK
    BY <1>2, <1>3 DEF LogInit, LogTypeOK, NoCache
  <1>5. ForceIsFresh
    BY <1>3 DEF ForceIsFresh, InForce, Live
  <1>6. CacheIsYoung
    BY DEF LogInit, CacheIsYoung, NoCache
  <1>7. QED
    BY <1>1, <1>4, <1>5, <1>6 DEF LogInv

\* Where the entries keep their promises and the rules have not changed.
LEMMA EntriesMove ==
  ASSUME LogInv, entry' \in [Entry -> EntryState],
         \A e \in Entry : EntryOK(entry'[e], server', withdrawn),
         UNCHANGED <<rules, withdrawn>>,
         cache' \in [list : SUBSET Pattern, left : 0..CacheLife],
         \A p \in cache'.list : withdrawn[p] + cache'.left <= CacheLife,
         manager' \in {"idle", "delActive", "delAll"},
         server' \in {"up", "draining", "closed"}, logFaults' \in 0..MaxLogFaults
  PROVE  LogInv'
  <1>1. LogTypeOK'
    BY DEF LogInv, LogTypeOK
  <1>2. \A e \in Entry : EntryOK(entry[e], server, withdrawn)'
    BY DEF EntryOK, Kept, Awaited, Fresh
  <1>3. ForceIsFresh'
    BY DEF LogInv, ForceIsFresh, InForce, Live
  <1>4. CacheIsYoung'
    BY DEF CacheIsYoung
  <1>5. QED
    BY <1>1, <1>2, <1>3, <1>4 DEF LogInv

\* One entry changes, the process and the rules do not.
LEMMA OneEntry ==
  ASSUME LogInv, NEW e \in Entry, NEW s, EntryOK(s, server, withdrawn),
         entry' = [entry EXCEPT ![e] = s], UNCHANGED <<rules, manager, withdrawn, server>>,
         \/ cache' = cache
         \/ /\ cache' \in [list : SUBSET Pattern, left : 0..CacheLife]
            /\ \A p \in cache'.list : withdrawn[p] + cache'.left <= CacheLife,
         logFaults' \in 0..MaxLogFaults
  PROVE  LogInv'
  <1>1. LogTypeOK /\ CacheIsYoung /\ \A f \in Entry : EntryOK(entry[f], server, withdrawn)
    BY DEF LogInv
  <1>2. s \in EntryState /\ entry \in [Entry -> EntryState]
    BY <1>1 DEF EntryOK, LogTypeOK
  <1>3. entry' \in [Entry -> EntryState]
    BY <1>2
  <1>4. \A f \in Entry : EntryOK(entry'[f], server', withdrawn)
    BY <1>1, <1>2
  <1>5. /\ cache' \in [list : SUBSET Pattern, left : 0..CacheLife]
        /\ \A p \in cache'.list : withdrawn[p] + cache'.left <= CacheLife
    BY <1>1 DEF LogTypeOK, CacheIsYoung
  <1>6. QED
    BY <1>1, <1>3, <1>4, <1>5, EntriesMove DEF LogTypeOK

-----------------------------------------------------------------------------
\* The frame of a step that leaves the whitelist and the process alone.
LEMMA Plainly ==
  ASSUME LogInv, NEW e \in Entry, NEW s, EntryOK(s, server, withdrawn),
         entry' = [entry EXCEPT ![e] = s], UNCHANGED <<whitelistVars, server>>,
         logFaults' \in 0..MaxLogFaults
  PROVE  LogInv'
  BY OneEntry DEF whitelistVars

LEMMA FaultsTyped ==
  ASSUME LogInv, LogFault \/ UNCHANGED logFaults
  PROVE  logFaults' \in 0..MaxLogFaults
  BY DEF LogInv, LogTypeOK, LogFault

LEMMA EndedOK ==
  ASSUME LogInv, NEW e \in Entry,
         NEW pc \in {"stored", "resolved", "removed", "silenced", "capped"},
         entry[e].kind \in Own => /\ pc # "silenced"
                                  /\ entry[e].kind = "refusal" => pc # "removed"
                                  /\ entry[e].kind = "internal" => pc # "capped"
  PROVE  EntryOK(Ended(e, pc), server, withdrawn)
  <1>1. entry[e].kind \in Kind
    BY DEF LogInv, LogTypeOK, EntryState
  <1> DEFINE s == Ended(e, pc)
  <1>2. s.pc = pc /\ s.kind = entry[e].kind /\ s.early = FALSE
    BY <1>1 DEF Ended, NoEntry
  <1>3. s \in EntryState
    BY <1>1 DEF Ended, NoEntry, EntryState
  <1> HIDE DEF s
  <1>4. Kept(s) /\ Awaited(s, server) /\ Fresh(s, withdrawn)
    BY <1>2 DEF Kept, Awaited, Fresh
  <1>5. EntryOK(s, server, withdrawn)
    BY <1>3, <1>4 DEF EntryOK
  <1>6. QED
    BY <1>5 DEF s

\* Nothing is cut that a shutdown still waits for: what is its own is settled by then.
LEMMA CutOK ==
  ASSUME LogInv, NEW e \in Entry, entry[e].pc \in UnderWay, server = "closed", NEW srv
  PROVE  EntryOK(Cut(e), srv, withdrawn)
  <1>1. EntryOK(entry[e], server, withdrawn) /\ entry[e] \in EntryState
    BY DEF LogInv, LogTypeOK
  <1>2. CASE entry[e].early
    <2>1. entry[e].kind \notin Own
      BY <1>1, <1>2 DEF EntryOK, Awaited
    <2>2. Cut(e) = [pc |-> "cut", kind |-> entry[e].kind, seen |-> {}, drained |-> FALSE, early |-> TRUE]
      BY <1>2 DEF Cut, Ended, NoEntry
    <2>3. QED
      BY <1>1, <2>1, <2>2 DEF EntryOK, EntryState, Kept, Awaited, Fresh
  <1>3. CASE ~entry[e].early
    BY <1>3, NoEntryOK DEF Cut
  <1>4. QED
    BY <1>2, <1>3

\* A report goes on, with or without the list it has read.
LEMMA StepOK ==
  ASSUME LogInv, NEW e \in Entry, entry[e].pc \in UnderWay,
         NEW pc \in {"fill", "cap", "insert"}, NEW seen \in SUBSET Pattern,
         pc \in {"fill", "cap"} => entry[e].kind \notin Own,
         pc = "fill" => \A p \in seen : withdrawn[p] = 0
  PROVE  /\ EntryOK([entry[e] EXCEPT !.pc = pc, !.seen = seen], server, withdrawn)
         /\ pc # "fill" => EntryOK([entry[e] EXCEPT !.pc = pc], server, withdrawn)
  <1>1. EntryOK(entry[e], server, withdrawn) /\ entry[e] \in EntryState
    BY DEF LogInv, LogTypeOK
  <1>2. ASSUME NEW s \in EntryState, s.pc = pc, s.kind = entry[e].kind,
               pc = "fill" => s.seen = seen, s.drained = entry[e].drained, s.early = entry[e].early
        PROVE  EntryOK(s, server, withdrawn)
    <2>1. Kept(s)
      BY <1>1, <1>2 DEF EntryOK, Kept
    <2>2. Awaited(s, server)
      BY <1>1, <1>2 DEF EntryOK, Awaited
    <2>3. Fresh(s, withdrawn)
      BY <1>2 DEF Fresh
    <2>4. QED
      BY <1>2, <2>1, <2>2, <2>3 DEF EntryOK
  <1>3. EntryOK([entry[e] EXCEPT !.pc = pc, !.seen = seen], server, withdrawn)
    <2> DEFINE s == [entry[e] EXCEPT !.pc = pc, !.seen = seen]
    <2>1. s.pc = pc /\ s.kind = entry[e].kind /\ s.seen = seen
      BY <1>1 DEF EntryState
    <2>2. s.drained = entry[e].drained /\ s.early = entry[e].early
      BY <1>1 DEF EntryState
    <2>3. s \in EntryState
      BY <1>1 DEF EntryState
    <2> HIDE DEF s
    <2>4. EntryOK(s, server, withdrawn)
      BY <1>2, <2>1, <2>2, <2>3
    <2>5. QED
      BY <2>4 DEF s
  <1>4. ASSUME pc # "fill"
        PROVE  EntryOK([entry[e] EXCEPT !.pc = pc], server, withdrawn)
    <2> DEFINE s == [entry[e] EXCEPT !.pc = pc]
    <2>1. s.pc = pc /\ s.kind = entry[e].kind
      BY <1>1 DEF EntryState
    <2>2. s.drained = entry[e].drained /\ s.early = entry[e].early
      BY <1>1 DEF EntryState
    <2>3. s \in EntryState
      BY <1>1 DEF EntryState
    <2> HIDE DEF s
    <2>4. EntryOK(s, server, withdrawn)
      BY <1>2, <1>4, <2>1, <2>2, <2>3
    <2>5. QED
      BY <2>4 DEF s
  <1>5. QED
    BY <1>3, <1>4

-----------------------------------------------------------------------------
LEMMA EntryTyped ==
  ASSUME LogInv, NEW e \in Entry
  PROVE  /\ entry[e] \in EntryState /\ EntryOK(entry[e], server, withdrawn)
         /\ cache \in [list : SUBSET Pattern, left : 0..CacheLife]
         /\ CacheIsYoung /\ ForceIsFresh
         /\ InForce \subseteq Pattern
  <1>1. LogTypeOK /\ CacheIsYoung /\ ForceIsFresh /\ EntryOK(entry[e], server, withdrawn)
    BY DEF LogInv
  <1>2. InForce \subseteq Pattern
    BY <1>1 DEF LogTypeOK, InForce, RuleState
  <1>3. QED
    BY <1>1, <1>2 DEF LogTypeOK

\* A report that meets the rules is silenced or counted.
LEMMA MatchedIs ==
  ASSUME LogInv, NEW e \in Entry, NEW list, entry[e].pc \in UnderWay, Matched(e, list),
         entry[e].kind \notin Own
  PROVE  \E s : EntryOK(s, server, withdrawn) /\ entry' = [entry EXCEPT ![e] = s]
  <1>1. CASE Ends(e, "silenced")
    <2>1. EntryOK(Ended(e, "silenced"), server, withdrawn)
      BY EndedOK
    <2>2. QED
      BY <1>1, <2>1 DEF Ends
  <1>2. CASE entry' = [entry EXCEPT ![e] = [entry[e] EXCEPT !.pc = "cap", !.seen = {}]]
    <2>1. EntryOK([entry[e] EXCEPT !.pc = "cap", !.seen = {}], server, withdrawn)
      BY StepOK
    <2>2. QED
      BY <1>2, <2>1
  <1>3. QED
    BY <1>1, <1>2 DEF Matched

LEMMA PipelineStep ==
  ASSUME LogInv, NEW e \in Entry,
         \/ \E kind \in Kind : Arrive(e, kind)
         \/ LookupHit(e) \/ LookupMiss(e) \/ Fill(e) \/ Cap(e) \/ Insert(e) \/ InsertFails(e)
         \/ \E superadmin \in BOOLEAN : RemoveEntry(e, superadmin)
         \/ Forget(e)
  PROVE  LogInv'
  <1>0. /\ entry[e] \in EntryState /\ EntryOK(entry[e], server, withdrawn)
        /\ cache \in [list : SUBSET Pattern, left : 0..CacheLife]
        /\ CacheIsYoung /\ ForceIsFresh /\ InForce \subseteq Pattern
    BY EntryTyped
  <1>a. ASSUME entry' = [entry EXCEPT ![e] = NoEntry], UNCHANGED <<whitelistVars, server>>,
               LogFault \/ UNCHANGED logFaults
        PROVE  LogInv'
    BY <1>a, NoEntryOK, Plainly, FaultsTyped
  <1>b. ASSUME NEW pc \in {"stored", "removed", "silenced", "capped"}, Ends(e, pc),
               UNCHANGED <<whitelistVars, server, logFaults>>,
               entry[e].kind \in Own => /\ pc # "silenced"
                                        /\ entry[e].kind = "refusal" => pc # "removed"
                                        /\ entry[e].kind = "internal" => pc # "capped"
        PROVE  LogInv'
    <2>1. EntryOK(Ended(e, pc), server, withdrawn)
      BY <1>b, EndedOK
    <2>2. QED
      BY <1>b, <2>1, Plainly, FaultsTyped DEF Ends
  <1>c. ASSUME entry[e].pc \in UnderWay, server = "closed", IsCut(e),
               UNCHANGED <<whitelistVars, server>>, LogFault \/ UNCHANGED logFaults
        PROVE  LogInv'
    BY <1>c, CutOK, Plainly, FaultsTyped DEF IsCut
  <1>1. ASSUME NEW kind \in Kind, Arrive(e, kind) PROVE LogInv'
    <2> DEFINE s == [NoEntry EXCEPT !.kind = kind, !.pc = FirstStep(kind)]
    <2>1. FirstStep(kind) \in UnderWay /\ (kind \in Own => FirstStep(kind) \in {"cap", "insert"})
                                       /\ (kind = "internal" => FirstStep(kind) = "insert")
                                       /\ FirstStep(kind) # "fill"
      BY DEF FirstStep, Own
    <2>2. s.pc = FirstStep(kind) /\ s.kind = kind /\ s.early = FALSE
      BY DEF NoEntry
    <2>3. s \in EntryState
      BY <2>1 DEF NoEntry, EntryState
    <2>4. entry' = [entry EXCEPT ![e] = s] /\ UNCHANGED <<whitelistVars, server, logFaults>>
      BY <1>1 DEF Arrive
    <2> HIDE DEF s
    <2>5. EntryOK(s, server, withdrawn)
      BY <2>1, <2>2, <2>3 DEF EntryOK, Kept, Awaited, Fresh
    <2>6. QED
      BY <2>4, <2>5, Plainly, FaultsTyped
  <1>2. CASE LookupHit(e)
    <2>1. /\ entry[e].pc \in UnderWay /\ entry[e].kind \notin Own
          /\ UNCHANGED <<whitelistVars, server, logFaults>>
      BY <1>0, <1>2 DEF LookupHit, EntryOK, Kept
    <2>2. PICK s : EntryOK(s, server, withdrawn) /\ entry' = [entry EXCEPT ![e] = s]
      BY <1>2, <2>1, MatchedIs DEF LookupHit
    <2>3. QED
      BY <2>1, <2>2, Plainly, FaultsTyped
  <1>3. CASE LookupMiss(e)
    <2>1. /\ entry[e].pc \in UnderWay /\ entry[e].kind \notin Own
          /\ UNCHANGED <<whitelistVars, server>> /\ (LogFault \/ UNCHANGED logFaults)
      BY <1>0, <1>3 DEF LookupMiss, EntryOK, Kept
    <2>2. CASE server = "closed"
      BY <1>3, <1>c, <2>1, <2>2 DEF LookupMiss
    <2>3. CASE server # "closed"
      <3>1. EntryOK([entry[e] EXCEPT !.pc = "fill", !.seen = InForce], server, withdrawn)
        BY <1>0, <2>1, StepOK DEF ForceIsFresh
      <3>2. entry' = [entry EXCEPT ![e] = [entry[e] EXCEPT !.pc = "fill", !.seen = InForce]]
        BY <1>3, <2>3 DEF LookupMiss
      <3>3. QED
        BY <2>1, <3>1, <3>2, Plainly, FaultsTyped
    <2>4. QED
      BY <2>2, <2>3
  <1>4. CASE Fill(e)
    <2>1. /\ entry[e].pc = "fill" /\ entry[e].kind \notin Own /\ entry[e].seen \in SUBSET Pattern
          /\ \A p \in entry[e].seen : withdrawn[p] = 0
          /\ UNCHANGED <<rules, manager, withdrawn, server>> /\ (LogFault \/ UNCHANGED logFaults)
      BY <1>0, <1>4 DEF Fill, EntryOK, EntryState, Kept, Fresh
    <2>2. PICK s : EntryOK(s, server, withdrawn) /\ entry' = [entry EXCEPT ![e] = s]
      BY <1>4, <2>1, MatchedIs DEF Fill
    <2>3. \/ cache' = cache
          \/ /\ cache' \in [list : SUBSET Pattern, left : 0..CacheLife]
             /\ \A p \in cache'.list : withdrawn[p] + cache'.left <= CacheLife
      BY <1>4, <2>1 DEF Fill
    <2>4. QED
      BY <2>1, <2>2, <2>3, OneEntry, FaultsTyped
  <1>5. CASE Cap(e)
    <2>1. entry[e].pc = "cap" /\ UNCHANGED <<whitelistVars, server, logFaults>>
      BY <1>5 DEF Cap
    <2>2. CASE Goes(e, "insert")
      <3>1. EntryOK([entry[e] EXCEPT !.pc = "insert"], server, withdrawn)
        BY <2>1, StepOK
      <3>2. QED
        BY <2>1, <2>2, <3>1, Plainly, FaultsTyped DEF Goes
    <2>3. CASE Ends(e, "capped")
      <3>1. entry[e].kind # "internal"
        BY <1>0, <2>1 DEF EntryOK, Kept, Own
      <3>2. QED
        BY <1>b, <2>1, <2>3, <3>1
    <2>4. QED
      BY <1>5, <2>2, <2>3 DEF Cap
  <1>6. CASE Insert(e)
    <2>1. entry[e].pc = "insert" /\ UNCHANGED <<whitelistVars, server, logFaults>>
      BY <1>6 DEF Insert
    <2>2. CASE server = "closed"
      BY <1>6, <1>c, <2>1, <2>2 DEF Insert
    <2>3. CASE server # "closed"
      BY <1>6, <1>b, <2>1, <2>3 DEF Insert
    <2>4. QED
      BY <2>2, <2>3
  <1>7. CASE InsertFails(e)
    BY <1>7, <1>a DEF InsertFails
  <1>8. ASSUME NEW superadmin \in BOOLEAN, RemoveEntry(e, superadmin) PROVE LogInv'
    <2>1. CASE superadmin
      BY <1>8, <1>a, <2>1 DEF RemoveEntry
    <2>2. CASE ~superadmin
      BY <1>8, <1>b, <2>2 DEF RemoveEntry
    <2>3. QED
      BY <2>1, <2>2
  <1>9. CASE Forget(e)
    BY <1>9, <1>a DEF Forget
  <1>10. QED
    BY <1>1, <1>2, <1>3, <1>4, <1>5, <1>6, <1>7, <1>8, <1>9

LEMMA ResolveStep ==
  ASSUME LogInv, NEW same \in SUBSET Entry, Resolve(same)
  PROVE  LogInv'
  <1>0. \A e \in Entry : entry[e] \in EntryState /\ EntryOK(entry[e], server, withdrawn)
    BY EntryTyped
  <1>1. ASSUME NEW e \in same
        PROVE  EntryOK([entry[e] EXCEPT !.pc = "resolved"], server, withdrawn)
    <2> DEFINE s == [entry[e] EXCEPT !.pc = "resolved"]
    <2>1. s.pc = "resolved" /\ s.kind = entry[e].kind
      BY <1>0 DEF EntryState
    <2>2. s \in EntryState
      BY <1>0 DEF EntryState
    <2> HIDE DEF s
    <2>3. EntryOK(s, server, withdrawn)
      BY <2>1, <2>2 DEF EntryOK, Kept, Awaited, Fresh
    <2>4. QED
      BY <2>3 DEF s
  <1>2. /\ entry' = [e \in Entry |-> IF e \in same THEN [entry[e] EXCEPT !.pc = "resolved"] ELSE entry[e]]
        /\ UNCHANGED <<whitelistVars, server, logFaults>>
    BY DEF Resolve
  <1>3. \A e \in Entry : EntryOK(entry'[e], server, withdrawn)
    BY <1>0, <1>1, <1>2
  <1>4. entry' \in [Entry -> EntryState]
    BY <1>2, <1>3 DEF EntryOK
  <1>5. QED
    BY <1>2, <1>3, <1>4, EntriesMove DEF LogInv, LogTypeOK, CacheIsYoung, whitelistVars

\* A change of the rules starts the clock of what it withdraws.
LEMMA RuleStep ==
  ASSUME LogInv, NEW r \in Rule, NEW row \in RuleState, WriteRule(r, row)
  PROVE  LogInv'
  <1>0. LogTypeOK /\ ForceIsFresh /\ CacheIsYoung /\ \A e \in Entry : EntryOK(entry[e], server, withdrawn)
    BY DEF LogInv
  <1>1. /\ rules' = [rules EXCEPT ![r] = row] /\ manager' = "delActive"
        /\ UNCHANGED <<entry, cache, server, logFaults>>
        /\ withdrawn' = [p \in Pattern |-> IF p \in InForce \cup InForce' THEN 0 ELSE withdrawn[p]]
    BY DEF WriteRule, Withdraw
  <1>2. rules' \in [Rule -> RuleState] /\ InForce' \subseteq Pattern
    <2>1. rules' \in [Rule -> RuleState]
      BY <1>0, <1>1 DEF LogTypeOK
    <2>2. QED
      BY <2>1 DEF InForce, RuleState
  <1>3. \A p \in Pattern : withdrawn'[p] \in {0, withdrawn[p]} /\ (p \in InForce' => withdrawn'[p] = 0)
    BY <1>1
  <1>4. withdrawn' \in [Pattern -> 0..(CacheLife + 1)]
    BY <1>0, <1>1, <1>3 DEF LogTypeOK
  <1>5. LogTypeOK'
    BY <1>0, <1>1, <1>2, <1>4 DEF LogTypeOK
  <1>6. ASSUME NEW e \in Entry PROVE EntryOK(entry[e], server, withdrawn)'
    <2>1. entry[e].pc = "fill" => \A p \in entry[e].seen : p \in Pattern /\ withdrawn[p] = 0
      BY <1>0 DEF EntryOK, Fresh, EntryState
    <2>2. Fresh(entry[e], withdrawn')
      BY <1>3, <2>1 DEF Fresh
    <2>3. QED
      BY <1>0, <1>1, <2>2 DEF EntryOK, Kept, Awaited, Fresh
  <1>7. ForceIsFresh'
    BY <1>2, <1>3 DEF ForceIsFresh
  <1>8. CacheIsYoung'
    BY <1>0, <1>1, <1>3 DEF CacheIsYoung, LogTypeOK
  <1>9. QED
    BY <1>5, <1>6, <1>7, <1>8 DEF LogInv

LEMMA RulesStep ==
  ASSUME LogInv, NEW r \in Rule,
         \/ \E p \in Pattern, active \in BOOLEAN : CreateRule(r, p, active) \/ UpdateRule(r, p, active)
         \/ RemoveRule(r) \/ RestoreRule(r)
  PROVE  LogInv'
  <1>0. rules[r] \in RuleState
    BY DEF LogInv, LogTypeOK
  <1>1. ASSUME NEW p \in Pattern, NEW active \in BOOLEAN, CreateRule(r, p, active) \/ UpdateRule(r, p, active)
        PROVE  LogInv'
    <2>1. [pattern |-> p, active |-> active, deleted |-> FALSE] \in RuleState
      BY DEF RuleState
    <2>2. QED
      BY <1>1, <2>1, RuleStep DEF CreateRule, UpdateRule
  <1>2. CASE RemoveRule(r) \/ RestoreRule(r)
    <2>1. [rules[r] EXCEPT !.deleted = TRUE] \in RuleState /\ [rules[r] EXCEPT !.deleted = FALSE] \in RuleState
      BY <1>0 DEF RuleState
    <2>2. QED
      BY <1>2, <2>1, RuleStep DEF RemoveRule, RestoreRule
  <1>3. QED
    BY <1>1, <1>2

LEMMA InvalidateStep ==
  ASSUME LogInv, Invalidate
  PROVE  LogInv'
  <1>1. /\ \A e \in Entry : EntryOK(entry[e], server, withdrawn)
        /\ LogTypeOK /\ CacheIsYoung
    BY DEF LogInv
  <1>2. UNCHANGED <<entry, rules, withdrawn, server>> /\ (LogFault \/ UNCHANGED logFaults)
    BY DEF Invalidate
  <1>3. manager' \in {"idle", "delAll"}
    BY DEF Invalidate
  <1>4. cache' \in {cache, NoCache}
    BY DEF Invalidate
  <1>5. /\ cache' \in [list : SUBSET Pattern, left : 0..CacheLife]
        /\ \A p \in cache'.list : withdrawn[p] + cache'.left <= CacheLife
    BY <1>1, <1>4 DEF LogTypeOK, CacheIsYoung, NoCache
  <1>6. QED
    BY <1>1, <1>2, <1>3, <1>5, EntriesMove, FaultsTyped DEF LogTypeOK

\* Every tick the cache loses what the withdrawn patterns gain.
LEMMA TickStep ==
  ASSUME LogInv, LogTick
  PROVE  LogInv'
  <1>0. /\ LogTypeOK /\ ForceIsFresh /\ CacheIsYoung
        /\ \A e \in Entry : EntryOK(entry[e], server, withdrawn)
    BY DEF LogInv
  <1>1. /\ \A e \in Entry : entry[e].pc # "fill"
        /\ cache' = IF cache.left > 1 THEN [cache EXCEPT !.left = @ - 1] ELSE NoCache
        /\ withdrawn' = [p \in Pattern |->
             IF p \in InForce \/ withdrawn[p] > CacheLife THEN withdrawn[p] ELSE withdrawn[p] + 1]
        /\ UNCHANGED <<entry, rules, manager, server, logFaults>>
    BY DEF LogTick
  <1>2. \A p \in Pattern : /\ withdrawn[p] \in 0..(CacheLife + 1)
                           /\ withdrawn'[p] \in 0..(CacheLife + 1)
                           /\ withdrawn'[p] <= withdrawn[p] + 1
                           /\ p \in InForce => withdrawn'[p] = withdrawn[p]
    BY <1>0, <1>1 DEF LogTypeOK
  <1>3. withdrawn' \in [Pattern -> 0..(CacheLife + 1)]
    BY <1>1, <1>2
  <1>4. \/ cache' = NoCache
        \/ cache'.list = cache.list /\ cache'.left = cache.left - 1 /\ cache.left > 1
    BY <1>0, <1>1 DEF LogTypeOK
  <1>5. cache' \in [list : SUBSET Pattern, left : 0..CacheLife]
    BY <1>0, <1>1 DEF LogTypeOK, NoCache
  <1>6. LogTypeOK'
    BY <1>0, <1>1, <1>3, <1>5 DEF LogTypeOK
  <1>7. \A e \in Entry : EntryOK(entry[e], server, withdrawn)'
    BY <1>0, <1>1 DEF EntryOK, Kept, Awaited, Fresh
  <1>8. ForceIsFresh'
    <2>1. InForce' = InForce /\ InForce \subseteq Pattern
      BY <1>0, <1>1 DEF InForce, Live, LogTypeOK, RuleState
    <2>2. QED
      BY <1>0, <1>2, <2>1 DEF ForceIsFresh
  <1>9. CacheIsYoung'
    <2>1. CASE cache' = NoCache
      BY <2>1 DEF CacheIsYoung, NoCache
    <2>2. CASE cache'.list = cache.list /\ cache'.left = cache.left - 1 /\ cache.left > 1
      <3>1. ASSUME NEW p \in cache.list PROVE withdrawn'[p] + cache'.left <= CacheLife
        <4>1. p \in Pattern /\ withdrawn[p] + cache.left <= CacheLife /\ cache.left \in 0..CacheLife
          BY <1>0 DEF LogTypeOK, CacheIsYoung
        <4>2. QED
          BY <1>2, <2>2, <4>1
      <3>2. QED
        BY <2>2, <3>1 DEF CacheIsYoung
    <2>3. QED
      BY <1>4, <2>1, <2>2
  <1>10. QED
    BY <1>6, <1>7, <1>8, <1>9 DEF LogInv

-----------------------------------------------------------------------------
\* The shutdown and the end of the process: the rules and what is cached stay.
LEMMA ProcessMoves ==
  ASSUME LogInv, entry' \in [Entry -> EntryState],
         \A e \in Entry : EntryOK(entry'[e], server', withdrawn),
         UNCHANGED <<rules, cache, withdrawn>>, manager' \in {"idle", manager},
         server' \in {"up", "draining", "closed"}, LogFault \/ UNCHANGED logFaults
  PROVE  LogInv'
  BY EntriesMove, FaultsTyped DEF LogInv, LogTypeOK, CacheIsYoung

LEMMA DrainStarts ==
  ASSUME LogInv, StartDrain
  PROVE  LogInv'
  <1>1. /\ server' = "draining" /\ UNCHANGED <<whitelistVars, logFaults>>
        /\ entry' = [e \in Entry |-> [entry[e] EXCEPT !.drained = Registered(e),
                                       !.early = entry[e].early \/ entry[e].pc \in UnderWay]]
    BY DEF StartDrain
  <1>2. ASSUME NEW e \in Entry
        PROVE  EntryOK(entry'[e], server', withdrawn)
    <2>0. entry[e] \in EntryState /\ EntryOK(entry[e], server, withdrawn)
      BY EntryTyped
    <2> DEFINE early == entry[e].early \/ entry[e].pc \in UnderWay
               s == [entry[e] EXCEPT !.drained = Registered(e), !.early = early]
    <2>1. entry'[e] = s
      BY <1>1
    <2>2. Registered(e) \in BOOLEAN /\ early \in BOOLEAN
      BY DEF Registered
    <2>3. s \in EntryState
      <3> HIDE DEF early
      <3> QED BY <2>0, <2>2 DEF EntryState
    <2>4. s.pc = entry[e].pc /\ s.kind = entry[e].kind /\ s.seen = entry[e].seen
      BY <2>0 DEF EntryState
    <2>5. s.kind \in Own /\ s.pc \in UnderWay => s.drained
      <3>1. s.drained = Registered(e)
        BY <2>0 DEF EntryState
      <3>2. entry[e].kind \in Own /\ entry[e].pc \in UnderWay => Registered(e)
        BY DEF Registered, Own
      <3>3. QED
        BY <2>4, <3>1, <3>2
    <2>6. s.pc = "cut" /\ s.kind \in Own => ~s.early
      <3>1. s.early = early
        BY <2>0 DEF EntryState
      <3>2. entry[e].pc = "cut" /\ entry[e].kind \in Own => ~early
        BY <2>0 DEF EntryOK, Kept
      <3> HIDE DEF s, early
      <3>3. QED
        BY <2>4, <3>1, <3>2
    <2> HIDE DEF s
    <2>7. Kept(s) /\ Awaited(s, server') /\ Fresh(s, withdrawn)
      BY <1>1, <2>0, <2>4, <2>5, <2>6 DEF EntryOK, Kept, Awaited, Fresh
    <2>8. QED
      BY <2>1, <2>3, <2>7 DEF EntryOK
  <1>3. entry' \in [Entry -> EntryState]
    BY <1>1, <1>2 DEF EntryOK
  <1>4. QED
    BY <1>1, <1>2, <1>3, ProcessMoves DEF whitelistVars

LEMMA DrainEnds ==
  ASSUME LogInv, EndDrain
  PROVE  LogInv'
  <1>0. entry \in [Entry -> EntryState]
    BY DEF LogInv, LogTypeOK
  <1>1. server' = "closed" /\ UNCHANGED whitelistVars
    BY DEF EndDrain
  <1>2. CASE \E e \in Entry : entry[e].drained /\ entry[e].pc \in UnderWay
    <2>1. LogFault /\ entry' = [e \in Entry |-> [entry[e] EXCEPT !.early = FALSE]]
      BY <1>2 DEF EndDrain
    <2>2. ASSUME NEW e \in Entry
          PROVE  EntryOK(entry'[e], server', withdrawn)
      <3>0. entry[e] \in EntryState /\ EntryOK(entry[e], server, withdrawn)
        BY EntryTyped
      <3> DEFINE s == [entry[e] EXCEPT !.early = FALSE]
      <3>1. s \in EntryState
        BY <3>0 DEF EntryState
      <3>2. s.pc = entry[e].pc /\ s.kind = entry[e].kind /\ s.seen = entry[e].seen /\ ~s.early
        BY <3>0 DEF EntryState
      <3>3. entry'[e] = s
        BY <2>1
      <3> HIDE DEF s
      <3>4. Kept(s) /\ Awaited(s, server') /\ Fresh(s, withdrawn)
        BY <3>0, <3>2 DEF EntryOK, Kept, Awaited, Fresh
      <3>5. QED
        BY <3>1, <3>3, <3>4 DEF EntryOK
    <2>3. entry' \in [Entry -> EntryState]
      BY <2>1, <2>2 DEF EntryOK
    <2>4. QED
      BY <1>1, <2>1, <2>2, <2>3, ProcessMoves DEF whitelistVars
  <1>3. CASE ~\E e \in Entry : entry[e].drained /\ entry[e].pc \in UnderWay
    <2>1. UNCHANGED <<entry, logFaults>>
      BY <1>3 DEF EndDrain
    <2>2. ASSUME NEW e \in Entry
          PROVE  EntryOK(entry'[e], server', withdrawn)
      <3>0. EntryOK(entry[e], server, withdrawn)
        BY EntryTyped
      <3>1. QED
        BY <1>3, <2>1, <3>0 DEF EntryOK, Awaited
    <2>3. QED
      BY <1>0, <1>1, <2>1, <2>2, ProcessMoves DEF whitelistVars
  <1>4. QED
    BY <1>2, <1>3

LEMMA ProcessEnds ==
  ASSUME LogInv, Exit \/ Killed
  PROVE  LogInv'
  <1>1. /\ server' = "up" /\ manager' = "idle" /\ UNCHANGED <<rules, cache, withdrawn>>
        /\ LogFault \/ UNCHANGED logFaults
    BY DEF Exit, Killed
  <1>2. ASSUME NEW e \in Entry
        PROVE  EntryOK(entry'[e], "up", withdrawn)
    <2>0. EntryOK(entry[e], server, withdrawn)
      BY EntryTyped
    <2>1. CASE entry[e].pc \notin UnderWay
      <3>1. entry'[e] = entry[e]
        BY <2>1 DEF Exit, Killed, CallsEnd
      <3>2. QED
        BY <2>0, <2>1, <3>1 DEF EntryOK, Awaited
    <2>2. CASE entry[e].pc \in UnderWay /\ Exit
      <3>1. entry'[e] = Cut(e) /\ server = "closed"
        BY <2>2 DEF Exit, CallsEnd
      <3>2. QED
        BY <2>2, <3>1, CutOK
    <2>3. CASE entry[e].pc \in UnderWay /\ Killed
      <3>1. entry'[e] = NoEntry
        BY <2>3 DEF Killed, CallsEnd
      <3>2. QED
        BY <3>1, NoEntryOK
    <2>4. QED
      BY <2>1, <2>2, <2>3
  <1>3. entry' \in [Entry -> EntryState]
    <2>1. entry' = [e \in Entry |-> entry'[e]]
      BY DEF Exit, Killed, CallsEnd
    <2>2. QED
      BY <1>2, <2>1 DEF EntryOK
  <1>4. QED
    BY <1>1, <1>2, <1>3, ProcessMoves

LEMMA LogStep == LogInv /\ [LogNext]_logVars => LogInv'
  <1> SUFFICES ASSUME LogInv, [LogNext]_logVars PROVE LogInv'
    OBVIOUS
  <1>1. CASE UNCHANGED logVars
    BY <1>1 DEF logVars, LogInv, LogTypeOK, EntryOK, Kept, Awaited, Fresh, ForceIsFresh, CacheIsYoung,
                InForce, Live
  <1>2. CASE LogNext
    BY <1>2, PipelineStep, ResolveStep, RulesStep, InvalidateStep, TickStep, DrainStarts, DrainEnds,
       ProcessEnds DEF LogNext
  <1>3. QED
    BY <1>1, <1>2

LEMMA LogAlways == LogSpec => []LogInv
  <1>1. QED
    BY LogInitInv, LogStep, PTL DEF LogSpec

(* A rule of the whitelist that is withdrawn silences no report for longer than
   one life of the cached list, whatever look-ups read before the change and
   write after its DEL, and whichever DEL fails (matchWhitelist and
   invalidateWhitelistCache).                                                *)
THEOREM WithdrawalsTakeEffect == LogSpec => []WithdrawnWithinLife
  <1>1. LogInv => WithdrawnWithinLife
    BY DEF LogInv, CacheIsYoung, WithdrawnWithinLife
  <1>2. QED
    BY <1>1, LogAlways, PTL

(* What the server records itself is never silenced, nor removed by anyone but a
   superadministrator, and a shutdown that begins while one is under way does
   not close the database before it is inserted, unless its 3 s run out
   (recordInternal and trackDbWrite).                                        *)
THEOREM EvidenceIsKept == LogSpec => []EvidenceKept
  <1>1. LogInv => EvidenceKept
    BY DEF LogInv, EntryOK, Kept, Own, EvidenceKept
  <1>2. QED
    BY <1>1, LogAlways, PTL
=============================================================================
