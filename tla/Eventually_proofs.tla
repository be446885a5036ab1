------------------------- MODULE Eventually_proofs --------------------------
(***************************************************************************)
(* Proofs about the components of MCEventually that have none elsewhere:   *)
(* ClientSocket, Throttle, BackupWatch, Listing and Navigation; and about  *)
(* all of them composed.                                                   *)
(***************************************************************************)
EXTENDS MCEventually, Files_proofs, Presence_proofs, FiniteSetTheorems, TLAPS

-----------------------------------------------------------------------------
(* The socket: no timer is set but by a handler that has just lost or closed the
   socket, every connect drops the timer, and the page's clean-up drops both.   *)
SocketInv == SocketTypeOK /\ OneWayBack

\* The parts of the type invariant a step has to keep, one variable each.
SocketBooleans ==
  /\ page \in BOOLEAN /\ auth \in BOOLEAN /\ token \in BOOLEAN /\ honoured \in BOOLEAN
  /\ timer \in BOOLEAN /\ refreshing \in BOOLEAN /\ cooling \in BOOLEAN /\ shown \in BOOLEAN
  /\ link \in BOOLEAN /\ refusing \in BOOLEAN

SocketTyped ==
  /\ SocketBooleans /\ socket \in {"none", "trying", "open", "dead"}
  /\ attempts \in 0..MaxManual /\ socketFaults \in 0..MaxSocketFaults

LEMMA SocketTypes == SocketTyped <=> SocketTypeOK
  BY DEF SocketTypeOK, SocketBooleans, SocketTyped

LEMMA ScheduleTypes ==
  ASSUME SocketTypeOK, Schedule
  PROVE  timer' \in BOOLEAN /\ attempts' \in 0..MaxManual
  <1>1. attempts \in 0..MaxManual
    BY DEF SocketTypeOK
  <1>2. timer' \in BOOLEAN
    <2>1. (attempts < MaxManual) \in BOOLEAN
      BY <1>1, SocketAssumption, SMT
    <2>2. QED
      BY <2>1, Zenon DEF Schedule
  <1>3. attempts' \in 0..MaxManual
    BY <1>1, SocketAssumption DEF Schedule
  <1>4. QED
    BY <1>2, <1>3

LEMMA FaultTypes ==
  ASSUME SocketTypeOK, SocketFault
  PROVE  socketFaults' \in 0..MaxSocketFaults
  BY SocketAssumption DEF SocketTypeOK, SocketFault

LEMMA ConnectTypes ==
  ASSUME SocketTypeOK, Connect
  PROVE  timer' = FALSE /\ honoured' \in BOOLEAN /\ socket' \in {"trying", "open"}
  <1>1. honoured' \in BOOLEAN
    BY Zenon DEF Connect
  <1>2. socket' \in {"trying", "open"}
    BY DEF Connect
  <1>3. QED
    BY <1>1, <1>2 DEF Connect

LEMMA SocketKeepsTypes ==
  ASSUME SocketTypeOK, SocketNext
  PROVE  SocketTypeOK'
  <1> SUFFICES SocketTyped'
    <2>1. SocketTyped' <=> SocketTypeOK'
      BY SocketTypes, PTL
    <2>2. QED
      BY <2>1
  <1> USE SocketTypes DEF SocketTyped
  <1>0. 0 \in 0..MaxManual
    BY SocketAssumption
  <1>1. CASE Mount
    <2>1. timer' = FALSE /\ honoured' \in BOOLEAN /\ socket' \in {"trying", "open"}
      BY <1>1, ConnectTypes DEF Mount
    <2>2. SocketBooleans'
      BY <1>1, <2>1, Zenon DEF Mount, SocketBooleans, refreshVars, worldVars
    <2>3. UNCHANGED <<attempts, socketFaults>>
      BY <1>1 DEF Mount, worldVars
    <2> QED
      BY <2>1, <2>2, <2>3
  <1>2. CASE Unmount
    BY <1>2 DEF Unmount, CloseSocket, SocketBooleans, refreshVars, worldVars
  <1>3. CASE LogOut \/ LogIn
    <2>1. SocketBooleans'
      BY <1>3, Zenon DEF LogOut, LogIn, SocketBooleans, refreshVars, worldVars
    <2>2. UNCHANGED <<socket, attempts, socketFaults>>
      BY <1>3 DEF LogOut, LogIn, worldVars
    <2> QED
      BY <2>1, <2>2
  <1>4. CASE Handshake
    BY <1>0, <1>4 DEF Handshake, SocketBooleans, storeVars, refreshVars, worldVars
  <1>5. CASE TriesFail
    BY <1>5, ScheduleTypes DEF TriesFail, SocketBooleans, storeVars, refreshVars, worldVars
  <1>6. CASE KickedForToken \/ KickedForOther
    BY <1>6, ScheduleTypes DEF KickedForToken, KickedForOther, MaybeRefresh, SocketBooleans, storeVars,
                               refreshVars, worldVars
  <1>7. CASE TransportLost
    BY <1>7, FaultTypes DEF TransportLost, SocketBooleans, storeVars, refreshVars, worldVars
  <1>8. CASE PongTimeout
    BY <1>8, ScheduleTypes DEF PongTimeout, SocketBooleans, storeVars, refreshVars, worldVars
  <1>9. CASE TimerFires
    BY <1>9, ConnectTypes DEF TimerFires, SocketBooleans, storeVars, refreshVars, worldVars
  <1>10. CASE RefreshGives
    <2>1. SocketBooleans'
      BY <1>10, Zenon DEF RefreshGives, SocketBooleans, worldVars
    <2>2. UNCHANGED <<socket, attempts, socketFaults>>
      BY <1>10 DEF RefreshGives, worldVars
    <2> QED
      BY <2>1, <2>2
  <1>16. CASE CooldownEnds
    <2>1. SocketBooleans'
      BY <1>16, Zenon DEF CooldownEnds, SocketBooleans, storeVars, worldVars
    <2>2. UNCHANGED <<socket, attempts, socketFaults>>
      BY <1>16 DEF CooldownEnds, worldVars
    <2> QED
      BY <2>1, <2>2
  <1>11. CASE RefreshFails
    <2>1. SocketBooleans'
      BY <1>11, Zenon DEF RefreshFails, SocketBooleans
    <2>2. UNCHANGED <<socket, attempts>> /\ socketFaults' \in 0..MaxSocketFaults
      BY <1>11, FaultTypes DEF RefreshFails
    <2> QED
      BY <2>1, <2>2
  <1>12. CASE TokenDies
    <2>1. token' = token \/ token' = FALSE
      BY <1>12, Zenon DEF TokenDies
    <2>2. SocketBooleans'
      BY <1>12, <2>1, Zenon DEF TokenDies, SocketBooleans, refreshVars
    <2>3. UNCHANGED <<socket, attempts>> /\ socketFaults' \in 0..MaxSocketFaults
      BY <1>12, FaultTypes DEF TokenDies
    <2> QED
      BY <2>2, <2>3
  <1>13. CASE WorldFails
    <2>1. SocketBooleans'
      BY <1>13, Zenon DEF WorldFails, SocketBooleans, storeVars, refreshVars
    <2>2. UNCHANGED <<socket, attempts>> /\ socketFaults' \in 0..MaxSocketFaults
      BY <1>13, FaultTypes DEF WorldFails
    <2> QED
      BY <2>1, <2>2
  <1>14. CASE WorldHeals
    <2>1. SocketBooleans'
      BY <1>14, Zenon DEF WorldHeals, SocketBooleans, storeVars, refreshVars
    <2>2. UNCHANGED <<socket, attempts, socketFaults>>
      BY <1>14 DEF WorldHeals
    <2> QED
      BY <2>1, <2>2
  <1>15. QED
    BY <1>1, <1>2, <1>3, <1>4, <1>5, <1>6, <1>7, <1>8, <1>9, <1>10, <1>11, <1>12, <1>13, <1>14, <1>16
       DEF SocketNext

LEMMA SocketKeepsOneWay ==
  ASSUME SocketInv, SocketNext
  PROVE  OneWayBack'
  <1>0. OneWayBack /\ socket \in {"none", "trying", "open", "dead"}
    BY DEF SocketInv, SocketTypeOK
  <1>1. CASE Mount \/ Unmount \/ LogOut \/ LogIn
    BY <1>0, <1>1 DEF OneWayBack, Mount, Unmount, LogOut, LogIn, Connect, CloseSocket
  <1>2. CASE Handshake \/ TriesFail \/ KickedForToken \/ KickedForOther
    BY <1>0, <1>2 DEF OneWayBack, Handshake, TriesFail, KickedForToken, KickedForOther, storeVars
  <1>3. CASE TransportLost \/ PongTimeout
    BY <1>0, <1>3 DEF OneWayBack, TransportLost, PongTimeout, storeVars
  <1>4. CASE TimerFires
    BY <1>0, <1>4 DEF OneWayBack, TimerFires, Connect, storeVars
  <1>5. CASE RefreshGives \/ RefreshFails \/ CooldownEnds
    BY <1>0, <1>5 DEF OneWayBack, RefreshGives, RefreshFails, CooldownEnds, storeVars
  <1>6. CASE TokenDies
    BY <1>0, <1>6 DEF OneWayBack, TokenDies
  <1>7. CASE WorldFails \/ WorldHeals
    BY <1>0, <1>7 DEF OneWayBack, WorldFails, WorldHeals, storeVars
  <1>8. QED
    BY <1>1, <1>2, <1>3, <1>4, <1>5, <1>6, <1>7 DEF SocketNext

LEMMA SocketAlways == SocketSpec => []SocketInv
  <1>1. SocketInit => SocketInv
    <2> SUFFICES ASSUME SocketInit PROVE SocketInv
      OBVIOUS
    <2>1. SocketTyped
      <3>1. SocketBooleans
        BY Zenon DEF SocketInit, SocketBooleans
      <3>2. attempts \in 0..MaxManual /\ socketFaults \in 0..MaxSocketFaults
        BY SocketAssumption DEF SocketInit
      <3>3. QED
        BY <3>1, <3>2 DEF SocketInit, SocketTyped
    <2>2. OneWayBack
      BY DEF SocketInit, OneWayBack
    <2>3. QED
      BY <2>1, <2>2, SocketTypes DEF SocketInv
  <1>2. SocketInv /\ [SocketNext]_socketVars => SocketInv'
    <2> SUFFICES ASSUME SocketInv, [SocketNext]_socketVars PROVE SocketInv'
      OBVIOUS
    <2>1. CASE SocketNext
      BY <2>1, SocketKeepsTypes, SocketKeepsOneWay DEF SocketInv
    <2>2. CASE UNCHANGED socketVars
      BY <2>2 DEF socketVars, SocketInv, SocketTypeOK, OneWayBack
    <2>3. QED
      BY <2>1, <2>2
  <1>3. QED
    BY <1>1, <1>2, PTL DEF SocketSpec

(* Whatever happens to the network, the tokens, the store and the page: a timer is
   set only while a mounted page has neither an open nor a trying socket, and no
   socket and no timer outlive the page (WsClient: connect, scheduleReconnect,
   disconnect; useWebSocket's clean-up).                                         *)
THEOREM OneWayBackAlways == SocketSpec => []OneWayBack
  BY SocketAlways, PTL DEF SocketInv

-----------------------------------------------------------------------------
(* The counter.  It counts every request let through, and while Redis answers none
   beyond the limit.                                                             *)
ThrottleInv ==
  /\ ThrottleTypeOK
  /\ admitted <= hits /\ admitted <= HitLimit

LEMMA ThrottleRaised ==
  ASSUME ThrottleInv
  PROVE  /\ Raised \in 1..MaxHits /\ Raised >= hits
         /\ Raised <= HitLimit => Raised = hits + 1
         /\ Expiry \in 1..(Window + Block)
         /\ hits > HitLimit => Expiry = left
  <1> USE ThrottleAssumption
  <1>1. hits \in 0..MaxHits /\ left \in 0..(Window + Block) /\ (left = 0 <=> hits = 0)
    BY DEF ThrottleInv, ThrottleTypeOK
  <1>2. /\ Raised \in 1..MaxHits /\ Raised >= hits
        /\ Raised <= HitLimit => Raised = hits + 1
        /\ Raised = HitLimit + 1 /\ hits = HitLimit => hits < MaxHits
    BY <1>1 DEF Raised
  <1> QED
    BY <1>1, <1>2 DEF Expiry

LEMMA ThrottleStep == ThrottleInv /\ [ThrottleNext]_throttleVars => ThrottleInv'
  <1> USE ThrottleAssumption
  <1> SUFFICES ASSUME ThrottleInv, [ThrottleNext]_throttleVars PROVE ThrottleInv'
    OBVIOUS
  <1>0. /\ hits \in 0..MaxHits /\ left \in 0..(Window + Block) /\ (left = 0 <=> hits = 0)
        /\ admitted \in 0..MaxHits /\ admitted <= hits /\ admitted <= HitLimit
    BY DEF ThrottleInv, ThrottleTypeOK
  <1>1. CASE Hit
    BY <1>0, <1>1, ThrottleRaised DEF Hit, ThrottleInv, ThrottleTypeOK
  <1>2. CASE HitFailsOpen
    BY <1>0, <1>2, ThrottleRaised DEF HitFailsOpen, throttleVars, ThrottleInv, ThrottleTypeOK
  <1>3. CASE ThrottleTick
    BY <1>0, <1>3 DEF ThrottleTick, ThrottleInv, ThrottleTypeOK
  <1>4. CASE UNCHANGED throttleVars
    BY <1>0, <1>4 DEF throttleVars, ThrottleInv, ThrottleTypeOK
  <1> QED
    BY <1>1, <1>2, <1>3, <1>4 DEF ThrottleNext

LEMMA ThrottleStarts == ThrottleInit => ThrottleInv
  BY ThrottleAssumption DEF ThrottleInit, ThrottleInv, ThrottleTypeOK

(* However many server instances count in one window, and whichever of their calls to
   Redis fail half way, the script lets no more than the limit through until the key
   expires, and a block that has begun gets no longer by the hits refused meanwhile
   (the EXPIRE of the first hit too many only): for every limit, window and block. *)
THEOREM BlocksAreFinite ==
  ThrottleSpec => /\ [](admitted <= HitLimit)
                  /\ [][Blocked /\ Blocked' => left' <= left]_throttleVars
  <1>1. ThrottleInv => admitted <= HitLimit
    BY DEF ThrottleInv
  <1>2. ThrottleInv /\ [ThrottleNext]_throttleVars => [Blocked /\ Blocked' => left' <= left]_throttleVars
    <2> SUFFICES ASSUME ThrottleInv, ThrottleNext, Blocked PROVE left' <= left
      BY DEF throttleVars
    <2>1. left \in Nat /\ Expiry = left
      BY ThrottleRaised, ThrottleAssumption DEF ThrottleInv, ThrottleTypeOK, Blocked
    <2> QED
      BY <2>1 DEF ThrottleNext, Hit, HitFailsOpen, ThrottleTick, throttleVars
  <1> QED
    BY <1>1, <1>2, ThrottleStarts, ThrottleStep, PTL DEF ThrottleSpec

-----------------------------------------------------------------------------
(* The watch.  Whoever is about to record an alert has claimed it, nobody else has,
   and it has not been recorded today.                                          *)
OneRecorder ==
  /\ \A i \in Instance : CheckAt(i, "record") => check[i].alert \in claimed \ reported
  /\ \A i, j \in Instance : CheckAt(i, "record") /\ CheckAt(j, "record") /\ check[i].alert = check[j].alert
                              => i = j

WatchInv == WatchTypeOK /\ OneRecorder

LEMMA WatchStarts == WatchInit \/ WatchAtRest => WatchInv
  <1> SUFFICES ASSUME WatchInit \/ WatchAtRest PROVE WatchInv
    OBVIOUS
  <1>1. cronDue \in BOOLEAN
    BY Zenon DEF WatchInit, WatchAtRest
  <1>2. /\ hour \in 0..(DayHours - 1) /\ daily \in 0..Life /\ manual \in 0..Life
        /\ claimed = {} /\ reported = {} /\ watchFaults \in 0..MaxWatchFaults
    BY WatchAssumption DEF WatchInit, WatchAtRest
  <1>3. check \in [Instance -> CheckState] /\ \A i \in Instance : check[i].pc # "record"
    BY DEF WatchInit, WatchAtRest, CheckState, Alert
  <1> QED
    BY <1>1, <1>2, <1>3 DEF WatchInv, WatchTypeOK, OneRecorder, CheckAt

\* One instance goes on, and what is recorded today is not changed but by it.
LEMMA OneChecks ==
  ASSUME WatchInv, NEW i \in Instance, NEW state \in CheckState, check' = [check EXCEPT ![i] = state],
         claimed \subseteq claimed', claimed' \subseteq Alert, reported' \subseteq claimed',
         state.pc = "record" =>
           /\ state.alert \in claimed' \ reported'
           /\ (CheckAt(i, "record") /\ check[i].alert = state.alert) \/ state.alert \notin claimed,
         \A k \in reported' \ reported : CheckAt(i, "record") /\ k = check[i].alert
  PROVE  OneRecorder' /\ check' \in [Instance -> CheckState]
  <1>1. check \in [Instance -> CheckState] /\ OneRecorder
    BY DEF WatchInv, WatchTypeOK
  <1>2. \A j \in Instance : check'[j] = IF j = i THEN state ELSE check[j]
    BY <1>1
  <1> QED
    BY <1>1, <1>2 DEF OneRecorder, CheckAt

LEMMA WatchStep == WatchInv /\ [WatchNext]_watchVars => WatchInv'
  <1> USE WatchAssumption
  <1> SUFFICES ASSUME WatchInv, [WatchNext]_watchVars PROVE WatchInv'
    OBVIOUS
  <1>0. /\ hour \in 0..(DayHours - 1) /\ cronDue \in BOOLEAN
        /\ daily \in 0..Life /\ manual \in 0..Life
        /\ check \in [Instance -> CheckState] /\ claimed \subseteq Alert /\ reported \subseteq claimed
        /\ watchFaults \in 0..MaxWatchFaults /\ OneRecorder
    BY DEF WatchInv, WatchTypeOK
  <1>1. ASSUME NEW i \in Instance, NEW pc \in {"idle", "due", "manual", "claim", "down"}, CheckGoto(i, pc),
               claimed \subseteq claimed', claimed' \subseteq Alert, reported' = reported
        PROVE  OneRecorder' /\ check' \in [Instance -> CheckState]
    <2> DEFINE state == [check[i] EXCEPT !.pc = pc]
    <2>1. state \in CheckState /\ state.pc = pc
      BY <1>0 DEF CheckState
    <2>2. check' = [check EXCEPT ![i] = state]
      BY <1>0, <1>1 DEF CheckGoto
    <2> HIDE DEF state
    <2> QED
      BY <1>0, <1>1, <2>1, <2>2, OneChecks
  <1>2. ASSUME NEW i \in Instance, NEW kind \in Alert, GoClaim(i, kind),
               UNCHANGED <<claimed, reported>>
        PROVE  OneRecorder' /\ check' \in [Instance -> CheckState]
    <2> DEFINE state == [pc |-> "claim", alert |-> kind]
    <2>1. state \in CheckState /\ state.pc = "claim"
      BY DEF CheckState
    <2>2. check' = [check EXCEPT ![i] = state]
      BY <1>2 DEF GoClaim
    <2> HIDE DEF state
    <2> QED
      BY <1>0, <1>2, <2>1, <2>2, OneChecks
  <1>3. ASSUME NEW i \in Instance, ReadDaily(i) \/ ReadManual(i) PROVE WatchInv'
    <2>1. UNCHANGED <<runVars, claimed, reported, watchFaults>>
      BY <1>3 DEF ReadDaily, ReadManual
    <2>2. \/ \E kind \in Alert : GoClaim(i, kind)
          \/ \E pc \in {"idle", "due", "manual", "claim", "down"} : CheckGoto(i, pc)
      BY <1>3 DEF ReadDaily, ReadManual, Alert
    <2>3. OneRecorder' /\ check' \in [Instance -> CheckState]
      BY <1>0, <1>1, <1>2, <2>1, <2>2
    <2> QED
      BY <1>0, <2>1, <2>3 DEF runVars, WatchInv, WatchTypeOK
  <1>4. ASSUME NEW i \in Instance, ClaimAlert(i) PROVE WatchInv'
    <2>0. check[i].alert \in Alert /\ ~CheckAt(i, "record")
      BY <1>0, <1>4 DEF CheckState, ClaimAlert, CheckAt
    <2>1. claimed' = claimed \cup {check[i].alert} /\ UNCHANGED <<runVars, reported, watchFaults>>
      BY <1>4 DEF ClaimAlert
    <2>2. CASE check[i].alert \in claimed
      <3>1. CheckGoto(i, "idle")
        BY <1>4, <2>2 DEF ClaimAlert
      <3>2. OneRecorder' /\ check' \in [Instance -> CheckState]
        BY <1>0, <1>1, <2>0, <2>1, <3>1
      <3> QED
        BY <1>0, <2>0, <2>1, <3>2 DEF runVars, WatchInv, WatchTypeOK
    <2>3. CASE check[i].alert \notin claimed
      <3> DEFINE state == [check[i] EXCEPT !.pc = "record"]
      <3>1. state \in CheckState /\ state.pc = "record" /\ state.alert = check[i].alert
        BY <1>0 DEF CheckState
      <3>2. check' = [check EXCEPT ![i] = state]
        BY <1>0, <1>4, <2>3 DEF ClaimAlert, CheckGoto
      <3> HIDE DEF state
      <3>3. OneRecorder' /\ check' \in [Instance -> CheckState]
        BY <1>0, <2>0, <2>1, <2>3, <3>1, <3>2, OneChecks
      <3> QED
        BY <1>0, <2>0, <2>1, <3>3 DEF runVars, WatchInv, WatchTypeOK
    <2> QED
      BY <2>2, <2>3
  <1>5. ASSUME NEW i \in Instance, RecordAlert(i) PROVE WatchInv'
    <2> DEFINE state == [check[i] EXCEPT !.pc = "idle"]
    <2>1. state \in CheckState /\ state.pc = "idle"
      BY <1>0 DEF CheckState
    <2>2. /\ check' = [check EXCEPT ![i] = state] /\ CheckAt(i, "record")
          /\ reported' = reported \cup {check[i].alert} /\ UNCHANGED <<runVars, claimed, watchFaults>>
      BY <1>0, <1>5 DEF RecordAlert, CheckGoto
    <2> HIDE DEF state
    <2>3. check[i].alert \in claimed
      BY <1>0, <2>2 DEF OneRecorder
    <2>4. OneRecorder' /\ check' \in [Instance -> CheckState]
      BY <1>0, <2>1, <2>2, <2>3, OneChecks
    <2> QED
      BY <1>0, <2>2, <2>3, <2>4 DEF runVars, WatchInv, WatchTypeOK
  <1>6. ASSUME NEW i \in Instance, CheckFails(i) \/ InstanceDies(i) \/ InstanceBoots(i) PROVE WatchInv'
    <2>1. \E pc \in {"idle", "due", "manual", "claim", "down"} : CheckGoto(i, pc)
      BY <1>6 DEF CheckFails, InstanceDies, InstanceBoots
    <2>2. check[i].alert \in Alert
      BY <1>0 DEF CheckState
    <2>3. /\ UNCHANGED <<runVars, reported>>
          /\ claimed' \in {claimed, claimed \cup {check[i].alert}}
          /\ WatchFault \/ UNCHANGED watchFaults
      BY <1>6 DEF CheckFails, InstanceDies, InstanceBoots
    <2>4. OneRecorder' /\ check' \in [Instance -> CheckState]
      BY <1>0, <1>1, <2>1, <2>2, <2>3
    <2>5. watchFaults' \in 0..MaxWatchFaults
      BY <1>0, <2>3 DEF WatchFault
    <2> QED
      BY <1>0, <2>2, <2>3, <2>4, <2>5 DEF runVars, WatchInv, WatchTypeOK
  <1>7. CASE CronSucceeds \/ CronLeavesNothing \/ ManualSucceeds
    <2>1. /\ UNCHANGED <<hour, check, claimed, reported, watchFaults>>
          /\ cronDue' = FALSE \/ cronDue' = cronDue
          /\ daily' = daily \/ daily' = 0
          /\ manual' = manual \/ manual' = 0
      BY <1>7, Zenon DEF CronSucceeds, CronLeavesNothing, ManualSucceeds
    <2>2. cronDue' \in BOOLEAN
      BY <1>0, <2>1, Zenon
    <2>4. 0 \in 0..Life
      OBVIOUS
    <2>5. daily' \in 0..Life /\ manual' \in 0..Life
      BY <1>0, <2>1, <2>4
    <2>3. OneRecorder'
      BY <1>0, <2>1 DEF OneRecorder, CheckAt
    <2> QED
      BY <1>0, <2>1, <2>2, <2>3, <2>5 DEF WatchInv, WatchTypeOK
  <1>8. CASE HourPasses
    <2>1. hour' \in 0..(DayHours - 1)
      BY <1>0, <1>8 DEF HourPasses
    <2>2. daily' \in 0..Life /\ manual' \in 0..Life
      BY <1>0, <1>8 DEF HourPasses, HourOlder
    <2>3. cronDue' \in BOOLEAN
      BY <1>8, Zenon DEF HourPasses
    <2>4. check' \in [Instance -> CheckState] /\ \A i \in Instance : check'[i].pc # "record"
      BY <1>0, <1>8 DEF HourPasses, Hourly, CheckAt, CheckState
    <2>5. claimed' \subseteq Alert /\ reported' \subseteq claimed' /\ watchFaults' = watchFaults
      BY <1>0, <1>8 DEF HourPasses, ClaimedNextDay
    <2> QED
      BY <1>0, <2>1, <2>2, <2>3, <2>4, <2>5 DEF WatchInv, WatchTypeOK, OneRecorder, CheckAt
  <1>9. CASE UNCHANGED watchVars
    BY <1>0, <1>9 DEF watchVars, WatchInv, WatchTypeOK, OneRecorder, CheckAt
  <1> QED
    BY <1>3, <1>4, <1>5, <1>6, <1>7, <1>8, <1>9 DEF WatchNext, CheckStep

(* Any number of server instances look for the backup at the same time, die and start
   again: an alert gets into the error log at most once a day, since the key is claimed
   by SETNX before the record is written.                                             *)
THEOREM AlertsOnceADay ==
  WatchSpec => [][\A i \in Instance : RecordAlert(i) => check[i].alert \notin reported]_watchVars
  <1>1. WatchInit => WatchInv
    BY WatchStarts
  <1>2. WatchInv /\ [WatchNext]_watchVars =>
          [\A i \in Instance : RecordAlert(i) => check[i].alert \notin reported]_watchVars
    BY DEF WatchInv, OneRecorder, RecordAlert
  <1> QED
    BY <1>1, <1>2, WatchStep, PTL DEF WatchSpec

-----------------------------------------------------------------------------
(* The paged lists.  The loop of the drop-down goes on only from a page that had rows, and
   only while it has gathered fewer than there are: so it has as many rows as pages behind
   it.                                                                                  *)
LEMMA LargerOfTwo ==
  ASSUME NEW a \in Int, NEW b \in Int
  PROVE  Max({a, b}) = IF a >= b THEN a ELSE b
  BY DEF Max

LEMMA SmallerOfTwo ==
  ASSUME NEW a \in Int, NEW b \in Int
  PROVE  Min({a, b}) = IF a <= b THEN a ELSE b
  BY DEF Min

\* A slice has at most a page of rows, and at most the rows there are.
LEMMA SliceFits ==
  ASSUME NEW n \in Nat, NEW p \in Nat \ {0}, NEW size \in Nat \ {0}
  PROVE  Slice(n, p, size) \in 0..size /\ Slice(n, p, size) <= n
  <1> DEFINE before == (p - 1) * size
             least == Min({size, n - before})
  <1>1. before \in Nat
    OBVIOUS
  <1>2. Slice(n, p, size) = Max({0, least})
    BY DEF Slice
  <1> HIDE DEF before
  <1>3. least = IF size <= n - before THEN size ELSE n - before
    BY <1>1, SmallerOfTwo
  <1>4. least \in Int /\ least <= size /\ least <= n
    BY <1>1, <1>3
  <1> HIDE DEF least
  <1>5. Max({0, least}) = IF 0 >= least THEN 0 ELSE least
    BY <1>4, LargerOfTwo
  <1> QED
    BY <1>2, <1>4, <1>5

LEMMA FirstPageListed ==
  /\ TotalPages(MaxRows, PageSize) \in Int
  /\ ListPage \subseteq Nat \ {0} /\ 1 \in ListPage
  <1>1. (MaxRows + PageSize - 1) \div PageSize \in Int
    BY ListingAssumption
  <1>2. TotalPages(MaxRows, PageSize) \in Int /\ TotalPages(MaxRows, PageSize) >= 1
    BY <1>1, LargerOfTwo DEF TotalPages
  <1> QED
    BY <1>2 DEF ListPage

LoopIsShort ==
  loop.pc = "sent" =>
    /\ loop.page - 1 <= loop.got
    /\ (loop.page = 1 /\ loop.got = 0) \/ loop.got < MaxRows

ListingInv == ListingTypeOK /\ LoopIsShort

LoopState ==
  [pc : {"idle", "sent", "done", "failed"}, page : 1..(MaxRows + 2),
   got : 0..((MaxRows + 1) * MaxRows), read : Read]

OneAnswer == [len : 0..PageSize \cup {Unknown},
              status : {"pending", "success", "error"}, old : BOOLEAN]
Answers == [ListPage -> OneAnswer]

LEMMA ListingStarts == ListingInit => ListingInv
  <1> SUFFICES ASSUME ListingInit PROVE ListingInv
    OBVIOUS
  <1>1. rows \in Rows /\ mounted \in {"list", "all"} /\ current = 1 /\ kept = 1 /\ own = 0
        /\ fetches = IF mounted = "list" THEN {1} ELSE {}
    BY DEF ListingInit
  <1>2. answer \in Answers
    BY DEF ListingInit, Answers, OneAnswer
  <1>3. loop = [pc |-> "idle", page |-> 1, got |-> 0, read |-> Unread] /\ Unread \in Read
    BY DEF ListingInit, Unread, Read
  <1>4. (MaxRows + 1) * MaxRows \in Nat
    BY ListingAssumption
  <1>5. loop \in LoopState /\ loop.pc = "idle"
    BY <1>3, <1>4, ListingAssumption DEF LoopState
  <1> QED
    BY <1>1, <1>2, <1>5, FirstPageListed, ListingAssumption
      DEF ListingInv, ListingTypeOK, LoopIsShort, Answers, OneAnswer, LoopState

\* What a step of the list may make of the state, but for the loop.
LEMMA ListStepTypes ==
  ASSUME ListingInv, UNCHANGED <<mounted, loop>>, rows' \in Rows, current' \in ListPage,
         kept' \in ListPage, answer' \in Answers, fetches' \subseteq ListPage, own' \in 0..MaxOwn
  PROVE  ListingInv'
  <1>1. ListingTypeOK /\ LoopIsShort
    BY DEF ListingInv
  <1>2. ListingTypeOK'
    BY <1>1 DEF ListingTypeOK, Answers, OneAnswer
  <1>3. LoopIsShort'
    BY <1>1 DEF LoopIsShort
  <1> QED
    BY <1>2, <1>3 DEF ListingInv

LEMMA ObserveTypes ==
  ASSUME ListingInv, NEW p \in ListPage, Observe(p)
  PROVE  /\ current' \in ListPage /\ kept' \in ListPage
         /\ answer' \in Answers /\ fetches' \subseteq ListPage
  <1>1. answer \in Answers /\ kept \in ListPage /\ fetches \subseteq ListPage
    BY DEF ListingInv, ListingTypeOK, Answers, OneAnswer
  <1>2. current' = p /\ (kept' = p \/ kept' = kept)
    BY Zenon DEF Observe
  <1>3. fetches' = fetches \/ fetches' = fetches \cup {p}
    BY Zenon DEF Observe
  <1> DEFINE mark == IF answer[p].old /\ ~HasAnswer(p) THEN "pending" ELSE answer[p].status
  <1>4. mark \in {"pending", "success", "error"}
    BY <1>1 DEF Answers, OneAnswer
  <1>5. answer' = [answer EXCEPT ![p].status = mark]
    BY DEF Observe
  <1> HIDE DEF mark
  <1>6. answer' \in Answers
    BY <1>1, <1>4, <1>5 DEF Answers, OneAnswer
  <1> QED
    BY <1>1, <1>2, <1>3, <1>6

LEMMA ListMoves ==
  ASSUME ListingInv
  PROVE  /\ Fallback \/ Turn \/ Refetch \/ OwnWrite \/ Invalidate \/ OthersWrite => ListingInv'
         /\ \A p \in ListPage : Arrives(p) \/ FetchFails(p) \/ GoesOld(p) => ListingInv'
  <1> USE ListingAssumption
  <1>0. /\ rows \in Rows /\ mounted \in {"list", "all"} /\ current \in ListPage /\ kept \in ListPage
        /\ answer \in Answers /\ fetches \subseteq ListPage /\ own \in 0..MaxOwn
    BY DEF ListingInv, ListingTypeOK, Answers, OneAnswer
  <1>1. CASE Fallback
    <2>0. current > 1
      BY <1>1 DEF Fallback
    <2>1. current - 1 \in ListPage
      BY <1>0, <2>0, FirstPageListed DEF ListPage
    <2>2. Observe(current - 1) /\ UNCHANGED <<rows, mounted, own, loop>>
      BY <1>1 DEF Fallback
    <2> QED
      BY <1>0, <2>1, <2>2, ObserveTypes, ListStepTypes
  <1>2. CASE Turn
    <2>1. PICK p \in ListPage : Observe(p)
      BY <1>2 DEF Turn
    <2>2. UNCHANGED <<rows, mounted, own, loop>>
      BY <1>2 DEF Turn
    <2> QED
      BY <1>0, <2>1, <2>2, ObserveTypes, ListStepTypes
  <1>3. CASE Refetch
    <2> DEFINE mark == IF HasAnswer(current) THEN answer[current].status ELSE "pending"
    <2>1. mark \in {"pending", "success", "error"}
      BY <1>0 DEF Answers, OneAnswer
    <2>2. answer' = [answer EXCEPT ![current].status = mark]
      BY <1>3 DEF Refetch
    <2> HIDE DEF mark
    <2>3. answer' \in Answers
      BY <1>0, <2>1, <2>2 DEF Answers, OneAnswer
    <2>4. fetches' = fetches \cup {current} /\ UNCHANGED <<rows, mounted, current, kept, own, loop>>
      BY <1>3 DEF Refetch
    <2> QED
      BY <1>0, <2>3, <2>4, ListStepTypes
  <1>4. CASE OwnWrite \/ OthersWrite
    <2>1. rows' \in Rows /\ UNCHANGED <<mounted, current, answer, fetches, kept, loop>>
      BY <1>4 DEF OwnWrite, OthersWrite
    <2>2. own' \in 0..MaxOwn
      BY <1>0, <1>4 DEF OwnWrite, OthersWrite
    <2> QED
      BY <1>0, <2>1, <2>2, ListStepTypes
  <1>5. CASE Invalidate
    <2> DEFINE Mark(p) == IF p = current /\ ~HasAnswer(p) THEN "pending" ELSE answer[p].status
    <2>1. \A p \in ListPage : Mark(p) \in {"pending", "success", "error"}
      BY <1>0 DEF Answers, OneAnswer
    <2>2. answer' = [p \in ListPage |-> [answer[p] EXCEPT !.old = TRUE, !.status = Mark(p)]]
      BY <1>5 DEF Invalidate
    <2> HIDE DEF Mark
    <2>3. answer' \in Answers
      BY <1>0, <2>1, <2>2 DEF Answers, OneAnswer
    <2>4. fetches' = fetches \cup {current} /\ UNCHANGED <<rows, mounted, current, kept, loop>>
      BY <1>5 DEF Invalidate
    <2>5. own > 0 /\ own' = own - 1
      BY <1>5 DEF Invalidate
    <2>6. own' \in 0..MaxOwn
      BY <1>0, <2>5
    <2> QED
      BY <1>0, <2>3, <2>4, <2>6, ListStepTypes
  <1>6. ASSUME NEW p \in ListPage, Arrives(p) PROVE ListingInv'
    <2>0. rows \in Nat /\ p \in Nat \ {0} /\ PageSize \in Nat \ {0}
      BY <1>0, FirstPageListed DEF Rows
    <2>1. Slice(rows, p, PageSize) \in 0..PageSize
      BY <2>0, SliceFits
    <2>2. answer' \in Answers
      BY <1>0, <1>6, <2>1 DEF Arrives, Answers, OneAnswer
    <2>3. fetches' = fetches \ {p} /\ kept' \in {p, kept} /\ UNCHANGED <<rows, mounted, current, own, loop>>
      BY <1>6 DEF Arrives
    <2> QED
      BY <1>0, <2>2, <2>3, ListStepTypes
  <1>7. ASSUME NEW p \in ListPage, FetchFails(p) \/ GoesOld(p) PROVE ListingInv'
    <2>0. \/ answer' = [answer EXCEPT ![p] = [@ EXCEPT !.status = "error", !.old = TRUE]]
          \/ answer' = [answer EXCEPT ![p] = [@ EXCEPT !.old = TRUE]]
      BY <1>0, <1>7 DEF FetchFails, GoesOld, Answers, OneAnswer
    <2>1. answer' \in Answers
      <3>1. answer[p] \in OneAnswer
        BY <1>0 DEF Answers, OneAnswer
      <3>2. [answer[p] EXCEPT !.old = TRUE] \in OneAnswer
        BY <3>1 DEF OneAnswer
      <3>3. [answer[p] EXCEPT !.status = "error", !.old = TRUE] \in OneAnswer
        BY <3>1 DEF OneAnswer
      <3> QED
        BY <1>0, <2>0, <3>2, <3>3 DEF Answers, OneAnswer
    <2>2. fetches' \in {fetches, fetches \ {p}} /\ UNCHANGED <<rows, mounted, current, kept, own, loop>>
      BY <1>7 DEF FetchFails, GoesOld
    <2> QED
      BY <1>0, <2>1, <2>2, ListStepTypes
  <1> QED
    BY <1>1, <1>2, <1>3, <1>4, <1>5, <1>6, <1>7

\* A step of the drop-down's loop.
LEMMA LoopStepTypes ==
  ASSUME ListingInv, UNCHANGED <<rows, mounted, current, answer, fetches, kept, own>>,
         loop' \in LoopState, LoopIsShort'
  PROVE  ListingInv'
  BY DEF ListingInv, ListingTypeOK, LoopState

LEMMA LoopMoves ==
  ListingInv /\ (OpenDropDown \/ LoopReads \/ LoopGoesOn \/ LoopFails) => ListingInv'
  <1> USE ListingAssumption
  <1> SUFFICES ASSUME ListingInv, OpenDropDown \/ LoopReads \/ LoopGoesOn \/ LoopFails
               PROVE  ListingInv'
    OBVIOUS
  <1>0. rows \in Rows /\ loop \in LoopState /\ LoopIsShort
    BY DEF ListingInv, ListingTypeOK, LoopState
  <1>1. UNCHANGED <<rows, mounted, current, answer, fetches, kept, own>>
    BY DEF OpenDropDown, LoopReads, LoopGoesOn, LoopFails
  <1>2. Unread \in Read /\ Unread.len = Unknown /\ Unknown <= MaxRows
    BY DEF Unread, Read, Unknown
  <1>3. (MaxRows + 1) * MaxRows \in Nat
    OBVIOUS
  <1>4. CASE OpenDropDown
    <2>1. loop' = [pc |-> "sent", page |-> 1, got |-> 0, read |-> Unread]
      BY <1>4 DEF OpenDropDown
    <2>2. loop' \in LoopState
      BY <1>2, <1>3, <2>1 DEF LoopState
    <2>3. LoopIsShort'
      BY <1>2, <2>1 DEF LoopIsShort
    <2> QED
      BY <1>1, <2>2, <2>3, LoopStepTypes
  <1>5. CASE LoopReads
    <2>0. loop.pc = "sent" /\ loop.page \in Nat \ {0} /\ loop.read \in Read
      BY <1>0, <1>5 DEF LoopReads, LoopState
    <2>1. rows \in Nat /\ rows <= MaxRows
      BY <1>0 DEF Rows
    <2> DEFINE slice == Slice(rows, loop.page, AllSize)
    <2>2. slice \in Rows
      BY <2>0, <2>1, SliceFits DEF Rows
    <2> HIDE DEF slice
    <2>3. \/ loop' = [loop EXCEPT !.read = [@ EXCEPT !.len = slice]]
          \/ loop' = [loop EXCEPT !.read = [@ EXCEPT !.total = rows]]
      BY <1>0, <1>5 DEF LoopReads, slice, LoopState
    <2>4. [loop.read EXCEPT !.len = slice] \in Read /\ [loop.read EXCEPT !.total = rows] \in Read
      BY <1>0, <2>0, <2>2 DEF Read
    <2>5. loop' \in LoopState
      BY <1>0, <2>3, <2>4 DEF LoopState
    <2>6. loop'.page = loop.page /\ loop'.got = loop.got
      BY <1>0, <2>3 DEF LoopState
    <2>7. LoopIsShort'
      BY <1>0, <2>0, <2>6 DEF LoopIsShort
    <2> QED
      BY <1>1, <2>5, <2>7, LoopStepTypes
  <1>6. CASE LoopGoesOn
    <2> DEFINE len == loop.read.len
               total == loop.read.total
               got == loop.got + len
               next == Min({loop.page + 1, MaxRows + 2})
    <2>0. /\ loop.pc = "sent" /\ loop.page \in Nat \ {0} /\ loop.got \in Nat
          /\ loop.page - 1 <= loop.got
          /\ (loop.page = 1 /\ loop.got = 0) \/ loop.got < MaxRows
          /\ len \in 0..MaxRows /\ total \in 0..MaxRows
      BY <1>0, <1>6 DEF LoopGoesOn, LoopState, LoopIsShort, Read, Rows
    <2>1. loop' = IF LastPage(got, len, total)
                    THEN [loop EXCEPT !.pc = "done", !.got = got, !.read = Unread]
                    ELSE [loop EXCEPT !.page = next, !.got = got, !.read = Unread]
      BY <1>6 DEF LoopGoesOn
    <2>2. got \in Nat /\ (got <= MaxRows \/ (got <= MaxRows + MaxRows /\ MaxRows >= 1))
      BY <2>0
    <2>3. MaxRows >= 1 => MaxRows + MaxRows <= (MaxRows + 1) * MaxRows
      <3>1. MaxRows >= 1 => (MaxRows - 1) * MaxRows \in Nat
        OBVIOUS
      <3>2. (MaxRows + 1) * MaxRows = (MaxRows - 1) * MaxRows + MaxRows + MaxRows
        OBVIOUS
      <3> QED
        BY <3>1, <3>2
    <2>4. MaxRows <= (MaxRows + 1) * MaxRows
      <3>1. MaxRows * MaxRows \in Nat
        OBVIOUS
      <3>2. (MaxRows + 1) * MaxRows = MaxRows * MaxRows + MaxRows
        OBVIOUS
      <3> QED
        BY <3>1, <3>2
    <2>5. next = loop.page + 1
      BY <2>0, SmallerOfTwo
    <2>9. ~LastPage(got, len, total) => loop.page <= got /\ got < MaxRows
      BY <2>0 DEF LastPage
    <2> HIDE DEF got, next, len, total
    <2>6. got \in 0..((MaxRows + 1) * MaxRows)
      BY <1>3, <2>2, <2>3, <2>4
    <2>7. next \in 1..(MaxRows + 2)
      BY <2>0, <2>5
    <2>8. loop' \in LoopState
      BY <1>0, <1>2, <2>1, <2>6, <2>7 DEF LoopState
    <2>10. LoopIsShort'
      <3>1. CASE LastPage(got, len, total)
        <4>1. loop'.pc = "done"
          BY <1>0, <2>1, <3>1 DEF LoopState
        <4> QED
          BY <4>1 DEF LoopIsShort
      <3>2. CASE ~LastPage(got, len, total)
        <4>1. loop'.page = loop.page + 1 /\ loop'.got = got
          BY <1>0, <2>1, <2>5, <3>2 DEF LoopState
        <4> QED
          BY <2>0, <2>2, <2>9, <3>2, <4>1 DEF LoopIsShort
      <3> QED
        BY <3>1, <3>2
    <2> QED
      BY <1>1, <2>8, <2>10, LoopStepTypes
  <1>7. CASE LoopFails
    <2>1. loop' = [loop EXCEPT !.pc = "failed", !.read = Unread]
      BY <1>7 DEF LoopFails
    <2>2. loop' \in LoopState /\ loop'.pc = "failed"
      BY <1>0, <1>2, <2>1 DEF LoopState
    <2>3. LoopIsShort'
      BY <2>2 DEF LoopIsShort
    <2> QED
      BY <1>1, <2>2, <2>3, LoopStepTypes
  <1> QED
    BY <1>4, <1>5, <1>6, <1>7

LEMMA ListingStep == ListingInv /\ [ListingNext]_listVars => ListingInv'
  <1> SUFFICES ASSUME ListingInv, [ListingNext]_listVars PROVE ListingInv'
    OBVIOUS
  <1>1. CASE UNCHANGED listVars
    BY <1>1 DEF listVars, ListingInv, ListingTypeOK, LoopIsShort
  <1> QED
    BY <1>1, ListMoves, LoopMoves DEF ListingNext, UserTurns, LoopStep

(* However the roles change while the drop-down reads them page by page, and whatever the
   size of a page, its loop asks for no more pages than there can be roles: a page that is
   not the last adds one role at least, and with as many as the total says it ends.      *)
THEOREM DropDownIsBounded ==
  ListingSpec => [](loop.pc = "sent" => loop.page = 1 \/ loop.page <= MaxRows)
  <1>1. ListingInv => (loop.pc = "sent" => loop.page = 1 \/ loop.page <= MaxRows)
    <2>1. ListingInv => MaxRows \in Nat /\ loop.page \in Nat /\ loop.got \in Nat
      BY ListingAssumption DEF ListingInv, ListingTypeOK
    <2> QED
      BY <2>1 DEF ListingInv, LoopIsShort
  <1> QED
    BY <1>1, ListingStarts, ListingStep, PTL DEF ListingSpec

-----------------------------------------------------------------------------
(* The way of the user.  Whatever a page is entered by, it is one of the client's; what
   is known of the user is one of the answers, or nothing.                              *)
Me == [state : {"none", "loading", "known", "failed"}, must : BOOLEAN, perm : BOOLEAN]
Token == {"none", "good", "marked", "dead"}

LEMMA NavStarts == NavInit \/ NavAtRest => NavTypeOK
  <1> SUFFICES ASSUME NavInit \/ NavAtRest PROVE NavTypeOK
    OBVIOUS
  <1>1. path \in Page /\ phase \in {"entering", "shown", "mounted"} /\ accessToken = "none"
        /\ calls = {} /\ me = NoMe
    BY DEF NavInit, NavAtRest, Page, Framed
  <1>6. boot \in {"over", "running", "late"}
    BY DEF NavInit, NavAtRest
  <1>7. account \in Account
    <2>1. account \in [must : BOOLEAN, perm : {TRUE}] \/ account = [must |-> FALSE, perm |-> TRUE]
      BY Zenon DEF NavInit, NavAtRest
    <2>2. [must |-> FALSE, perm |-> TRUE] \in Account
      BY DEF Account
    <2>3. {TRUE} \subseteq BOOLEAN
      BY Zenon
    <2>4. \A a \in [must : BOOLEAN, perm : {TRUE}] : a \in Account
      BY <2>3 DEF Account
    <2> QED
      BY <2>1, <2>2, <2>4, Zenon
  <1>2. loggedIn \in BOOLEAN /\ ready \in BOOLEAN
    BY Zenon DEF NavInit, NavAtRest
  <1>3. cookie = FALSE \/ cookie = loggedIn
    BY Zenon DEF NavInit, NavAtRest
  <1>4. cookie \in BOOLEAN
    BY <1>2, <1>3, Zenon
  <1>5. NoMe \in Me
    BY DEF NoMe, Me
  <1> QED
    BY <1>1, <1>2, <1>4, <1>5, <1>6, <1>7 DEF NavTypeOK, Me

\* The parts of the state a step of the client changes.
NavTypes == /\ path \in Page /\ phase \in {"entering", "shown", "mounted"} /\ loggedIn \in BOOLEAN
            /\ accessToken \in Token /\ me \in Me /\ calls \subseteq {"me", "content", "status"}
            /\ boot \in {"over", "running", "late"}

LEMMA NavTypesOf ==
  NavTypeOK <=> NavTypes /\ cookie \in BOOLEAN /\ account \in Account /\ ready \in BOOLEAN
  BY DEF NavTypeOK, NavTypes, Token, Me

LEMMA WorldTypes ==
  ASSUME NavTypeOK, WorldStays, NavTypes' PROVE NavTypeOK'
  <1>1. cookie' = cookie /\ account' = account /\ ready' = ready
    BY DEF WorldStays
  <1>2. cookie \in BOOLEAN /\ account \in Account /\ ready \in BOOLEAN
    BY DEF NavTypeOK
  <1>3. cookie' \in BOOLEAN /\ account' \in Account /\ ready' \in BOOLEAN
    BY <1>1, <1>2, Zenon
  <1> QED
    BY <1>3, Zenon DEF NavTypeOK, NavTypes, Token, Me

LEMMA Blank == NoMe \in Me /\ [NoMe EXCEPT !.state = "loading"] \in Me /\ [NoMe EXCEPT !.state = "failed"] \in Me
  BY DEF NoMe, Me

LEMMA LoadTypes ==
  ASSUME NEW p \in Page, NEW in \in BOOLEAN, NEW t \in Token, Load(p, in, t)
  PROVE  NavTypes'
  <1>1. path' = p /\ phase' = "entering" /\ me' = NoMe /\ calls' = {} /\ accessToken' = t
        /\ boot' \in {"over", "running"}
    BY DEF Load, Enter
  <1>2. loggedIn' \in BOOLEAN
    BY Zenon DEF Load
  <1> QED
    BY <1>1, <1>2, Blank DEF NavTypes

LEMMA RenewedIsToken ==
  ASSUME NavTypes, NEW exempt \in BOOLEAN PROVE Renewed(exempt) \in Token
  BY DEF NavTypes, Renewed, Token

LEMMA TurnedTypes ==
  ASSUME NavTypes, NEW call, NEW exempt, Turned(call, exempt) PROVE NavTypes'
  <1>1. \/ /\ calls' = calls \ {call} /\ me' \in {NoMe, me}
           /\ UNCHANGED <<path, phase, loggedIn, accessToken, boot>>
        \/ Load("change-password", loggedIn, accessToken)
        \/ Load("login", FALSE, "none")
    BY DEF Turned
  <1>2. CASE calls' = calls \ {call} /\ me' \in {NoMe, me}
             /\ UNCHANGED <<path, phase, loggedIn, accessToken, boot>>
    BY <1>2, Blank DEF NavTypes
  <1>3. CASE Load("change-password", loggedIn, accessToken)
    <2>1. "change-password" \in Page /\ loggedIn \in BOOLEAN /\ accessToken \in Token
      BY DEF NavTypes, Page
    <2> QED
      BY <1>3, <2>1, LoadTypes
  <1>4. CASE Load("login", FALSE, "none")
    <2>1. "login" \in Page /\ FALSE \in BOOLEAN /\ "none" \in Token
      BY DEF Page, Token
    <2> QED
      BY <1>4, <2>1, LoadTypes
  <1> QED
    BY <1>1, <1>2, <1>3, <1>4

LEMMA NavAutomatic == NavTypeOK /\ Automatic => NavTypeOK'
  <1> SUFFICES ASSUME NavTypeOK, Automatic PROVE NavTypeOK'
    OBVIOUS
  <1>0. NavTypes /\ cookie \in BOOLEAN /\ account \in Account /\ ready \in BOOLEAN
    BY NavTypesOf
  <1>p. {"dashboard", "users", "login", "change-password", "403"} \subseteq Page
    BY DEF Page, Framed
  <1>s. WorldStays
    BY Zenon DEF Automatic, CallsAnswered, BeforeLoad, LayoutRedirects, LayoutAsks, MountPage,
      ChangePageLeaves, SetupAsks, SetupAnswers, MeAnswers, ContentAnswers, BootEnds, MeFails,
      ContentFails, BootIsLate
  <1>1. CASE BeforeLoad
    <2>1. /\ phase' \in {"shown", "entering"} /\ path' \in {path, "dashboard", "login"}
          /\ me' \in {NoMe, me} /\ UNCHANGED <<loggedIn, accessToken, calls, boot>>
      BY <1>1 DEF BeforeLoad, Enter
    <2>2. NavTypes'
      BY <1>0, <1>p, <2>1, Blank DEF NavTypes
    <2> QED
      BY <1>s, <2>2, WorldTypes
  <1>2. CASE LayoutRedirects \/ ChangePageLeaves
    <2>1. /\ phase' = "entering" /\ path' \in {path, "login", "change-password", "403"}
          /\ UNCHANGED <<loggedIn, accessToken, me, calls, boot>>
      BY <1>2 DEF LayoutRedirects, ChangePageLeaves, LayoutTarget, Enter, Stay
    <2>2. NavTypes'
      BY <1>0, <1>p, <2>1 DEF NavTypes
    <2> QED
      BY <1>s, <2>2, WorldTypes
  <1>3. CASE LayoutAsks \/ MountPage \/ SetupAsks \/ ContentFails \/ BootIsLate
    <2>1. /\ phase' \in {phase, "mounted"} /\ me' \in {me, [NoMe EXCEPT !.state = "loading"]}
          /\ calls' \subseteq calls \cup {"me", "content", "status"} /\ boot' \in {boot, "late"}
          /\ UNCHANGED <<path, loggedIn, accessToken>>
      BY <1>3 DEF LayoutAsks, MountPage, SetupAsks, ContentFails, BootIsLate
    <2>2. NavTypes'
      BY <1>0, <2>1, Blank DEF NavTypes
    <2> QED
      BY <1>s, <2>2, WorldTypes
  <1>4. CASE SetupAnswers
    <2>1. /\ phase' \in {phase, "entering"} /\ path' \in {path, "login"}
          /\ calls' \subseteq calls /\ UNCHANGED <<loggedIn, accessToken, me, boot>>
      BY <1>4 DEF SetupAnswers, Enter
    <2>2. NavTypes'
      BY <1>0, <1>p, <2>1 DEF NavTypes
    <2> QED
      BY <1>s, <2>2, WorldTypes
  <1>5. CASE MeAnswers
    <2> DEFINE answered == [state |-> "known", must |-> account.must, perm |-> account.perm]
    <2>1. answered \in Me
      BY <1>0 DEF Me, Account
    <2>2. \/ /\ accessToken' = Renewed(TRUE) /\ me' \in {me, answered}
             /\ calls' \subseteq calls /\ UNCHANGED <<path, phase, loggedIn, boot>>
          \/ Turned("me", TRUE)
      BY <1>5 DEF MeAnswers
    <2> HIDE DEF answered
    <2>3. Renewed(TRUE) \in Token
      BY <1>0, RenewedIsToken
    <2>4. NavTypes'
      <3>1. CASE Turned("me", TRUE)
        BY <1>0, <3>1, TurnedTypes
      <3>2. CASE accessToken' = Renewed(TRUE) /\ me' \in {me, answered}
                 /\ calls' \subseteq calls /\ UNCHANGED <<path, phase, loggedIn, boot>>
        BY <1>0, <2>1, <2>3, <3>2 DEF NavTypes
      <3> QED
        BY <2>2, <3>1, <3>2
    <2> QED
      BY <1>s, <2>4, WorldTypes
  <1>6. CASE MeFails
    <2>1. /\ phase' \in {phase, "shown"} /\ me' \in {NoMe, [NoMe EXCEPT !.state = "failed"]}
          /\ calls' \subseteq calls /\ UNCHANGED <<path, loggedIn, accessToken, boot>>
      BY <1>6 DEF MeFails
    <2>2. NavTypes'
      BY <1>0, <2>1, Blank DEF NavTypes
    <2> QED
      BY <1>s, <2>2, WorldTypes
  <1>7. CASE ContentAnswers
    <2>1. \/ Load("403", loggedIn, Renewed(FALSE))
          \/ /\ accessToken' = Renewed(FALSE) /\ calls' \subseteq calls
             /\ UNCHANGED <<path, phase, loggedIn, me, boot>>
          \/ Turned("content", FALSE)
      BY <1>7 DEF ContentAnswers
    <2>2. Renewed(FALSE) \in Token /\ loggedIn \in BOOLEAN
      BY <1>0, RenewedIsToken DEF NavTypes
    <2>3. NavTypes'
      <3>1. CASE Load("403", loggedIn, Renewed(FALSE))
        BY <1>p, <2>2, <3>1, LoadTypes
      <3>2. CASE Turned("content", FALSE)
        BY <1>0, <3>2, TurnedTypes
      <3>3. CASE accessToken' = Renewed(FALSE) /\ calls' \subseteq calls
                 /\ UNCHANGED <<path, phase, loggedIn, me, boot>>
        BY <1>0, <2>2, <3>3 DEF NavTypes
      <3> QED
        BY <2>1, <3>1, <3>2, <3>3
    <2> QED
      BY <1>s, <2>3, WorldTypes
  <1>8. CASE BootEnds
    <2>1. loggedIn' = loggedIn \/ loggedIn' = FALSE
      BY <1>8, Zenon DEF BootEnds, Cleared
    <2>2. loggedIn' \in BOOLEAN
      BY <1>0, <2>1, Zenon DEF NavTypes
    <2>3. boot' = "over" /\ accessToken' \in {"good", "none"} /\ me' \in {me, NoMe}
          /\ UNCHANGED <<path, phase, calls>>
      BY <1>8 DEF BootEnds, Cleared
    <2>4. NavTypes'
      BY <1>0, <2>2, <2>3, Blank DEF NavTypes, Token
    <2> QED
      BY <1>s, <2>4, WorldTypes
  <1> QED
    BY <1>1, <1>2, <1>3, <1>4, <1>5, <1>6, <1>7, <1>8 DEF Automatic, CallsAnswered

LEMMA NavUser == NavTypeOK /\ UserActs => NavTypeOK'
  <1> SUFFICES ASSUME NavTypeOK, UserActs PROVE NavTypeOK'
    OBVIOUS
  <1>0. NavTypes /\ cookie \in BOOLEAN /\ account \in Account /\ ready \in BOOLEAN
    BY NavTypesOf
  <1>p. {"dashboard", "login", "change-password"} \subseteq Page
    BY DEF Page, Framed
  <1>1. ASSUME NEW p \in Page, Go(p) PROVE NavTypeOK'
    <2>1. WorldStays /\ ((Enter(p) /\ Stay) \/ Load(p, loggedIn, accessToken))
      BY <1>1 DEF Go
    <2>2. CASE Enter(p) /\ Stay
      BY <1>0, <2>1, <2>2, WorldTypes DEF Enter, Stay, NavTypes
    <2>3. CASE Load(p, loggedIn, accessToken)
      <3>1. loggedIn \in BOOLEAN /\ accessToken \in Token
        BY <1>0 DEF NavTypes
      <3>2. NavTypes'
        BY <2>3, <3>1, LoadTypes
      <3> QED
        BY <2>1, <3>2, WorldTypes
    <2> QED
      BY <2>1, <2>2, <2>3
  <1>2. CASE AskMeAgain
    <2>1. NavTypes'
      BY <1>0, <1>2 DEF AskMeAgain, NavTypes
    <2>2. WorldStays
      BY <1>2 DEF AskMeAgain
    <2> QED
      BY <2>1, <2>2, WorldTypes
  <1>3. CASE HandleLogin
    <2>1. loggedIn' = TRUE /\ cookie' = TRUE /\ UNCHANGED <<account, ready>>
      BY <1>3, Zenon DEF HandleLogin
    <2>2. /\ accessToken' \in {"marked", "good"} /\ path' \in {"change-password", "dashboard"}
          /\ phase' = "entering" /\ UNCHANGED <<me, calls, boot>>
      BY <1>3 DEF HandleLogin, Enter
    <2>3. loggedIn' \in BOOLEAN /\ cookie' \in BOOLEAN /\ account' \in Account /\ ready' \in BOOLEAN
      BY <1>0, <2>1, Zenon
    <2>4. NavTypes'
      BY <1>0, <1>p, <2>2, <2>3 DEF NavTypes, Token
    <2> QED
      BY <2>3, <2>4, Zenon DEF NavTypeOK, NavTypes, Token, Me
  <1>4. CASE HandleLogout
    <2>1. cookie' \in {cookie, cookie /\ accessToken = "dead"} /\ loggedIn' = FALSE
          /\ UNCHANGED <<account, ready>>
      BY <1>4, Zenon DEF HandleLogout, Cleared
    <2>2. cookie' \in BOOLEAN
      <3>1. (cookie /\ accessToken = "dead") \in BOOLEAN
        BY Zenon
      <3> QED
        BY <1>0, <2>1, <3>1, Zenon
    <2>3. loggedIn' \in BOOLEAN /\ account' \in Account /\ ready' \in BOOLEAN
      BY <1>0, <2>1, Zenon
    <2>4. accessToken' = "none" /\ me' = NoMe /\ path' = "login" /\ phase' = "entering"
          /\ UNCHANGED <<calls, boot>>
      BY <1>4 DEF HandleLogout, Cleared, Enter
    <2>5. NavTypes'
      BY <1>0, <1>p, <2>3, <2>4, Blank DEF NavTypes, Token
    <2> QED
      BY <2>2, <2>3, <2>5, Zenon DEF NavTypeOK, NavTypes, Token, Me
  <1>5. CASE SubmitChange
    <2>1. CASE Turned("password", TRUE) /\ WorldStays
      BY <1>0, <2>1, TurnedTypes, WorldTypes
    <2>2. CASE /\ account' = [account EXCEPT !.must = FALSE] /\ cookie' = FALSE
               /\ Cleared /\ Enter("login") /\ UNCHANGED <<calls, boot, ready>>
      <3>1. cookie' \in BOOLEAN /\ loggedIn' \in BOOLEAN /\ ready' \in BOOLEAN
        BY <1>0, <2>2, Zenon DEF Cleared
      <3>2. account' \in Account
        BY <1>0, <2>2 DEF Account
      <3>3. NavTypes'
        BY <1>0, <1>p, <2>2, <3>1, Blank DEF Cleared, Enter, NavTypes, Token
      <3> QED
        BY <3>1, <3>2, <3>3, Zenon DEF NavTypeOK, NavTypes, Token, Me
    <2> QED
      BY <1>5, <2>1, <2>2 DEF SubmitChange
  <1>6. CASE SubmitSetup
    <2>1. ready' = TRUE /\ UNCHANGED <<cookie, account>>
      BY <1>6, Zenon DEF SubmitSetup
    <2>2. path' = "login" /\ phase' = "entering" /\ UNCHANGED <<loggedIn, accessToken, me, calls, boot>>
      BY <1>6 DEF SubmitSetup, Enter, Stay
    <2>3. NavTypes'
      BY <1>0, <1>p, <2>2 DEF NavTypes
    <2>4. ready' \in BOOLEAN /\ cookie' \in BOOLEAN /\ account' \in Account
      BY <1>0, <2>1, Zenon
    <2> QED
      BY <2>3, <2>4, Zenon DEF NavTypeOK, NavTypes, Token, Me
  <1> QED
    BY <1>1, <1>2, <1>3, <1>4, <1>5, <1>6 DEF UserActs

LEMMA NavWorld ==
  NavTypeOK /\ (TokenEnds \/ CookieEnds \/ Reset \/ Unmark \/ GrantTurns) => NavTypeOK'
  <1> SUFFICES ASSUME NavTypeOK, TokenEnds \/ CookieEnds \/ Reset \/ Unmark \/ GrantTurns
               PROVE  NavTypeOK'
    OBVIOUS
  <1>0. NavTypes /\ cookie \in BOOLEAN /\ account \in Account /\ ready \in BOOLEAN
    BY NavTypesOf
  <1>1. accessToken' = accessToken \/ accessToken' = Killed
    BY Zenon DEF TokenEnds, CookieEnds, Reset, Unmark, GrantTurns, clientVars
  <1>2. UNCHANGED <<path, phase, loggedIn, me, calls, boot, ready>>
    BY DEF TokenEnds, CookieEnds, Reset, Unmark, GrantTurns, clientVars, WorldStays
  <1>3. Killed \in Token
    BY <1>0 DEF Killed, NavTypes, Token
  <1>4. NavTypes'
    BY <1>0, <1>1, <1>2, <1>3 DEF NavTypes
  <1>5. cookie' = cookie \/ cookie' = FALSE
    BY Zenon DEF TokenEnds, CookieEnds, Reset, Unmark, GrantTurns, WorldStays
  <1>6. cookie' \in BOOLEAN /\ ready' \in BOOLEAN
    BY <1>0, <1>2, <1>5, Zenon
  <1>7. \/ account' = account
        \/ account' = [account EXCEPT !.must = TRUE]
        \/ account' = [account EXCEPT !.must = FALSE]
        \/ account' = [account EXCEPT !.perm = ~account.perm]
    BY <1>0 DEF TokenEnds, CookieEnds, Reset, Unmark, GrantTurns, WorldStays, Account
  <1>8. account' \in Account
    BY <1>0, <1>7 DEF Account
  <1> QED
    BY <1>4, <1>6, <1>8, Zenon DEF NavTypeOK, NavTypes, Token, Me

LEMMA NavStep == NavTypeOK /\ [NavNext]_navVars => NavTypeOK'
  <1> SUFFICES ASSUME NavTypeOK, [NavNext]_navVars PROVE NavTypeOK'
    OBVIOUS
  <1>1. CASE UNCHANGED navVars
    <2>1. /\ UNCHANGED <<path, phase, loggedIn, accessToken, me, calls, boot>>
          /\ UNCHANGED <<cookie, account, ready>>
      BY <1>1, Zenon DEF navVars, clientVars
    <2>2. path' \in Page /\ phase' \in {"entering", "shown", "mounted"}
          /\ accessToken' \in {"none", "good", "marked", "dead"} /\ calls' \subseteq {"me", "content", "status"}
          /\ boot' \in {"over", "running", "late"}
      BY <2>1 DEF NavTypeOK
    <2>3. loggedIn' \in BOOLEAN /\ cookie' \in BOOLEAN /\ ready' \in BOOLEAN
      BY <2>1, Zenon DEF NavTypeOK
    <2>4. me' \in Me /\ account' \in Account
      BY <2>1, Zenon DEF NavTypeOK, Me
    <2> QED
      BY <2>2, <2>3, <2>4, Zenon DEF NavTypeOK, Me
  <1> QED
    BY <1>1, NavAutomatic, NavUser, NavWorld DEF NavNext

-----------------------------------------------------------------------------
(* The composition: what is not a component's turn leaves its variables alone. *)
LEMMA VaultRests == EventuallySpec => Spec
  <1>1. EventuallyInit => Init
    BY DEF EventuallyInit
  <1>2. [EventuallyNext]_eventuallyVars => [Next]_vars
    BY DEF EventuallyNext, eventuallyVars, FilesMove, WatchMoves, ThrottleMoves, SocketMoves,
      PresenceMoves, NavigationMoves, ListingMoves
  <1> QED
    BY <1>1, <1>2, PTL DEF EventuallySpec, Spec

LEMMA SocketRests == EventuallySpec => SocketSpec
  <1>1. EventuallyInit => SocketInit
    BY DEF EventuallyInit
  <1>2. [EventuallyNext]_eventuallyVars => [SocketNext]_socketVars
    BY DEF EventuallyNext, eventuallyVars, FilesMove, WatchMoves, ThrottleMoves, SocketMoves,
      PresenceMoves, NavigationMoves, ListingMoves
  <1> QED
    BY <1>1, <1>2, PTL DEF EventuallySpec, SocketSpec

LEMMA GatewayRests == EventuallySpec => PresenceSpec
  <1>1. EventuallyInit => PresenceInit
    BY DEF EventuallyInit
  <1>2. [EventuallyNext]_eventuallyVars => [PresenceNext]_presenceVars
    BY DEF EventuallyNext, eventuallyVars, FilesMove, WatchMoves, ThrottleMoves, SocketMoves,
      PresenceMoves, NavigationMoves, ListingMoves
  <1> QED
    BY <1>1, <1>2, PTL DEF EventuallySpec, PresenceSpec

LEMMA ThrottleRests == EventuallySpec => []ThrottleInv
  <1>1. EventuallyInit => ThrottleInv
    BY ThrottleStarts DEF EventuallyInit
  <1>2. [EventuallyNext]_eventuallyVars => [ThrottleNext]_throttleVars
    BY DEF EventuallyNext, eventuallyVars, FilesMove, WatchMoves, ThrottleMoves, SocketMoves,
      PresenceMoves, NavigationMoves, ListingMoves
  <1> QED
    BY <1>1, <1>2, ThrottleStep, PTL DEF EventuallySpec

LEMMA WatchRests == EventuallySpec => []WatchInv
  <1>1. EventuallyInit => WatchInv
    BY WatchStarts DEF EventuallyInit
  <1>2. [EventuallyNext]_eventuallyVars => [WatchNext]_watchVars
    BY DEF EventuallyNext, eventuallyVars, FilesMove, WatchMoves, ThrottleMoves, SocketMoves,
      PresenceMoves, NavigationMoves, ListingMoves
  <1> QED
    BY <1>1, <1>2, WatchStep, PTL DEF EventuallySpec

LEMMA NavigationRests == EventuallySpec => []NavTypeOK
  <1>1. EventuallyInit => NavTypeOK
    BY NavStarts DEF EventuallyInit
  <1>2. [EventuallyNext]_eventuallyVars => [NavNext]_navVars
    BY DEF EventuallyNext, eventuallyVars, FilesMove, WatchMoves, ThrottleMoves, SocketMoves,
      PresenceMoves, NavigationMoves, ListingMoves
  <1> QED
    BY <1>1, <1>2, NavStep, PTL DEF EventuallySpec

LEMMA ListingRests == EventuallySpec => []ListingInv
  <1>1. EventuallyInit => ListingInv
    BY ListingStarts DEF EventuallyInit
  <1>2. [EventuallyNext]_eventuallyVars => [ListingNext]_listVars
    BY DEF EventuallyNext, eventuallyVars, FilesMove, WatchMoves, ThrottleMoves, SocketMoves,
      PresenceMoves, NavigationMoves, ListingMoves
  <1> QED
    BY <1>1, <1>2, ListingStep, PTL DEF EventuallySpec

(* In the composition that TLC checks for liveness every variable keeps its type, for all
   the parameters; the clean-up, the socket, the gateway, the counter, the watch, the pages
   and the lists each by their own invariant.                                              *)
THEOREM EventuallyTypeCorrect == EventuallySpec => []EventuallyTypeOK
  <1>1. VaultInv => TypeOK
    BY DEF VaultInv, VaultTyped
  <1>2. SocketInv => SocketTypeOK
    BY DEF SocketInv
  <1>3. ThrottleInv => ThrottleTypeOK
    BY DEF ThrottleInv
  <1>4. WatchInv => WatchTypeOK
    BY DEF WatchInv
  <1>5. ListingInv => ListingTypeOK
    BY DEF ListingInv
  <1>6. TypeOK /\ WatchTypeOK /\ ThrottleTypeOK /\ SocketTypeOK /\ PresenceTypeOK /\ NavTypeOK
          /\ ListingTypeOK
        => EventuallyTypeOK
    BY DEF EventuallyTypeOK
  <1> QED
    BY <1>1, <1>2, <1>3, <1>4, <1>5, <1>6, VaultRests, VaultAlways, SocketRests, SocketAlways,
      GatewayRests, PresenceTypeCorrect, ThrottleRests, WatchRests, NavigationRests, ListingRests, PTL
=============================================================================
