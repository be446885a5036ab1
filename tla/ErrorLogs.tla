----------------------------- MODULE ErrorLogs -----------------------------
(***************************************************************************)
(* What becomes of an error or audit record.  The browser's reports pass   *)
(* the whitelist, whose active rules are cached in Redis; the server's own *)
(* records pass a cap per minute or nothing; all end in an INSERT that     *)
(* nobody waits for, so a shutdown drains the registered ones before it    *)
(* closes the database.                                                    *)
(*                                                                         *)
(* The filter records 401, 403, 429 and 5xx only, every other caller what  *)
(* is internal: of the server's own records none is looked up among the    *)
(* rules.                                                                  *)
(*                                                                         *)
(* A rule is known by its pattern, and whether a report contains one is a  *)
(* choice; so is whether a counter is over its cap.  The SELECT and the    *)
(* SET of one look-up lie within one tick.                                 *)
(***************************************************************************)
EXTENDS Integers, FiniteSets

CONSTANTS
  Entry,         \* records under way or in the tables
  Rule,          \* rows of error_whitelist
  Pattern,       \* (matchType, pattern) pairs
  CacheLife,     \* WHITELIST_CACHE_TTL, in ticks
  MaxLogFaults   \* bound on failing calls and crashes

ASSUME LogAssumption == CacheLife \in Nat \ {0} /\ MaxLogFaults \in Nat

VARIABLES
  entry,     \* entry[e]: where a record is
  rules,     \* rules[r]: a row of error_whitelist
  cache,     \* error:whitelist:active
  manager,   \* how far a change of the rules is
  withdrawn, \* history: ticks since the pattern was last in force
  server,    \* the process: up, draining, closed
  logFaults

logVars == <<entry, rules, cache, manager, withdrawn, server, logFaults>>
whitelistVars == <<rules, cache, manager, withdrawn>>

\* The browser's report; a refusal (401, 403, 429) or crash (5xx) the filter records;
\* a record with internal: true; a row of audit_logs.
Kind == {"report", "refusal", "internal", "audit"}
UnderWay == {"lookup", "fill", "cap", "insert"}

EntryState ==
  [pc      : UnderWay \cup {"none", "stored", "resolved", "removed", "silenced", "capped", "cut"},
   kind    : Kind,
   seen    : SUBSET Pattern,  \* the active rules a look-up has read
   drained : BOOLEAN,         \* the shutdown waits for it
   early   : BOOLEAN]         \* history: it was under way when a shutdown began
                             \* that has not given up on its writes
NoEntry == [pc |-> "none", kind |-> "report", seen |-> {}, drained |-> FALSE, early |-> FALSE]

RuleState == [pattern : Pattern, active : BOOLEAN, deleted : BOOLEAN]
Live(r) == ~rules[r].deleted
InForce == {rules[r].pattern : r \in {s \in Rule : Live(s) /\ rules[s].active}}
NoCache == [list |-> {}, left |-> 0]

LogTypeOK ==
  /\ entry \in [Entry -> EntryState]
  /\ rules \in [Rule -> RuleState]
  /\ cache \in [list : SUBSET Pattern, left : 0..CacheLife]
  /\ manager \in {"idle", "delActive", "delAll"}
  /\ withdrawn \in [Pattern -> 0..(CacheLife + 1)]
  /\ server \in {"up", "draining", "closed"}
  /\ logFaults \in 0..MaxLogFaults

\* A row that was never inserted is one that is deleted.
LogInit ==
  /\ entry = [e \in Entry |-> NoEntry]
  /\ rules \in [Rule -> {[pattern |-> p, active |-> FALSE, deleted |-> TRUE] : p \in Pattern}]
  /\ cache = NoCache /\ manager = "idle"
  /\ withdrawn = [p \in Pattern |-> CacheLife + 1]
  /\ server = "up" /\ logFaults = 0

LogFault == logFaults < MaxLogFaults /\ logFaults' = logFaults + 1
Goes(e, pc) == entry' = [entry EXCEPT ![e] = [entry[e] EXCEPT !.pc = pc]]
Ended(e, pc) == [NoEntry EXCEPT !.kind = entry[e].kind, !.pc = pc]

\* Of a record that the end of the process cuts short nothing is left; one whose
\* shutdown should have waited is remembered as cut.
Cut(e) == IF entry[e].early THEN [Ended(e, "cut") EXCEPT !.early = TRUE] ELSE NoEntry
IsCut(e) == entry' = [entry EXCEPT ![e] = Cut(e)]
Ends(e, pc) == entry' = [entry EXCEPT ![e] = Ended(e, pc)]

-----------------------------------------------------------------------------
(* The pipelines. *)

\* What is evidence skips the whitelist; an internal record has no status, hence no cap.
FirstStep(kind) ==
  CASE kind = "report"              -> "lookup"
    [] kind \in {"refusal", "audit"} -> "cap"
    [] kind = "internal"            -> "insert"

\* report, record and AuditService.record.  Requests come in until the process is gone.
Arrive(e, kind) ==
  /\ entry[e].pc = "none"
  /\ entry' = [entry EXCEPT ![e] = [NoEntry EXCEPT !.kind = kind, !.pc = FirstStep(kind)]]
  /\ UNCHANGED <<whitelistVars, server, logFaults>>

\* matchWhitelist on a list; a report it does not silence is counted per address.
Matched(e, list) ==
  \/ list # {} /\ Ends(e, "silenced")
  \/ entry' = [entry EXCEPT ![e] = [entry[e] EXCEPT !.pc = "cap", !.seen = {}]]

\* Faulty: a hit lets the list live on.
LookupHitRenews(e) ==
  /\ entry[e].pc = "lookup" /\ cache.left > 0
  /\ Matched(e, cache.list)
  /\ cache' = [cache EXCEPT !.left = CacheLife]
  /\ UNCHANGED <<rules, manager, withdrawn, server, logFaults>>

LookupHit(e) ==
  /\ entry[e].pc = "lookup" /\ cache.left > 0
  /\ Matched(e, cache.list)
  /\ UNCHANGED <<whitelistVars, server, logFaults>>

\* Nothing cached, or Redis fails: SELECT the active rules.
LookupMiss(e) ==
  /\ entry[e].pc = "lookup"
  /\ \/ cache.left = 0 /\ UNCHANGED logFaults
     \/ cache.left > 0 /\ LogFault
  /\ IF server = "closed"
       THEN IsCut(e)
       ELSE entry' = [entry EXCEPT ![e] = [entry[e] EXCEPT !.pc = "fill", !.seen = InForce]]
  /\ UNCHANGED <<whitelistVars, server>>

\* Then SET, the empty list too, whatever has been withdrawn or cached meanwhile.
Fill(e) ==
  /\ entry[e].pc = "fill"
  /\ Matched(e, entry[e].seen)
  /\ \/ cache' = [list |-> entry[e].seen, left |-> CacheLife] /\ UNCHANGED logFaults
     \/ LogFault /\ UNCHANGED cache
  /\ UNCHANGED <<rules, manager, withdrawn, server>>

\* enforceDailyIpLimit, enforceRecordMinuteCap: over the cap, a line in the log file
\* or a 409 is all that is left; a failing Redis lets it pass.
Cap(e) ==
  /\ entry[e].pc = "cap"
  /\ \/ Goes(e, "insert") \/ Ends(e, "capped")
  /\ UNCHANGED <<whitelistVars, server, logFaults>>

Insert(e) ==
  /\ entry[e].pc = "insert"
  /\ IF server = "closed" THEN IsCut(e) ELSE Ends(e, "stored")
  /\ UNCHANGED <<whitelistVars, server, logFaults>>

InsertFails(e) ==
  /\ entry[e].pc = "insert" /\ server # "closed" /\ LogFault
  /\ entry' = [entry EXCEPT ![e] = NoEntry]
  /\ UNCHANGED <<whitelistVars, server>>

\* resolve: of one row; batchResolve: of the rows with its message and source.
Resolve(same) ==
  /\ same # {} /\ \A e \in same : entry[e].pc = "stored" /\ entry[e].kind # "audit"
  /\ entry' = [e \in Entry |-> IF e \in same THEN [entry[e] EXCEPT !.pc = "resolved"] ELSE entry[e]]
  /\ UNCHANGED <<whitelistVars, server, logFaults>>

\* remove: a refusal or a crash only by a superadministrator.  Nothing removes audit
\* rows, and Forget is the 30 days' clean-up: of the stored rows, and of what became of
\* the others.
RemoveEntry(e, superadmin) ==
  /\ entry[e].pc \in {"stored", "resolved"} /\ entry[e].kind # "audit"
  /\ entry[e].kind = "refusal" => superadmin
  /\ IF superadmin THEN entry' = [entry EXCEPT ![e] = NoEntry] ELSE Ends(e, "removed")
  /\ UNCHANGED <<whitelistVars, server, logFaults>>

Forget(e) ==
  /\ entry[e].pc \notin UnderWay \cup {"none"}
  /\ entry[e].pc = "stored" => entry[e].kind # "audit"
  /\ entry' = [entry EXCEPT ![e] = NoEntry]
  /\ UNCHANGED <<whitelistVars, server, logFaults>>

-----------------------------------------------------------------------------
(* The whitelist. *)

\* The partial unique index over (matchType, pattern).
Unique == \A r, s \in Rule : Live(r) /\ Live(s) /\ rules[r].pattern = rules[s].pattern => r = s

\* Ticks start to count for a pattern that stops being in force.
Withdraw == withdrawn' = [p \in Pattern |->
  IF p \in InForce \cup InForce' THEN 0 ELSE withdrawn[p]]

WriteRule(r, row) ==
  /\ manager = "idle" /\ server # "closed" /\ row # rules[r]
  /\ rules' = [rules EXCEPT ![r] = row]
  /\ Unique'
  /\ Withdraw
  /\ manager' = "delActive"
  /\ UNCHANGED <<entry, cache, server, logFaults>>

CreateRule(r, p, active) ==
  ~Live(r) /\ WriteRule(r, [pattern |-> p, active |-> active, deleted |-> FALSE])
UpdateRule(r, p, active) ==
  Live(r) /\ WriteRule(r, [pattern |-> p, active |-> active, deleted |-> FALSE])
RemoveRule(r) == Live(r) /\ WriteRule(r, [rules[r] EXCEPT !.deleted = TRUE])
RestoreRule(r) == ~Live(r) /\ WriteRule(r, [rules[r] EXCEPT !.deleted = FALSE])

\* invalidateWhitelistCache: two DELs, and a failure of either is ignored.
Invalidate ==
  /\ \/ /\ manager = "delActive" /\ manager' = "delAll"
        /\ cache' = NoCache /\ UNCHANGED logFaults
     \/ /\ manager = "delAll" /\ manager' = "idle"
        /\ UNCHANGED <<cache, logFaults>>
     \/ /\ manager # "idle" /\ LogFault /\ manager' = "idle"
        /\ UNCHANGED cache
  /\ UNCHANGED <<entry, rules, withdrawn, server>>

LogTick ==
  /\ \A e \in Entry : entry[e].pc # "fill"
  /\ cache' = IF cache.left > 1 THEN [cache EXCEPT !.left = @ - 1] ELSE NoCache
  /\ withdrawn' = [p \in Pattern |->
       IF p \in InForce \/ withdrawn[p] > CacheLife THEN withdrawn[p] ELSE withdrawn[p] + 1]
  /\ UNCHANGED <<entry, rules, manager, server, logFaults>>

-----------------------------------------------------------------------------
(* Shutdown, in onModuleDestroy, while requests are still answered. *)

\* Faulty: the error records, too, are registered only when they are inserted.
RegisteredLate(e) == entry[e].pc = "insert" /\ entry[e].kind # "report"

\* trackDbWrite: recordInternal from its beginning, an audit row from its INSERT,
\* a report never.
Registered(e) ==
  \/ entry[e].pc \in UnderWay /\ entry[e].kind \in {"refusal", "internal"}
  \/ entry[e].pc = "insert" /\ entry[e].kind = "audit"

StartDrain ==
  /\ server = "up" /\ server' = "draining"
  /\ entry' = [e \in Entry |-> [entry[e] EXCEPT !.drained = Registered(e),
                                               !.early = @ \/ entry[e].pc \in UnderWay]]
  /\ UNCHANGED <<whitelistVars, logFaults>>

\* All that was registered then has settled, or 3 s are over.
EndDrain ==
  /\ server = "draining" /\ server' = "closed"
  /\ IF \E e \in Entry : entry[e].drained /\ entry[e].pc \in UnderWay
       THEN LogFault /\ entry' = [e \in Entry |-> [entry[e] EXCEPT !.early = FALSE]]
       ELSE UNCHANGED <<entry, logFaults>>
  /\ UNCHANGED whitelistVars

CallsEnd(left) ==
  entry' = [e \in Entry |-> IF entry[e].pc \in UnderWay THEN left[e] ELSE entry[e]]

\* The process ends, in order or killed, and another starts; so may a change of the
\* rules between its UPDATE and its DELs.
Exit ==
  /\ server = "closed" /\ CallsEnd([e \in Entry |-> Cut(e)])
  /\ server' = "up" /\ manager' = "idle"
  /\ UNCHANGED <<rules, cache, withdrawn, logFaults>>

Killed ==
  /\ LogFault /\ CallsEnd([e \in Entry |-> NoEntry])
  /\ server' = "up" /\ manager' = "idle"
  /\ UNCHANGED <<rules, cache, withdrawn>>

LogNext ==
  \/ \E e \in Entry :
       \/ \E kind \in Kind : Arrive(e, kind)
       \/ LookupHit(e) \/ LookupMiss(e) \/ Fill(e) \/ Cap(e) \/ Insert(e) \/ InsertFails(e)
       \/ \E superadmin \in BOOLEAN : RemoveEntry(e, superadmin)
       \/ Forget(e)
  \/ \E same \in SUBSET Entry : Resolve(same)
  \/ \E r \in Rule :
       \/ \E p \in Pattern, active \in BOOLEAN : CreateRule(r, p, active) \/ UpdateRule(r, p, active)
       \/ RemoveRule(r) \/ RestoreRule(r)
  \/ Invalidate \/ LogTick \/ StartDrain \/ EndDrain \/ Exit \/ Killed

LogSpec == LogInit /\ [][LogNext]_logVars

-----------------------------------------------------------------------------
(* A rule that has been withdrawn silences nothing for longer than one life of
   the cache, although a look-up may write what it read before the change after
   the change's DEL, and the DEL may fail.                                     *)
WithdrawnWithinLife ==
  \A p \in cache.list \ InForce : withdrawn[p] + cache.left <= CacheLife

(* What the server records itself ends in the table or in the log file: no rule
   silences it, no one but a superadministrator removes a refusal or a crash, an
   internal record meets no cap, and a shutdown that begins while one is under way
   lets it be inserted unless the 3 s run out.                                    *)
EvidenceKept == \A e \in Entry : entry[e].kind \in {"refusal", "internal"} =>
  /\ entry[e].pc # "silenced"
  /\ entry[e].kind = "refusal" => entry[e].pc # "removed"
  /\ entry[e].kind = "internal" => entry[e].pc # "capped"
  /\ entry[e].pc = "cut" => ~entry[e].early
=============================================================================
