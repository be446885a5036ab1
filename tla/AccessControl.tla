--------------------------- MODULE AccessControl ---------------------------
(***************************************************************************)
(* Who may do what: a role, the codes bound to it in role_permissions, the *)
(* permissions those codes name, one user who may have the role, and the   *)
(* Redis key perm:role:<id> in which the permission guard keeps the role's *)
(* codes for 300 s.  The guard fills the key from what it has just read;   *)
(* whoever changes a grant deletes it after the commit.                    *)
(*                                                                         *)
(* A request is the code between two database or Redis calls per action.   *)
(* Transactions run under READ COMMITTED: the DELETE of a transaction sees *)
(* the rows of its own start (`rows'), and of two transactions that would  *)
(* delete the same row the one that comes second finds it gone.  A slot    *)
(* of `Request' serves one request after another.  The callers are         *)
(* superadmins: for anybody else the services only refuse more.            *)
(***************************************************************************)
EXTENDS Integers, FiniteSets

CONSTANTS
  Request,    \* requests under way at the same time
  Perm,       \* ids of the permissions table
  Code,       \* permission codes
  Reserved,   \* PermissionCodes: the codes routes ask for by name
  Opens,      \* Opens[p]: the codes whose routes the white list of p matches
  None,
  Ttl,        \* life of the cached codes, in ticks of the clock
  MaxChanges  \* bound on the requests that are no guards

ASSUME AccessAssumption ==
  /\ Reserved \subseteq Code
  /\ Opens \in [Perm -> SUBSET Code]
  /\ None \notin Code \cup Perm
  /\ Ttl \in Nat \ {0}
  /\ MaxChanges \in Nat

VARIABLES
  role,       \* the role is not soft-deleted
  user,       \* user.live: not soft-deleted; user.bound: roleId is the role
  perm,       \* perm[p]: row p, and whether it is live
  bindings,   \* the codes of the role's rows in role_permissions
  cache,      \* perm:role:<id>, or None
  req,        \* req[r]: the request in slot r
  changes,    \* requests begun that are no guards
  withdrawn   \* history: withdrawn[c]: ticks since the role has not been granted c

vars == <<role, user, perm, bindings, cache, req, changes, withdrawn>>

Free == {"idle", "passed"}

ReqState ==
  [pc    : Free \cup {"g.role", "g.cache", "g.load", "g.fill", "g.decide",
                      "u.codes", "u.delete", "u.insert", "drop",
                      "r.count", "r.delete", "r.commit", "r.restore",
                      "p.create", "p.rename", "p.count", "p.delete", "p.commit", "p.restore",
                      "a.role", "a.commit", "z.role", "z.commit"},
   want  : Code \cup {None},   \* the code a route asks for, or a permission's new code
   codes : SUBSET Code,        \* the codes a guard has read, or an update inserts
   late  : BOOLEAN,            \* history: the key was deleted since the codes were read
   rows  : SUBSET Code,        \* what the transaction's DELETE found
   perm  : Perm \cup {None},
   code  : Code \cup {None},   \* existing.code
   bind  : BOOLEAN]            \* the user is given the role, or loses it

Idle == [pc |-> "idle", want |-> None, codes |-> {}, late |-> FALSE, rows |-> {},
         perm |-> None, code |-> None, bind |-> FALSE]

\* suspect (history): filled too late, or an invalidation of it has failed.
CacheState == [codes : SUBSET Code, ttl : 1..Ttl, suspect : BOOLEAN]

TypeOK ==
  /\ role \in BOOLEAN
  /\ user \in [live : BOOLEAN, bound : BOOLEAN]
  /\ perm \in [Perm -> [code : Code \cup {None}, live : BOOLEAN]]
  /\ bindings \subseteq Code
  /\ cache \in CacheState \cup {None}
  /\ req \in [Request -> ReqState]
  /\ changes \in 0..MaxChanges
  /\ withdrawn \in [Code -> 0..Ttl]

Live == {perm[p].code : p \in {q \in Perm : perm[q].live}}
LiveElsewhere(p) == {perm[q].code : q \in {q \in Perm \ {p} : perm[q].live}}

\* What the inner join of role_permissions with the live permissions yields.
Granted == bindings \cap Live

\* A route that asks for c lets in who holds c, or a code whose white list opens it.
Allows(codes, c) ==
  \/ c \in codes
  \/ \E p \in Perm : perm[p].live /\ perm[p].code \in codes /\ c \in Opens[p]

Init ==
  /\ role = TRUE
  /\ user = [live |-> TRUE, bound |-> TRUE]
  /\ perm \in [Perm -> [code : Code, live : {TRUE}]
                       \cup [code : {None}, live : {FALSE}]]
  /\ \A p, q \in Perm : perm[p].live /\ perm[q].live /\ perm[p].code = perm[q].code => p = q
  /\ bindings = Live
  /\ cache = None
  /\ req = [r \in Request |-> Idle]
  /\ changes = 0
  /\ withdrawn = [c \in Code |-> IF c \in Granted THEN 0 ELSE Ttl]

-----------------------------------------------------------------------------
At(r, pc) == req[r].pc = pc
Become(r, state) == req' = [req EXCEPT ![r] = state]
Goto(r, pc) == Become(r, [req[r] EXCEPT !.pc = pc])
End(r) == Become(r, Idle)
Start(r, state) == req[r].pc \in Free /\ Become(r, state)

(* The guard, PermissionsGuard.canActivate.                                *)

GuardReadsUser(r) ==
  /\ user.live /\ user.bound
  /\ \E c \in Reserved : Start(r, [Idle EXCEPT !.pc = "g.role", !.want = c])
  /\ UNCHANGED <<role, user, perm, bindings, cache>>

GuardReadsRole(r) ==
  /\ At(r, "g.role")
  /\ IF role THEN Goto(r, "g.cache") ELSE End(r)
  /\ UNCHANGED <<role, user, perm, bindings, cache>>

\* Faulty: a hit renews the key.
CacheHitRenews(r) ==
  /\ At(r, "g.cache") /\ cache # None
  /\ Become(r, [req[r] EXCEPT !.pc = "g.decide", !.codes = cache.codes])
  /\ cache' = [cache EXCEPT !.ttl = Ttl]
  /\ UNCHANGED <<role, user, perm, bindings>>

CacheHit(r) ==
  /\ At(r, "g.cache") /\ cache # None
  /\ Become(r, [req[r] EXCEPT !.pc = "g.decide", !.codes = cache.codes])
  /\ UNCHANGED <<role, user, perm, bindings, cache>>

\* No key, or no answer from Redis.
CacheMiss(r) ==
  /\ At(r, "g.cache")
  /\ Goto(r, "g.load")
  /\ UNCHANGED <<role, user, perm, bindings, cache>>

GuardLoads(r) ==
  /\ At(r, "g.load")
  /\ Become(r, [req[r] EXCEPT !.pc = "g.fill", !.codes = Granted])
  /\ UNCHANGED <<role, user, perm, bindings, cache>>

\* Faulty: the key outlives its TTL by one tick.
BackFillLonger(r) ==
  /\ At(r, "g.fill")
  /\ cache' = IF cache = None
              THEN [codes |-> req[r].codes, ttl |-> Ttl + 1, suspect |-> req[r].late]
              ELSE cache
  /\ Goto(r, "g.decide")
  /\ UNCHANGED <<role, user, perm, bindings>>

\* SET NX EX.  Nobody waits for it; that the decision comes after it here
\* changes nothing, the decision does not look at the key any more.
BackFill(r) ==
  /\ At(r, "g.fill")
  /\ IF cache = None
     THEN cache' = [codes |-> req[r].codes, ttl |-> Ttl, suspect |-> req[r].late]
     ELSE UNCHANGED cache
  /\ Goto(r, "g.decide")
  /\ UNCHANGED <<role, user, perm, bindings>>

BackFillFails(r) ==
  /\ At(r, "g.fill")
  /\ Goto(r, "g.decide")
  /\ UNCHANGED <<role, user, perm, bindings, cache>>

GuardDecides(r) ==
  /\ At(r, "g.decide")
  /\ IF Allows(req[r].codes, req[r].want)
     THEN Become(r, [Idle EXCEPT !.pc = "passed", !.want = req[r].want])
     ELSE End(r)
  /\ UNCHANGED <<role, user, perm, bindings, cache>>

-----------------------------------------------------------------------------
(* What every change of a grant ends with: the key is deleted.  `late'     *)
(* notes which guards have read the codes by then and not yet stored them. *)

Overtake(r) ==
  req' = [q \in Request |-> IF q = r THEN Idle
                            ELSE [req[q] EXCEPT !.late = @ \/ At(q, "g.fill")]]

DropCache(r) ==
  /\ At(r, "drop")
  /\ cache' = None
  /\ Overtake(r)
  /\ UNCHANGED <<role, user, perm, bindings>>

\* The catch only logs; a process that dies after the commit is the same.
DropFails(r) ==
  /\ At(r, "drop")
  /\ cache' = IF cache = None THEN None ELSE [cache EXCEPT !.suspect = TRUE]
  /\ Overtake(r)
  /\ UNCHANGED <<role, user, perm, bindings>>

\* COMMIT of a transaction whose DELETE found req[r].rows: the rows that it
\* deletes are gone for every other transaction that found them too.
Commit(r, inserted) ==
  /\ bindings' = (bindings \ req[r].rows) \cup inserted
  /\ req' = [q \in Request |-> IF q = r THEN [Idle EXCEPT !.pc = "drop"]
                               ELSE [req[q] EXCEPT !.rows = @ \ req[r].rows]]

\* Before its commit a request may fail or die; its transaction is rolled back.
Abandon(r) ==
  /\ req[r].pc \notin Free \cup {"drop", "g.role", "g.cache", "g.load", "g.fill", "g.decide"}
  /\ End(r)
  /\ UNCHANGED <<role, user, perm, bindings, cache>>

(* RolePermissionsService.updateRolePermissions                            *)

UpdateReadsRole(r) ==
  /\ role
  /\ \E codes \in SUBSET Code : Start(r, [Idle EXCEPT !.pc = "u.codes", !.codes = codes])
  /\ UNCHANGED <<role, user, perm, bindings, cache>>

UpdateReadsCodes(r) ==
  /\ At(r, "u.codes")
  /\ LET valid == req[r].codes \cap Live
     IN IF req[r].codes # {} /\ valid = {} THEN End(r)
        ELSE Become(r, [req[r] EXCEPT !.pc = "u.delete", !.codes = valid])
  /\ UNCHANGED <<role, user, perm, bindings, cache>>

\* Faulty: no transaction, the DELETE is seen at once.
UpdateDeletesAtOnce(r) ==
  /\ At(r, "u.delete")
  /\ Goto(r, "u.insert")
  /\ bindings' = {}
  /\ UNCHANGED <<role, user, perm, cache>>

UpdateDeletes(r) ==
  /\ At(r, "u.delete")
  /\ Become(r, [req[r] EXCEPT !.pc = "u.insert", !.rows = bindings])
  /\ UNCHANGED <<role, user, perm, bindings, cache>>

\* The primary key (roleId, permission) refuses a row that is there already.
UpdateCommits(r) ==
  /\ At(r, "u.insert")
  /\ IF req[r].codes \cap (bindings \ req[r].rows) # {}
     THEN End(r) /\ UNCHANGED bindings
     ELSE Commit(r, req[r].codes)
  /\ UNCHANGED <<role, user, perm, cache>>

(* RolesService.remove and restore                                         *)

RoleRemoveReads(r) ==
  /\ role
  /\ Start(r, [Idle EXCEPT !.pc = "r.count"])
  /\ UNCHANGED <<role, user, perm, bindings, cache>>

RoleRemoveCounts(r) ==
  /\ At(r, "r.count")
  /\ IF user.live /\ user.bound THEN End(r) ELSE Goto(r, "r.delete")
  /\ UNCHANGED <<role, user, perm, bindings, cache>>

RoleRemoveDeletes(r) ==
  /\ At(r, "r.delete")
  /\ Become(r, [req[r] EXCEPT !.pc = "r.commit", !.rows = bindings])
  /\ UNCHANGED <<role, user, perm, bindings, cache>>

\* Faulty: the key is not deleted.
RoleRemoveCommitsOnly(r) ==
  /\ At(r, "r.commit")
  /\ role' = FALSE /\ bindings' = bindings \ req[r].rows
  /\ End(r)
  /\ UNCHANGED <<user, perm, cache>>

RoleRemoveCommits(r) ==
  /\ At(r, "r.commit")
  /\ role' = FALSE
  /\ Commit(r, {})
  /\ UNCHANGED <<user, perm, cache>>

RoleRestoreReads(r) ==
  /\ ~role
  /\ Start(r, [Idle EXCEPT !.pc = "r.restore"])
  /\ UNCHANGED <<role, user, perm, bindings, cache>>

RoleRestoreCommits(r) ==
  /\ At(r, "r.restore")
  /\ role' = TRUE
  /\ Goto(r, "drop")
  /\ UNCHANGED <<user, perm, bindings, cache>>

-----------------------------------------------------------------------------
(* PermissionsService.create, update, remove and restore                   *)

PermCreateReads(r) ==
  /\ \E p \in Perm, c \in Code \ Live :
       /\ perm[p].code = None
       /\ \A q \in Request : At(q, "p.create") => req[q].perm # p
       /\ Start(r, [Idle EXCEPT !.pc = "p.create", !.perm = p, !.code = c])
  /\ UNCHANGED <<role, user, perm, bindings, cache>>

\* permissions_code_unique is checked by the INSERT; nothing is invalidated.
PermCreateCommits(r) ==
  /\ At(r, "p.create")
  /\ IF req[r].code \in Live THEN UNCHANGED perm
     ELSE perm' = [perm EXCEPT ![req[r].perm] = [code |-> req[r].code, live |-> TRUE]]
  /\ End(r)
  /\ UNCHANGED <<role, user, bindings, cache>>

PermRenameReads(r) ==
  /\ \E p \in Perm, c \in (Code \ Live) \ Reserved :
       /\ perm[p].live /\ perm[p].code \notin Reserved
       /\ Start(r, [Idle EXCEPT !.pc = "p.rename", !.perm = p, !.code = perm[p].code, !.want = c])
  /\ UNCHANGED <<role, user, perm, bindings, cache>>

\* The permission and its bindings in one transaction, or neither: the row
\* may be deleted by now, the new code taken, or already bound to the role.
\* A transaction that deletes by role finds the row under its new code.
PermRenameCommits(r) ==
  LET p == req[r].perm  old == req[r].code  new == req[r].want
      Renamed(rows) == IF old \in rows THEN (rows \ {old}) \cup {new} ELSE rows
  IN /\ At(r, "p.rename")
     /\ IF ~perm[p].live \/ new \in LiveElsewhere(p) \/ {old, new} \subseteq bindings
        THEN End(r) /\ UNCHANGED <<perm, bindings>>
        ELSE /\ perm' = [perm EXCEPT ![p].code = new]
             /\ bindings' = Renamed(bindings)
             /\ req' = [q \in Request |->
                  IF q = r THEN [Idle EXCEPT !.pc = "drop"]
                  ELSE [req[q] EXCEPT !.rows = IF At(q, "p.commit") THEN @ \ {old}
                                               ELSE Renamed(@)]]
     /\ UNCHANGED <<role, user, cache>>

PermRemoveReads(r) ==
  /\ \E p \in Perm :
       /\ perm[p].live
       /\ Start(r, [Idle EXCEPT !.pc = "p.count", !.perm = p, !.code = perm[p].code])
  /\ UNCHANGED <<role, user, perm, bindings, cache>>

\* Bindings of a deleted role do not count.
PermRemoveCounts(r) ==
  /\ At(r, "p.count")
  /\ IF role /\ req[r].code \in bindings THEN End(r) ELSE Goto(r, "p.delete")
  /\ UNCHANGED <<role, user, perm, bindings, cache>>

PermRemoveDeletes(r) ==
  /\ At(r, "p.delete")
  /\ Become(r, [req[r] EXCEPT !.pc = "p.commit", !.rows = bindings \cap {req[r].code}])
  /\ UNCHANGED <<role, user, perm, bindings, cache>>

PermRemoveCommits(r) ==
  /\ At(r, "p.commit")
  /\ perm' = [perm EXCEPT ![req[r].perm].live = FALSE]
  /\ Commit(r, {})
  /\ UNCHANGED <<role, user, cache>>

PermRestoreReads(r) ==
  /\ \E p \in Perm :
       /\ perm[p].code # None /\ ~perm[p].live /\ perm[p].code \notin Live
       /\ Start(r, [Idle EXCEPT !.pc = "p.restore", !.perm = p])
  /\ UNCHANGED <<role, user, perm, bindings, cache>>

PermRestoreCommits(r) ==
  LET p == req[r].perm
  IN /\ At(r, "p.restore")
     /\ IF perm[p].code \in LiveElsewhere(p) THEN End(r) /\ UNCHANGED perm
        ELSE Goto(r, "drop") /\ perm' = [perm EXCEPT ![p].live = TRUE]
     /\ UNCHANGED <<role, user, bindings, cache>>

-----------------------------------------------------------------------------
(* UsersService: what it does with the role                                *)

AssignReadsUser(r) ==
  /\ user.live
  /\ Start(r, [Idle EXCEPT !.pc = IF user.bound THEN "a.commit" ELSE "a.role",
                           !.bind = ~user.bound])
  /\ UNCHANGED <<role, user, perm, bindings, cache>>

AssignReadsRole(r) ==
  /\ At(r, "a.role")
  /\ IF role THEN Goto(r, "a.commit") ELSE End(r)
  /\ UNCHANGED <<role, user, perm, bindings, cache>>

AssignCommits(r) ==
  /\ At(r, "a.commit")
  /\ IF user.live
     THEN user' = [user EXCEPT !.bound = req[r].bind] /\ Goto(r, "drop")
     ELSE End(r) /\ UNCHANGED user
  /\ UNCHANGED <<role, perm, bindings, cache>>

RemoveUser(r) ==
  /\ user.live
  /\ user' = [user EXCEPT !.live = FALSE]
  /\ Start(r, Idle)
  /\ UNCHANGED <<role, perm, bindings, cache>>

RestoreUserReads(r) ==
  /\ ~user.live
  /\ Start(r, [Idle EXCEPT !.pc = IF user.bound THEN "z.role" ELSE "z.commit"])
  /\ UNCHANGED <<role, user, perm, bindings, cache>>

RestoreUserReadsRole(r) ==
  /\ At(r, "z.role")
  /\ IF role THEN Goto(r, "z.commit") ELSE End(r)
  /\ UNCHANGED <<role, user, perm, bindings, cache>>

RestoreUserCommits(r) ==
  /\ At(r, "z.commit")
  /\ user' = [user EXCEPT !.live = TRUE]
  /\ End(r)
  /\ UNCHANGED <<role, perm, bindings, cache>>

-----------------------------------------------------------------------------
GuardStep(r) ==
  \/ GuardReadsUser(r) \/ GuardReadsRole(r) \/ CacheHit(r) \/ CacheMiss(r)
  \/ GuardLoads(r) \/ BackFill(r) \/ BackFillFails(r) \/ GuardDecides(r)

Asks(r) ==
  \/ UpdateReadsRole(r)
  \/ RoleRemoveReads(r) \/ RoleRestoreReads(r)
  \/ PermCreateReads(r) \/ PermRenameReads(r) \/ PermRemoveReads(r) \/ PermRestoreReads(r)
  \/ AssignReadsUser(r) \/ RemoveUser(r) \/ RestoreUserReads(r)

GoesOn(r) ==
  \/ UpdateReadsCodes(r) \/ UpdateDeletes(r) \/ UpdateCommits(r)
  \/ RoleRemoveCounts(r) \/ RoleRemoveDeletes(r) \/ RoleRemoveCommits(r)
  \/ RoleRestoreCommits(r)
  \/ PermCreateCommits(r) \/ PermRenameCommits(r)
  \/ PermRemoveCounts(r) \/ PermRemoveDeletes(r) \/ PermRemoveCommits(r)
  \/ PermRestoreCommits(r)
  \/ AssignReadsRole(r) \/ AssignCommits(r)
  \/ RestoreUserReadsRole(r) \/ RestoreUserCommits(r)
  \/ DropCache(r) \/ DropFails(r) \/ Abandon(r)

RequestStep ==
  /\ \E r \in Request :
       \/ (GuardStep(r) \/ GoesOn(r)) /\ UNCHANGED changes
       \/ Asks(r) /\ changes < MaxChanges /\ changes' = changes + 1
  /\ withdrawn' = [c \in Code |-> IF c \in Granted' THEN 0 ELSE withdrawn[c]]

\* A tick is longer than any request takes.
Tick ==
  /\ \A r \in Request : req[r].pc \in Free
  /\ cache' = IF cache = None \/ cache.ttl = 1 THEN None ELSE [cache EXCEPT !.ttl = @ - 1]
  /\ withdrawn' = [c \in Code |-> IF c \in Granted \/ withdrawn[c] = Ttl THEN withdrawn[c]
                                  ELSE withdrawn[c] + 1]
  /\ UNCHANGED <<role, user, perm, bindings, req, changes>>

Next == RequestStep \/ Tick

Spec == Init /\ [][Next]_vars

-----------------------------------------------------------------------------
\* Whatever happens to invalidations and back-fills, a request that passes the
\* guard passes on a code that the role has, or lost less long ago than a cached
\* set may live: the "<= 300 s" that permissions.guard.ts:128-129 counts on.
\* It takes that a hit does not renew the key and that a fill is never older
\* than its read.  What that code's white list opens is read afresh.
StaleBounded ==
  [][\A r \in Request :
       ~At(r, "passed") /\ At(r, "passed")' =>
         \E c \in Code : Allows({c}, req[r].want) /\ withdrawn[c] < Ttl]_vars

\* The two ways known to the code are the only ones in which the key outlives
\* a withdrawal: a back-fill that comes after the deletion, and a deletion that
\* fails.  Else, once whoever changed the grants is through, the key holds
\* nothing the database does not grant: each change of roles, permissions and
\* bindings deletes it, and does so after its commit.
NoStaleGrant ==
  cache # None /\ ~cache.suspect /\ (\A r \in Request : ~At(r, "drop"))
    => cache.codes \subseteq Granted

\* A binding goes only by the commit of a request that meant it to go: replacing
\* the codes of a role never lets one that is in the old and in the new set
\* vanish, not for a moment, not when the insert is refused, not when two
\* replacements overlap (role-permissions.service.ts:112-124).
LossIsAsked ==
  [][\A c \in bindings \ bindings' : \E r \in Request :
       \/ At(r, "u.insert") /\ c \notin req[r].codes
       \/ At(r, "r.commit")
       \/ (At(r, "p.commit") \/ At(r, "p.rename")) /\ req[r].code = c]_vars

\* What the role entitles to.
Rights == IF role THEN Granted ELSE {}

\* Restoring a role or a permission brings no old grant back to life, as
\* roles.service.ts:195-196 and permissions.service.ts:225-227 say.
RestoreGrantsNothing ==
  [][\A r \in Request :
       (At(r, "r.restore") \/ At(r, "p.restore")) /\ At(r, "drop")'
         => Rights' \subseteq Rights]_vars
=============================================================================
