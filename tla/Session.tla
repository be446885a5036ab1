------------------------------- MODULE Session -------------------------------
(***************************************************************************)
(* The life of the token pairs of one account: how login, refresh, logout, *)
(* password changes and the administrator's edits, each a request made of  *)
(* several database and Redis calls, interleave over the account's row and *)
(* its Redis keys.                                                         *)
(*                                                                         *)
(*   refresh:<uid>:<jti>          refreshKeys    (auth.service.ts)         *)
(*   access:active:<uid>:<jti>    activeKeys     (auth.service.ts)         *)
(*   access:<uid>:<jti>           blacklist      (token-revocation.ts)     *)
(*   logout:at:<uid>              logoutAt       (0: the key is absent)    *)
(*                                                                         *)
(* Every key carries the account's id, so accounts do not interact and one *)
(* is enough.  An access token and the refresh token signed with it are    *)
(* one pair, named by one jti.  Key lifetimes are left out: each revoking  *)
(* key outlives the tokens it revokes (blacklist: the full 15 minutes of   *)
(* an access token; logout:at: one day more than a refresh token), so      *)
(* expiry can only refuse more.                                            *)
(***************************************************************************)
EXTENDS Integers, FiniteSets

CONSTANTS
  Request,        \* requests; each is served once
  Revoker,        \* those that may be logouts, password changes or admin edits
  Jti,            \* token pairs that may ever be signed
  None,           \* no token pair
  RevokerOps,     \* the operations a Revoker may be
  TicksPerSecond, \* clock ticks in the second that a JWT's iat counts
  MaxTime,        \* bound on the clock
  MaxFaults,      \* bound on failing Redis calls and abandoned requests
  LostReplies     \* whether a failing call may have been executed

AllRevokerOps ==
  {"logout", "changePassword", "disable", "enable", "reset", "forceChange",
   "unlock", "setRole", "remove", "restore"}

ASSUME SessionAssumption ==
  /\ Revoker \subseteq Request
  /\ None \notin Jti
  /\ RevokerOps \subseteq AllRevokerOps
  /\ TicksPerSecond \in Nat \ {0}
  /\ MaxTime \in Nat /\ MaxFaults \in Nat /\ LostReplies \in BOOLEAN

VARIABLES
  now,          \* Date.now(), in ticks
  faults,       \* failures so far
  row,          \* the account's row of the users table
  refreshKeys, activeKeys, blacklist, logoutAt,        \* Redis
  issued,       \* pairs that have been signed
  returned,     \* pairs a client has received
  pair,         \* pair[j]: the claims inside pair j, and how it came to be
  req           \* req[r]: the state of request r

redis  == <<refreshKeys, activeKeys, blacklist, logoutAt>>
pairs  == <<issued, returned, pair>>
vars   == <<now, faults, row, redis, pairs, req>>

-----------------------------------------------------------------------------
Row == [deleted : BOOLEAN, status : BOOLEAN, mustChange : BOOLEAN, pw : Nat]

\* pw: version of the password that authorised the pair, through its ancestors.
Pair == [iat : Nat, mustChange : BOOLEAN, pw : Nat, parent : Jti \cup {None}]

SigningPc  == {"sign", "register", "store"}
RefreshPc  == {"early", "peek", "user", "claim", "recheck", "putBack"}
RevokingPc == {"commit", "clock", "stamp", "drop", "scan", "blacklist", "purge"}
OutcomePc  == {"ok", "rejected", "unavailable", "abandoned"}

Pc == {"idle"} \cup SigningPc \cup RefreshPc \cup RevokingPc \cup OutcomePc
Op == {"none", "login", "refresh"} \cup AllRevokerOps

ReqState ==
  [pc      : Pc,
   op      : Op,
   rt      : Jti \cup {None},      \* the refresh token presented
   new     : Jti \cup {None},      \* the pair being signed
   cred    : [mustChange : BOOLEAN, pw : Nat],   \* the row as it was read (or written)
   at      : Nat,                  \* Date.now() taken for logout:at
   scanned : SUBSET Jti,           \* active keys still to be blacklisted
   prior   : SUBSET Jti,           \* history: pairs held by clients at the commit
   retried : BOOLEAN,              \* this step has already failed once
   clean   : BOOLEAN]              \* no step has failed twice, nor a put-back

TypeOK ==
  /\ now \in Nat /\ faults \in Nat /\ logoutAt \in Nat
  /\ row \in Row
  /\ refreshKeys \subseteq Jti /\ activeKeys \subseteq Jti /\ blacklist \subseteq Jti
  /\ issued \subseteq Jti /\ returned \subseteq Jti
  /\ pair \in [Jti -> Pair]
  /\ req \in [Request -> ReqState]

CredOf(mustChange, pw) == [mustChange |-> mustChange, pw |-> pw]

Idle == [pc |-> "idle", op |-> "none", rt |-> None, new |-> None, cred |-> CredOf(FALSE, 0),
         at |-> 0, scanned |-> {}, prior |-> {}, retried |-> FALSE, clean |-> TRUE]

Blank == [iat |-> 0, mustChange |-> FALSE, pw |-> 0, parent |-> None]

\* One session is open, signed in an earlier second.
Init ==
  /\ now = TicksPerSecond /\ faults = 0 /\ logoutAt = 0
  /\ row = [deleted |-> FALSE, status |-> TRUE, mustChange |-> FALSE, pw |-> 1]
  /\ \E j \in Jti :
       /\ refreshKeys = {j} /\ activeKeys = {j} /\ issued = {j} /\ returned = {j}
       /\ pair = [k \in Jti |-> IF k = j THEN [Blank EXCEPT !.pw = 1] ELSE Blank]
  /\ blacklist = {}
  /\ req = [r \in Request |-> Idle]

-----------------------------------------------------------------------------
\* iat counts whole seconds; a token signed in the second of the stamp passes.
Stale(iat, at) == at > 0 /\ iat * TicksPerSecond + (TicksPerSecond - 1) < at

\* AuthGuard: the access token of pair j, on a route open before a forced change.
GuardAccepts(j) ==
  /\ j \in returned
  /\ j \notin blacklist
  /\ ~Stale(pair[j].iat, logoutAt)
  /\ ~row.deleted /\ row.status

\* AuthGuard on every other route.
GuardAcceptsAnyRoute(j) == GuardAccepts(j) /\ ~pair[j].mustChange

\* The checks refresh makes before it claims the token of pair j.
RefreshUsable(j) ==
  /\ j \in returned /\ j \in refreshKeys
  /\ ~Stale(pair[j].iat, logoutAt)
  /\ ~row.deleted /\ row.status /\ ~row.mustChange

At(r, pc) == req[r].pc = pc
Become(r, state) == req' = [req EXCEPT ![r] = state]
Goto(r, pc) == Become(r, [req[r] EXCEPT !.pc = pc])

\* The answer ends the request; which token an unavailable refresh had is remembered.
Finish(r, outcome) ==
  Become(r, [Idle EXCEPT !.pc = outcome,
               !.rt = IF outcome = "unavailable" THEN req[r].rt ELSE None])

Fault == faults < MaxFaults /\ faults' = faults + 1

\* What a failing write may leave behind.
MayBe(old, new) == IF LostReplies THEN {old, new} ELSE {old}

-----------------------------------------------------------------------------
(* login, and the WeChat login: the row is read and the password (or the
   openId) checked against it; what was read is what gets signed.          *)
Login(r) ==
  /\ At(r, "idle") /\ r \notin Revoker
  /\ ~row.deleted /\ row.status
  /\ Become(r, [Idle EXCEPT !.pc = "sign", !.op = "login",
                            !.cred = CredOf(row.mustChange, row.pw)])
  /\ UNCHANGED <<now, faults, row, redis, pairs>>

\* refresh: the cookie holds some token the client once received; its signature is good.
PresentRefreshToken(r, j) ==
  /\ At(r, "idle") /\ r \notin Revoker
  /\ j \in returned
  /\ Become(r, [Idle EXCEPT !.pc = "early", !.op = "refresh", !.rt = j])
  /\ UNCHANGED <<now, faults, row, redis, pairs>>

CheckLogoutAt(r) ==
  /\ At(r, "early")
  /\ IF Stale(pair[req[r].rt].iat, logoutAt) THEN Finish(r, "rejected") ELSE Goto(r, "peek")
  /\ UNCHANGED <<now, faults, row, redis, pairs>>

PeekRefreshKey(r) ==
  /\ At(r, "peek")
  /\ IF req[r].rt \in refreshKeys THEN Goto(r, "user") ELSE Finish(r, "rejected")
  /\ UNCHANGED <<now, faults, row, redis, pairs>>

ReadUser(r) ==
  /\ At(r, "user")
  /\ IF row.deleted \/ ~row.status \/ row.mustChange
     THEN Finish(r, "rejected")
     ELSE Become(r, [req[r] EXCEPT !.pc = "claim",
                       !.cred = CredOf(row.mustChange, pair[req[r].rt].pw)])
  /\ UNCHANGED <<now, faults, row, redis, pairs>>

\* Faulty: what GETDEL returned is not looked at.
ClaimUnchecked(r) ==
  /\ At(r, "claim")
  /\ refreshKeys' = refreshKeys \ {req[r].rt} /\ Goto(r, "sign")
  /\ UNCHANGED <<now, faults, row, activeKeys, blacklist, logoutAt, pairs>>

\* GETDEL: the key is consumed and whether it was there is known in one step.
ClaimRefreshKey(r) ==
  /\ At(r, "claim")
  /\ IF req[r].rt \in refreshKeys
     THEN refreshKeys' = refreshKeys \ {req[r].rt} /\ Goto(r, "sign")
     ELSE refreshKeys' = refreshKeys /\ Finish(r, "rejected")
  /\ UNCHANGED <<now, faults, row, activeKeys, blacklist, logoutAt, pairs>>

\* signAsync: the pair's claims are fixed before any of it reaches Redis.
Sign(r) ==
  /\ At(r, "sign")
  /\ \E j \in Jti \ issued :
       /\ issued' = issued \cup {j}
       /\ pair' = [pair EXCEPT ![j] =
            [iat |-> now \div TicksPerSecond, mustChange |-> req[r].cred.mustChange,
             pw |-> req[r].cred.pw, parent |-> req[r].rt]]
       /\ Become(r, [req[r] EXCEPT !.pc = "register", !.new = j])
  /\ UNCHANGED <<now, faults, row, redis, returned>>

RegisterActive(r) ==
  /\ At(r, "register")
  /\ activeKeys' = activeKeys \cup {req[r].new}
  /\ Goto(r, "store")
  /\ UNCHANGED <<now, faults, row, refreshKeys, blacklist, logoutAt, pairs>>

\* A login answers once the refresh key is stored; a refresh looks at logout:at again.
StoreRefreshKey(r) ==
  /\ At(r, "store")
  /\ refreshKeys' = refreshKeys \cup {req[r].new}
  /\ IF req[r].op = "login"
     THEN returned' = returned \cup {req[r].new} /\ Finish(r, "ok")
     ELSE returned' = returned /\ Goto(r, "recheck")
  /\ UNCHANGED <<now, faults, row, activeKeys, blacklist, logoutAt, issued, pair>>

\* Faulty: logout:at is not read again after signing.
NoRecheck(r) ==
  /\ At(r, "recheck")
  /\ returned' = returned \cup {req[r].new} /\ Finish(r, "ok")
  /\ UNCHANGED <<now, faults, row, redis, issued, pair>>

RecheckLogoutAt(r) ==
  /\ At(r, "recheck")
  /\ IF Stale(pair[req[r].rt].iat, logoutAt)
     THEN returned' = returned /\ Finish(r, "rejected")
     ELSE returned' = returned \cup {req[r].new} /\ Finish(r, "ok")
  /\ UNCHANGED <<now, faults, row, redis, issued, pair>>

\* restoreConsumedRefreshToken: SETNX of the key that this request consumed.
PutBackRefreshKey(r) ==
  /\ At(r, "putBack")
  /\ refreshKeys' = refreshKeys \cup {req[r].rt}
  /\ Finish(r, "unavailable")
  /\ UNCHANGED <<now, faults, row, activeKeys, blacklist, logoutAt, pairs>>

(* A Redis call of a login or a refresh fails.  Redis may have executed it
   before the connection broke, so a write may or may not have happened.    *)
ReadFails(r) ==
  /\ req[r].pc \in {"early", "peek", "recheck"} /\ Fault
  /\ Finish(r, "unavailable")
  /\ UNCHANGED <<now, row, redis, pairs>>

ClaimFails(r) ==
  /\ At(r, "claim") /\ Fault
  /\ refreshKeys' \in MayBe(refreshKeys, refreshKeys \ {req[r].rt})
  /\ Finish(r, "unavailable")
  /\ UNCHANGED <<now, row, activeKeys, blacklist, logoutAt, pairs>>

\* Faulty: the key is put back although a login consumed none.
AlwaysPutBack(r) == Goto(r, "putBack")

AfterSigningFailed(r) ==
  IF req[r].op = "refresh" THEN Goto(r, "putBack") ELSE Finish(r, "unavailable")

RegisterFails(r) ==
  /\ At(r, "register") /\ Fault
  /\ activeKeys' \in MayBe(activeKeys, activeKeys \cup {req[r].new})
  /\ AfterSigningFailed(r)
  /\ UNCHANGED <<now, row, refreshKeys, blacklist, logoutAt, pairs>>

StoreFails(r) ==
  /\ At(r, "store") /\ Fault
  /\ refreshKeys' \in MayBe(refreshKeys, refreshKeys \cup {req[r].new})
  /\ AfterSigningFailed(r)
  /\ UNCHANGED <<now, row, activeKeys, blacklist, logoutAt, pairs>>

\* The put-back failed, which is only logged: the request answers, and is not clean.
AnswerUnrestored(r) ==
  Become(r, [Idle EXCEPT !.pc = "unavailable", !.rt = req[r].rt, !.clean = FALSE])

\* Redis is still out of reach after the failure that asked for the put-back: no new fault.
PutBackFails(r) ==
  /\ At(r, "putBack")
  /\ refreshKeys' \in MayBe(refreshKeys, refreshKeys \cup {req[r].rt})
  /\ AnswerUnrestored(r)
  /\ UNCHANGED <<now, faults, row, activeKeys, blacklist, logoutAt, pairs>>

-----------------------------------------------------------------------------
(* The operations that end sessions.  prior records which pairs clients hold
   when the operation takes effect on the row (a logout: when it begins).   *)
StartLogout(r) ==
  /\ At(r, "idle") /\ r \in Revoker /\ "logout" \in RevokerOps
  /\ \E j \in returned : GuardAccepts(j)
  /\ Become(r, [Idle EXCEPT !.pc = "clock", !.op = "logout", !.prior = returned])
  /\ UNCHANGED <<now, faults, row, redis, pairs>>

\* changePassword reads the row and verifies the old password, then hashes the new one.
StartChangePassword(r) ==
  /\ At(r, "idle") /\ r \in Revoker /\ "changePassword" \in RevokerOps
  /\ \E j \in returned : GuardAccepts(j)
  /\ Become(r, [Idle EXCEPT !.pc = "commit", !.op = "changePassword",
                            !.cred = CredOf(row.mustChange, row.pw)])
  /\ UNCHANGED <<now, faults, row, redis, pairs>>

\* ... and updates the row if it is not deleted, whatever its password is by now.
CommitPassword(r) ==
  /\ At(r, "commit")
  /\ IF row.deleted
     THEN row' = row /\ Finish(r, "rejected")
     ELSE /\ row' = [row EXCEPT !.pw = @ + 1, !.mustChange = FALSE]
          /\ Become(r, [req[r] EXCEPT !.pc = "clock", !.prior = returned,
                                      !.cred = CredOf(FALSE, row.pw + 1)])
  /\ UNCHANGED <<now, faults, redis, pairs>>

\* users.update, users.remove and users.restore by an administrator: the one UPDATE.
AdminEffect(op) ==
  CASE op = "disable"     -> [row EXCEPT !.status = FALSE]
    [] op = "enable"      -> [row EXCEPT !.status = TRUE]
    [] op = "reset"       -> [row EXCEPT !.pw = @ + 1, !.mustChange = TRUE]
    [] op = "forceChange" -> [row EXCEPT !.mustChange = TRUE]
    [] op = "unlock"      -> [row EXCEPT !.mustChange = FALSE]
    [] op = "setRole"     -> row
    [] op = "remove"      -> [row EXCEPT !.deleted = TRUE]
    [] op = "restore"     -> [row EXCEPT !.deleted = FALSE]

\* Where the revocation that follows an edit begins.
AdminRevokes(op) ==
  IF op \in {"disable", "reset", "forceChange", "remove"} THEN "drop"
  ELSE IF op = "setRole" THEN "scan" ELSE "ok"

AdminEdit(r, op) ==
  /\ At(r, "idle") /\ r \in Revoker
  /\ op \in RevokerOps \ {"logout", "changePassword"}
  /\ row.deleted <=> op = "restore"
  /\ row' = AdminEffect(op)
  /\ Become(r, [Idle EXCEPT !.pc = AdminRevokes(op), !.op = op, !.prior = returned,
                            !.cred = CredOf(row'.mustChange, row'.pw)])
  /\ UNCHANGED <<now, faults, redis, pairs>>

TakeStamp(r) ==
  /\ At(r, "clock")
  /\ Become(r, [req[r] EXCEPT !.pc = "stamp", !.at = now])
  /\ UNCHANGED <<now, faults, row, redis, pairs>>

WriteStamp(r) ==
  /\ At(r, "stamp")
  /\ logoutAt' = req[r].at
  /\ Become(r, [req[r] EXCEPT !.pc = "drop", !.retried = FALSE])
  /\ UNCHANGED <<now, faults, row, refreshKeys, activeKeys, blacklist, pairs>>

DropRefreshKeys(r) ==
  /\ At(r, "drop")
  /\ refreshKeys' = {}
  /\ Become(r, [req[r] EXCEPT !.pc = "scan", !.retried = FALSE])
  /\ UNCHANGED <<now, faults, row, activeKeys, blacklist, logoutAt, pairs>>

\* revokeActiveAccessTokens: list the active keys, blacklist each, delete them all.
ScanActive(r) ==
  /\ At(r, "scan")
  /\ Become(r, [req[r] EXCEPT !.pc = IF activeKeys = {} THEN "ok" ELSE "blacklist",
                              !.scanned = activeKeys])
  /\ UNCHANGED <<now, faults, row, redis, pairs>>

\* Faulty: only one of the listed tokens is blacklisted.
BlacklistOne(r) ==
  /\ At(r, "blacklist")
  /\ \E j \in req[r].scanned : blacklist' = blacklist \cup {j} /\ Goto(r, "purge")
  /\ UNCHANGED <<now, faults, row, refreshKeys, activeKeys, logoutAt, pairs>>

Blacklist(r) ==
  /\ At(r, "blacklist")
  /\ \E j \in req[r].scanned :
       /\ blacklist' = blacklist \cup {j}
       /\ Become(r, [req[r] EXCEPT !.scanned = req[r].scanned \ {j},
                      !.pc = IF req[r].scanned = {j} THEN "purge" ELSE "blacklist"])
  /\ UNCHANGED <<now, faults, row, refreshKeys, activeKeys, logoutAt, pairs>>

PurgeActive(r) ==
  /\ At(r, "purge")
  /\ activeKeys' = {}
  /\ Goto(r, "ok")
  /\ UNCHANGED <<now, faults, row, refreshKeys, blacklist, logoutAt, pairs>>

(* retryOnce around each of the three steps: the first failure runs the step
   again from its start, the second is logged and the next step follows.   *)
FirstOf(pc) == IF pc = "stamp" THEN "clock" ELSE IF pc = "drop" THEN "drop" ELSE "scan"
After(pc)   == IF pc = "stamp" THEN "drop" ELSE IF pc = "drop" THEN "scan" ELSE "ok"

StepFails(r) ==
  IF req[r].retried
  THEN Become(r, [req[r] EXCEPT !.pc = After(req[r].pc), !.retried = FALSE,
                                !.clean = FALSE, !.scanned = {}])
  ELSE Become(r, [req[r] EXCEPT !.pc = FirstOf(req[r].pc), !.retried = TRUE,
                                !.scanned = {}])

RevocationFails(r) ==
  /\ req[r].pc \in {"stamp", "drop", "scan", "blacklist", "purge"} /\ Fault
  /\ StepFails(r)
  /\ \/ UNCHANGED redis
     \/ /\ LostReplies
        /\ logoutAt' = IF At(r, "stamp") THEN req[r].at ELSE logoutAt
        /\ refreshKeys' = IF At(r, "drop") THEN {} ELSE refreshKeys
        /\ activeKeys' = IF At(r, "purge") THEN {} ELSE activeKeys
        /\ \/ blacklist' = blacklist
           \/ \E j \in req[r].scanned : blacklist' = blacklist \cup {j}
  /\ UNCHANGED <<now, row, pairs>>

-----------------------------------------------------------------------------
\* A request dies with its process, or a database error ends it.
Abandoned(r) ==
  /\ req[r].pc \notin {"idle"} \cup OutcomePc /\ Fault
  /\ Finish(r, "abandoned")
  /\ UNCHANGED <<now, row, redis, pairs>>

Tick ==
  /\ now < MaxTime
  /\ now' = now + 1
  /\ UNCHANGED <<faults, row, redis, pairs, req>>

\* Nothing is left to serve: the model, not the server, ends here.
AllServed ==
  /\ now = MaxTime /\ \A r \in Request : req[r].pc \in OutcomePc
  /\ UNCHANGED vars

LoginStep(r) ==
  \/ Login(r) \/ Sign(r) \/ RegisterActive(r) \/ StoreRefreshKey(r)
  \/ RegisterFails(r) \/ StoreFails(r)

RefreshStep(r) ==
  \/ \E j \in Jti : PresentRefreshToken(r, j)
  \/ CheckLogoutAt(r) \/ PeekRefreshKey(r) \/ ReadUser(r) \/ ClaimRefreshKey(r)
  \/ RecheckLogoutAt(r) \/ PutBackRefreshKey(r)
  \/ ReadFails(r) \/ ClaimFails(r) \/ PutBackFails(r)

RevokerStep(r) ==
  \/ StartLogout(r) \/ StartChangePassword(r) \/ CommitPassword(r)
  \/ \E op \in AllRevokerOps : AdminEdit(r, op)
  \/ TakeStamp(r) \/ WriteStamp(r) \/ DropRefreshKeys(r)
  \/ ScanActive(r) \/ Blacklist(r) \/ PurgeActive(r) \/ RevocationFails(r)

Next ==
  \/ \E r \in Request : LoginStep(r) \/ RefreshStep(r) \/ RevokerStep(r) \/ Abandoned(r)
  \/ Tick
  \/ AllServed

Spec == Init /\ [][Next]_vars

-----------------------------------------------------------------------------
\* Request r has consumed the refresh key of pair j and has not answered yet.
HoldingPc   == SigningPc \cup {"recheck", "putBack"}
Holds(r, j) == req[r].rt = j /\ req[r].pc \in HoldingPc

\* Pair k was handed to a client in exchange for the refresh token of pair j.
Succeeds(k, j) == k \in returned /\ pair[k].parent = j

Held(j)      == \E r \in Request : Holds(r, j)
Exchanged(j) == \E k \in Jti : Succeeds(k, j)

OneHolder(j)    == \A r1, r2 \in Request : Holds(r1, j) /\ Holds(r2, j) => r1 = r2
OneSuccessor(j) == \A k1, k2 \in Jti : Succeeds(k1, j) /\ Succeeds(k2, j) => k1 = k2
OneOwner(j) ==
  /\ j \in refreshKeys => ~Held(j) /\ ~Exchanged(j)
  /\ Held(j) => ~Exchanged(j)

(* A refresh token is exchanged at most once, and while it is in Redis, in the
   hands of a request or exchanged it is only one of the three: concurrent
   replays, failures after GETDEL and the key put back by SETNX never give
   two clients a successor.  ("only one request gets '1'", auth.service.ts)  *)
SingleRotation ==
  \A j \in Jti : OneHolder(j) /\ OneSuccessor(j) /\ OneOwner(j)

Completed(r, ops) == req[r].op \in ops /\ req[r].pc = "ok" /\ req[r].clean

\* A refresh of pair j failed after consuming its key and put the key back.
PutBack(j) == \E q \in Request : req[q].rt = j /\ req[q].pc = "unavailable"

(* Once a logout or a password change has answered with none of its steps
   failed, neither the guard nor refresh accepts a pair signed in an earlier
   second than its stamp, nor one obtained from a refresh token of an earlier
   second: a refresh that overlaps the three steps cannot carry the session
   across them (the early exit, and the check after signing).  What remains
   is a pair of the stamp's own second whose key a failing refresh put back
   after the keys were dropped.                                              *)
LogoutCutsOff ==
  \A r \in Request : Completed(r, {"logout", "changePassword"}) =>
    \A j \in Jti : GuardAccepts(j) \/ RefreshUsable(j) =>
      /\ ~Stale(pair[j].iat, req[r].at)
      /\ pair[j].parent # None =>
           ~Stale(pair[pair[j].parent].iat, req[r].at) \/ PutBack(j)

(* Every revoking operation that ends without a failed step has revoked all
   the pairs clients held when it took effect: none passes the guard, and
   none refreshes unless a failing refresh put its key back meanwhile.       *)
RevocationComplete ==
  \A r \in Request :
    Completed(r, AllRevokerOps \ {"enable", "unlock", "restore"}) =>
      \A j \in req[r].prior :
        /\ ~GuardAccepts(j)
        /\ RefreshUsable(j) =>
             \/ req[r].op = "setRole"
             \/ PutBack(j)

(* A change of role leaves no access token that carries the old one: of those
   clients held when the row changed, the guard takes none (users.service.ts,
   "revoke the access tokens on a change of role").                         *)
RoleChangeRevokes ==
  \A r \in Request : Completed(r, {"setRole"}) =>
    \A j \in req[r].prior : ~GuardAccepts(j)

(* A new password, set by the user or by an administrator, ends every session
   that an older password opened on the routes the guard closes until the
   password is changed.                                                      *)
PasswordCutsOff ==
  \A r \in Request : Completed(r, {"changePassword", "reset"}) =>
    \A j \in Jti : GuardAcceptsAnyRoute(j) => pair[j].pw >= req[r].cred.pw

(* A refresh that is answered "service unavailable" has not burnt the token
   the client presented, as long as nobody else used or revoked it and the
   put-back, whose failure the code accepts, did not fail.                   *)
UnavailableKeepsToken ==
  \A r \in Request : req[r].pc = "unavailable" /\ req[r].rt # None /\ req[r].clean =>
    req[r].rt \in refreshKeys \/ Held(req[r].rt) \/ Exchanged(req[r].rt)

-----------------------------------------------------------------------------
\* Still between signing and the write of its refresh key, or not yet signed.
Unstored(j) ==
  \/ j \notin issued
  \/ \E r \in Request : req[r].new = j /\ req[r].pc \in {"register", "store"}

TokenStage ==
  [j \in Jti |-> IF j \in refreshKeys THEN "live"
                 ELSE IF Held(j) THEN "claimed"
                 ELSE IF Exchanged(j) THEN "spent"
                 ELSE IF Unstored(j) THEN "unissued" ELSE "void"]

Rotation == INSTANCE RotatingToken WITH token <- TokenStage

\* The requests, their races and their failures implement the rotation promised.
ImplementsRotation == Rotation!TokenSpec
=============================================================================
