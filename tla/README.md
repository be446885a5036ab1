# Formal models of monoforge

monoforge is a NestJS server, a React client and a shared package.  The server
keeps its data in PostgreSQL, its short-lived state (tokens, blacklists, counters,
locks, online sets) in Redis and its files on disk; several instances of it may
run against the same three.  Almost nothing is protected by a lock: operations are
sequences of database, Redis and disk calls, and correctness rests on the order
of those calls, on a few atomic commands (GETDEL, SETNX, Lua scripts, conditional
UPDATEs) and on checks repeated after an await.  That is what these modules model.

## Inventory

Paths are below `src/apps/server/src/` unless they say otherwise.

| Component | State | Operations | What is hard | What makes it correct |
|---|---|---|---|---|
| Token session: `modules/auth`, `modules/users`, `common/utils/token-revocation.ts`, `modules/wechat` | users row; `refresh:`, `access:active:`, `access:`, `logout:at:` keys | login, refresh, logout, changePassword, admin update, remove, restore; the guard reads | requests overlap between any two calls; a call fails having been executed or not; a claimed token is put back | a refresh token has at most one successor; what ended a session has really ended it |
| File storage: `modules/files`, orphan cleaner and purge in `modules/schedule` | files row; `uploads/`, `uploads-trash/` | upload, remove, restore, hourly cleaner, nightly purge | row and content change apart; two volumes; restarts; stale listings | row and content agree; nothing in use is deleted; garbage goes |
| WebSocket presence: `modules/websocket/events.gateway.ts` | `ws:online:<uid>`, socket data, timers | handshake, disconnect, 60 s re-check, announcements | a socket drops at any await of its handshake; several instances; expiry | no ghosts; cap; open sockets reachable; watchers see the truth |
| Access control: `common/guards/permissions.guard.ts`, `modules/roles`, `modules/permissions` | roles, permissions, bindings; `perm:role:<id>` cache | guard, grant, role and permission removal and restore, role assignment | cache filled from a read that was overtaken; counts checked before a delete | no permission outlives its withdrawal by more than the cache's life; no deleted role assigned |
| Backups, their watch, quotas: `modules/schedule`, `common/utils/daily-quota.ts` | `schedule:backup:running`, dump files, heartbeats, `quota:` counters | nightly and manual backup, clean-up, freshness check, consume and roll back | the lock expires and is deleted unconditionally; midnight; instances die; Redis may be down | one dump at a time; the newest are kept; a missing backup is reported; the quota counts what ran |
| Registration: `modules/auth` | code, cooldown, guess counter in Redis; the address's account | sendRegisterCode, registerWithCode, register | a code is taken, put back and sent anew while others use it | a code registers one account |
| Mail: `modules/mail` | `mail:limit:<email>` | sendVerificationCode, sendWelcome, sendRegisterCode | a lock is given back by who no longer has it | one mail to an address at a time |
| Login throttle, WeChat sign-in: `modules/auth`, `modules/wechat` | failure counter, QR states, the openId's row | login, QR code, callback | counted before, cleared after; two callbacks | attempts are bounded; a QR code signs in once |
| Setup and seed: `modules/setup`, `db/seed.ts` | roles, the sequence of their ids, the first administrator | POST /setup, seed | several instances; roll-back gives back rows, not ids | one first administrator |
| Error logs and audit: `modules/error-logs`, `modules/audit`, `db/pending-writes.ts` | records, whitelist and its cache, minute counters | report, record, rules, resolve, removal, shutdown | cache filled from an overtaken read; writes nobody waits for | a withdrawn rule silences nothing beyond the cache's life; evidence survives an orderly stop |
| HTTP rate limiting: `common/storage/redis-throttler.storage.ts` | one counter per key | increment | the block begins at one exact hit | a blocked caller is let in again |
| Web client session: `src/apps/web/src/lib/api.ts` | the refresh promise, the queue, the stored token | 401 interceptor, refresh, logout | many requests meet one 401; tabs; logout overtakes | one refresh at a time; every queued request is answered |
| Web client sockets: `src/apps/web/src/lib/ws.ts`, `hooks/use-websocket.ts` | socket, timer, attempts, refresh under way | connect, kick, lost network, reconnect, unmount | socket.io, the refresh and the client's timer all reconnect | one way back at a time, and always one |
| Web pages: navigation | location, store, cached `/auth/me`, calls under way | guards, layout, login, forced change, setup, logout | guards and effects redirect by different marks | redirects come to an end |
| Web pages: paged lists, role dialog, file preview | cached answers, boxes ticked, object URLs | paging, writes, refetch; open, tick, PUT; click, close | answers come late, for another page, role or image | the list rests on a page with rows; only what was ticked is written (but by a caller who lost `permission:view`); no URL is leaked |
| Notifications, HTTP client, health, routes, validation, middleware, shared schemas | tables or none | single statements, external calls, pure checks | little | - |

Components meet in few places: the guard and the gateway's timer read the token
keys that the session writes; removing a user looks at files; the permission guard
and the gateway read roles and bindings; the scheduler cleans what the file service
leaves; registration hands its code to mail; the client's socket, queue and pages share one
store.  On the server all meetings go through PostgreSQL and Redis; there are no
in-process callbacks between components other than cron.

## Plan

Done: the program's own protocols (`Session` with the abstract `RotatingToken`, `FileVault`,
`Presence`), the permission guard with its cache (`AccessControl`), the browser's side of a
session (`ClientRefresh`), the scheduler (`Backup`, `BackupWatch`, `DailyQuota`), what
surrounds a sign-in (`Registration`, `Mail`, `SignIn`, `Setup`), the evidence (`ErrorLogs`),
rate limiting (`Throttle`), answers with a range (`Transfer`), and of the web client the
socket, navigation, lists, the role dialog and the preview (`ClientSocket`, `Navigation`,
`Listing`, `RoleDialog`, `FilePreview`).

Proved: every invariant and every action property that a passing run checks.  Liveness is
model-checked only.

Left, in this order:

1. The list of online users of the web page against what `Presence` announces.
2. Pure algorithms against reference definitions: route matching, file-type checks,
   masking, truncation of reports.

## Modules

| Module | What it is |
|---|---|
| `RotatingToken` | abstract: what the server promises about refresh tokens |
| `Session` | one account's row, Redis keys and requests; implements `RotatingToken` |
| `Session_proofs` | theorems about `Session`, checked by TLAPS |
| `FileVault` | one file's row, its content in two directories, requests, cleaner, purge |
| `Presence` | one user's sockets, the shared online set, timers, announcements |
| `AccessControl` | one role, its codes and permissions, the guard's cached codes, one user |
| `AccessControl_proofs` | theorems about `AccessControl`, checked by TLAPS |
| `ClientRefresh` | one browser's tabs, their requests and refreshes, and what the tabs share |
| `Backup`, `BackupWatch`, `DailyQuota` | the backup lock and files; the watch over missing backups; one daily quota |
| `Registration`, `Mail`, `SignIn`, `Setup` | one address's code and account; its mails; one login counter and one openId; the first administrator |
| `ErrorLogs` | records, the whitelist with its cache, the drain at shutdown |
| `Throttle`, `Transfer` | one rate limit; one preview or download |
| `ClientSocket`, `Navigation`, `Listing`, `RoleDialog`, `FilePreview` | the web client's socket and pages |
| `MCSession`, `MCFileVault`, `MCAccessControl`, `MCClientRefresh` | the modules with what TLC needs (symmetry, the white lists, whose request is whose) |
| `Files_proofs`, `Presence_proofs`, `Client_proofs` | theorems about `FileVault`; about `Presence`; about `ClientRefresh` |
| `Operations_proofs` | theorems about `Backup`, `DailyQuota` and `ErrorLogs` |
| `Overlaps_proofs` | theorems about the other components of `MCOverlaps`, and about all of them composed |
| `Eventually_proofs` | theorems about the other components of `MCEventually`, and about all of them composed |
| `MCOverlaps` | eleven components whose calls overlap with calls of their own only |
| `MCEventually` | seven components of which something must come in the end |

In a behaviour of `MCOverlaps` and of `MCEventually` one component acts (`acting`, `moving`) and
the others rest.  The components of these two share no state, so their product has
nothing to show beyond its factors; one run checks them all.

### Session

Keys carry the account's id, so one account is enough; `row` is what the operations
look at of its row, the four Redis variables are its keys.  An access token and the
refresh token signed with it are one *pair* with one `jti` (the code uses two random
ids that always travel together).  `req[r]` is one HTTP request: its `pc` names the
next database or Redis call, so each action is the code between two awaits.

* login: `Login` (row and password, or WeChat's openId) -> `Sign` -> `RegisterActive`
  -> `StoreRefreshKey`.
* refresh: `PresentRefreshToken` -> `CheckLogoutAt` -> `PeekRefreshKey` -> `ReadUser` ->
  `ClaimRefreshKey` (GETDEL) -> `Sign` -> `RegisterActive` -> `StoreRefreshKey` ->
  `RecheckLogoutAt`; after a failure between signing and storing `PutBackRefreshKey`.
* logout and changePassword: (`StartChangePassword` -> `CommitPassword`) -> `TakeStamp` ->
  `WriteStamp` -> `DropRefreshKeys` -> `ScanActive` -> `Blacklist`* -> `PurgeActive`,
  each of the three steps retried once and then skipped (`RevocationFails`, `StepFails`).
* users.update, remove, restore: `AdminEdit` is the UPDATE; `AdminRevokes` says which of
  the steps follow.  A disabled, reset, forced or removed account has no stamp written.
* every Redis call may fail, executed or not (`LostReplies`); a request may die at any
  point (`Abandoned`).  `MaxFaults` bounds how often.

`prior` and `clean` in a request's state are history: which pairs clients held when the
operation took effect, and whether no step failed twice and no put-back failed.  A pair remembers the version
of the password (`pw`) and the parent it descends from.

Abstractions: keys do not expire (revoking keys outlive what they revoke, so expiry only
refuses more).  A pattern deletion or scan is one step: SCAN returns every key that
is there throughout, and a key that comes or goes meanwhile behaves as if the scan
were before or after.  The guard's 5 s memory that an account is alive, and its
choice to let requests pass when Redis does not answer, are left out.  The login
throttle and the creation of a WeChat user are in `SignIn`.  A put-back of a refresh
key that fails counts as part of the failure that asked for it: Redis is still away.
It leaves the request not `clean`, so that `UnavailableKeepsToken` can except it.

### FileVault

Files do not interact, so one is enough.  `row` is its row, `disk` says for
`uploads/` and for every trash name how old the content there is by mtime (`fresh`,
`hour`, `month`: what the cleaner and the purge tell apart).  A trash name is chosen by
the removal (milliseconds and file name), so it is named by the request.
`crossVolume` is the disk layout: on one volume `safeMove` is a rename, on two a copy
(new mtime) and an unlink, two steps.

* upload: `StartUpload` (multer has written the content) -> `Validate` -> `InsertRow`, or
  `Discard`.
* remove: `StartRemove` -> `Lock` (conditional UPDATE) -> `Verify` -> `Stow` ->
  `RecheckRemoved` -> `Unstow`.
* restore: `StartRestore` -> `Unlock` -> `Fetch` -> (`Probe` -> `Rollback`) ->
  `ClearTrashPath` -> `RecheckRestored` -> `Restow`.
* `cleanOrphanUploads`: `ListUploads`, `MatchUploads`, `SweepUploads`, `ListTrash`,
  `MatchTrash`, `SweepTrash`; `purgeExpiredTrash`: `PurgeRow`, `PurgeContent`.
* `TimePasses` ages the content and makes the cron jobs due.  It waits until nothing is
  in flight: requests and cleanups are taken to last less than an hour.
* `StepFails` is the catch block of a step, `Restart` the death of the process.

`excuses` is history: why row and content may have parted in a way the code reports
(`reported`), or cannot prevent (`swept`, `restart`).  Copies are taken to be complete
when they are seen; what the cleaner marked in one listing it unlinks in one step.

### Presence

One user: `online` and `ttl` are `ws:online:<uid>`, `sock[s]` the handlers of one
socket: `pc` its handshake, `timer` its 60 s interval, `removal` its disconnect
handler.  `Drop` may happen at any await of the handshake and runs the
disconnect handler's first part.

* handshake: `ConnectSocket` -> `Authenticate` -> `Register` (the Lua script) ->
  `RegisterReplies` -> `Open`, or `AuthRefused`, `RefuseFull`, `CompensateRegister`,
  `AccountRefused`.
* disconnect: `RemoveMember` (SREM and DEL) -> `AnnounceOffline`.
* timer: `SocketTimerFires` -> `Kick` or `Renew`; `Minute` advances time by one period.
* failures: `RegisterFails`, `CompensateFails`, `RemoveFails`, `RenewFails`, `Crash`.

The commands of one process reach Redis in the order they were issued (one ioredis
connection), hence a socket's SREM comes after its SADD; replies are handled later,
in any order.  An announcement reaches the watchers at once.  A handler takes less than
a minute (`Minute` waits for `Calm`).  Joining a room after a disconnect has no
effect in socket.io and is left out, with the presence room and the message budget.

### AccessControl

One role is enough: the cache key, the bindings and the transactions are per role.
`bindings` are the codes of its rows in `role_permissions`, `perm[p]` is a row of
`permissions`, `cache` the key `perm:role:<id>`, `user` says whether an account is live
and has the role.  `req[r]` is a slot that serves one request after another, so two
slots overlap any two requests and the number of guarded requests is not bounded.

* guard: `GuardReadsUser` -> `GuardReadsRole` -> `CacheHit`, or `CacheMiss` -> `GuardLoads` ->
  `BackFill` (SETNX) -> `GuardDecides` (the codes, then the white lists).
* updateRolePermissions: `UpdateReadsRole` -> `UpdateReadsCodes` -> `UpdateDeletes` ->
  `UpdateCommits`; roles: `RoleRemoveReads`, `RoleRemoveCounts`, `RoleRemoveDeletes`,
  `RoleRemoveCommits`, `RoleRestore*`; permissions: `PermCreate*`, `PermRename*`,
  `PermRemove*`, `PermRestore*`; all but the creation end with `DropCache` or `DropFails`.
* users: `Assign*` (give or take the role), `RemoveUser`, `RestoreUser*`.
* `Abandon` is a failure or a crash before the commit.  `Tick` lets one `Ttl`-th of the
  key's life pass; it waits until no request is under way.

READ COMMITTED: `rows` is what a transaction's DELETE saw at its start; of two that
saw the same row, the one that commits first takes it from the other (`Commit`); a
row inserted meanwhile is seen by neither.  The primary key refuses a second row.  A
rename is one step, since other transactions see its two UPDATEs together.

`suspect` and `late` are history: the key was filled after the deletion that should have
covered it, or a deletion failed.  `withdrawn` counts ticks since a code was lost.

Abstractions: callers are superadmins (anyone else is refused more); the superadmin's
short cut in the guard is left out, as are role names and edits of white lists.  A route
asks for one code.

### ClientRefresh

`store[t]` is `useAuthStore` of a tab, `persisted` the copy of it in localStorage, `jar`
the refresh cookie, `shared` the `monoforge-auth-refresh-token` key, `lock` the Web Lock,
`events[t]` the storage events a tab has not handled.  `tab[t].flight` is
`inflightRefresh` with what it waits for, `isRefreshing` the interceptor's flag;
`fresh` is `doneAt >= issuedAt`, which is all that is asked of the two times.
`server` is the server as tabs see it: which refresh tokens it accepts, each once.

* requests: `Send` -> `Answered`, or for a 401 `StartsRefresh` (the first), `Enqueues` (the
  others, `QueueTimesOut` after 15 s), `RetryRejected` (the second 401 ends the session).
* refresh: `GetLock`, or `LockFails` (no Web Locks) -> `ServerRefresh` ->
  `RefreshSucceeds`, `RefreshDenied`, `RefreshUnanswered`; without the lock `SecondLook`
  after 500 ms.  `SocketRefused` is the gateway's refusal, which refreshes as well.
* session: `Login`; `AskLogout` -> `FinishLogout`; `StorageEvent`; `OpenPage`, also a reload.

One action is what JavaScript runs without waiting, so `Resume` settles the interceptor
and its queue in the step in which the refresh ends.  What shares a result reads
the store in that step.  A redirect to the login page is a page load and part
of the step; the page's requests go with it.

Abstractions: a 401 may come at any time, an access token being expired or revoked.
Events of the same millisecond are ordered.  Login is one step.  Left out: the detour
over the change-password page, requests with `skipAuthFlow`, the jump after a 403,
`bootstrapAuth` for stores of old versions, and a localStorage that cannot be used.

### Backup, BackupWatch, DailyQuota

`Backup` is `doBackup` and its clean-up, by several runners (cron or an administrator, any
instance): `TakeLock` (SETNX) or `LockDegraded` (no Redis, no lock) -> `StartDump` ->
`Finish` or `DumpFails` -> `ListBackups` -> `StatBackups` -> `UnlinkBackup`* ->
`Release` (an unconditional DEL).  Files are numbered by the second in which
their dump began.  A dump is killed after 300 s, so the lock's 600 s end (`LockExpires`)
only over a run that waits for the mail server, which nothing limits, or that has died.

`BackupWatch` is the heartbeats and `checkBackupFreshness` of every instance: `ReadDaily` ->
`ReadManual` -> `ClaimAlert` (SETNX per day) -> `RecordAlert`.  Time goes in hours, a day
has `DayHours`; the nightly job runs, fails, or is missed while no instance is up.

`DailyQuota` is `consumeDailyQuota` and its roll-back: `Consume`, the work, `Refund`, and
`Midnight` between any two steps.  `attempt[a]` remembers the day it was charged for.

### Registration, Mail, SignIn, Setup

`Registration` has one address: the code, its cooldown and the counter of guesses in
Redis, the accounts with the address.  `SendCode`; a request goes `Ask` -> `Take` (GETDEL)
-> `PutWrongBack` -> `Count` -> `DropCode`, or `ClearGuesses` -> `Precheck` ->
`InsertUser` -> `PutBack` if that failed.  `served` is history: how often a code has
registered somebody.  `Mail` has the letters to that address: `Post` -> `TakeMailLock` ->
`Deliver` or `DeliverFails` -> `ReleaseMailLock`; `overrun` says that the lock
ran out under one.

`SignIn` has one counter of failed logins and the QR codes: `Enforce` (count and compare)
-> `VerifyWrong` or `VerifyRight` -> `ClearFailures`; `Scan` -> `FindUser` -> `CreateUser`.
What follows, signing and storing tokens, is `Session`.

`Setup` has the transactions of POST /setup and of the seed, which take the same advisory
lock: `Begin` -> `TakeTheLock` -> `PrepareRoles` -> `InsertAdmin`, or a roll-back, which gives
back rows but not numbers drawn from the sequence.  `Seeder` says which starters are seeds.

### ErrorLogs

`entry[e]` is one record on its way: a report of a browser (`LookupHit`, or `LookupMiss` ->
`Fill`), the server's own refusals and internal errors (the cap per minute, or nothing) and
the `Insert` nobody waits for.  Rules come and go (`CreateRule`, `UpdateRule`, `RemoveRule`,
`RestoreRule`, each followed by `Invalidate`).  `StartDrain` -> `EndDrain` -> `Exit` is the
orderly stop; `Killed` the other one.  Whether a report contains a pattern and
whether a counter is over its cap are choices.  `withdrawn` counts the ticks since a
rule was withdrawn; `early` says that an entry was under way when the shutdown began.

### Throttle, Transfer

`Throttle` is the Lua script: `hits` of the window, `left` of its life, `admitted`.
`Transfer` is one preview or download: `FindByIdRaw` -> `StatFile` ->
`SetHeaders` (with `ParseRange`) -> `StreamEnds` or `StreamBreaks`, while a removal or a
restore moves the file.
Contents are numbers of bytes, a header is a form with two numbers.  `AnswersTheRange`
compares with what RFC 9110 means by the header (`Meant`), written without the code's
arithmetic.

### ClientSocket, Navigation, Listing, RoleDialog, FilePreview

`ClientSocket` is `WsClient` with the page that uses it and what socket.io does by
itself: `socket` is the library's state, `timer` and `attempts` the client's own way
back, `refreshing` the refresh a refusal starts, `cooling` its 10 s.  `link`, `refusing`
and `honoured` are the world: network, gateway, token.  Delays are left out.

`Navigation` is one tab: `path` and `phase` (guards, shown, mounted in the layout), the store,
the cached `/auth/me`, the calls under way, `boot` for `bootstrapAuth`.  A call
with its refresh and repetition is one step, since `ClientRefresh` has them in detail.

`Listing` is a paged list with `usePagedFallback`, and `useAllRoles`, which reads page after
page.  Rows are a number; `kept` are the cached answers, `current` and `answer` what is
shown.  Other clients write at any time.

`RoleDialog` is the dialog of a role's permissions: cached codes, a fetch under way, boxes
ticked, one PUT.  `canViewPerms` is what the cached `/auth/me` says of `permission:view`; it
changes under the open page (`CanChanges`) and enables the queries (`Asks`), while what was
fetched or is under way stays.  A list of all permissions that fails to load is one that does
not arrive.  The caller keeps `permission:update`; what the server refuses for the caller's
own permissions is one of the refusals of `ServerPuts`.

`OnlyWhatWasTicked` has one exception, which is a gap in the code.  A caller loses
`permission:view` after the list of permissions was asked for, and opens a role whose
codes are not cached.  The query is disabled (`use-permissions.ts:122`): there is no fetch
and no error, and what refuses the submit (`roles.tsx:315-316`, against an empty set that
overwrites the role's) looks for one of the two.  Without the exception (`~put.viewed`) TLC
finds this in five states.  The server takes an empty set from a super administrator only
(`role-permissions.service.ts:91-93`); once a box has been clicked it takes the set from
whoever holds the permission ticked, and the role loses all others.

`FilePreview` is the overlay of images: clicks whose blobs arrive in any
order, `previewUrlRef`, `previewUrl`, and the object URLs not revoked (`live`).

## Runs

| Run | Configuration | Shows | Distinct states |
|---|---|---|---|
| `session` | `MCSession.cfg` | `TypeOK`, `SingleRotation`, `LogoutCutsOff`, `RevocationComplete`; `Session` implements `RotatingToken` | 838 000 |
| `session_reset` | `MCSessionReset.cfg` | counterexample to `PasswordCutsOff` | - |
| `session_burn` | `MCSessionBurn.cfg` | counterexample to `UnavailableKeepsToken` | - |
| `session_overlap` | `MCSessionOverlap.cfg` | counterexample to `RoleChangeRevokes` | - |
| `filevault` | `MCEventually.cfg` | files: `Recoverable`, `CleanupSpares`, `StraysGo`; watch: `MissingIsReported`; throttle: `BlockEnds`; socket: `OneWayBack`, `SocketComesBack`; presence: `SetEmpties`; navigation: `Settles`; lists: `ListsRest`; types | 182 000 |
| `filevault_loss` | `MCFileVaultLoss.cfg` | counterexample to `ContentKept` | - |
| `access` | `MCAccessControl.cfg` | `TypeOK`, `NoStaleGrant`, `StaleBounded`, `LossIsAsked` | 1 890 000 |
| `access_revived` | `MCAccessRevived.cfg` | counterexample to `RestoreGrantsNothing` | - |
| `client` | `MCClientRefresh.cfg` | `TypeOK`, `NeverReused`, `IdleTabsAgree`, `Answers`, `LateTokenIsShared` | 1 070 000 |
| `overlaps` | `MCOverlaps.cfg` | backup: `Exclusive`, `NewestKept`; quota: `QuotaCovers`; logs: `WithdrawnWithinLife`, `EvidenceKept`; code and mail: `OnceOnly`; setup: `OneFirstAdmin`; sign-in: `LimitsHold`; pages: `OnlyWhatWasTicked`, `OneObjectUrl`; presence: `NoGhosts`, `OpenIsReachable`, `NotShownInVain`; transfer: `AnswersTheRange`; types | 800 000 |
| `presence_missed` | `MCPresenceMissed.cfg` | counterexample to `ShownWhenOpen` | - |
| `forced_change` | `MCForcedChange.cfg` | counterexample to `ForcedChangeEnds` | - |

`overlaps` and `filevault` switch deadlock checking off: their components come to a rest in
which nothing is left to do (every attempt made, every letter posted).

### Bounds

* `session`: two clients' requests are what it takes to race for one token, the third
  is the revoker that overlaps both; three pairs are the one that is open and one per
  client; a second has two ticks so that "same second" and "next second" both occur;
  the clock runs to 4, two seconds past the first signature.  One fault at every
  possible place, its reply lost or not.  A step of a revocation that fails twice needs
  two faults: that is out of this run's reach, and within the proofs'.
* `session_overlap`: two revokers, each of which changes the user's role, beside two clients'
  requests; two pairs, one of them signed while the revokers run; no failures.
* Files in `filevault`: two requests, each an upload, a removal or a restore as the row
  allows, on both layouts; the file is new, in use, in the trash, or in the trash with the
  content left behind.  One failing step or restart.  A failing `fetch` and a failing
  `recheckRemoved` are not injected here: with them a live row may lose its content
  (see below).  Three requests can drift further apart than the
  compensations reach; `PairsRecover` says how far they may overlap.
* Presence: three sockets against a cap of two in `overlaps`, so one is refused; two where
  the set must empty and in the counterexample; a set that lives three periods against
  one fault, the code's five periods scaled down (`Ttl > MaxPresenceFaults + 1` is the
  assumption under which renewals come in time).
* `access`: two requests at a time, any number of guards and three changes: two may
  collide and a third come after.  A reserved permission, which routes name, and a custom
  one, which a white list lets into the same route and which may be renamed between two
  codes.  Either may not exist yet.  Two ticks to a key's life.  Failures are not bounded.
* `access_revived`: the same with four changes.
* `client`: two tabs, one with two requests so that one can queue behind the other, one
  with only its socket, which races the first for lock and cookie.  Two users, so that
  one may follow the other in the same browser.  Three pairs: two logins and a refresh,
  or a login and two refreshes.  One lost reply, missing lock or refused retry.  Random
  walks with three tabs, three users, seven pairs and two faults found nothing more.
* The rest of `overlaps`, with one failing call or crash each: two runs of a backup that
  keeps one file, and three names of files, so that one clean-up may have two to
  delete; three attempts at a quota of
  one, so that two are too many and one of them lies after midnight, on a counter to 4;
  two records, one rule with one pattern, a cache that lives two ticks; two registrations,
  two codes, a limit of two guesses; three letters; three starters, one of them the seed;
  three logins with a limit of two, one of them refused while two
  are under way, and one QR code; two roles and codes with two dialogs, failures or
  changes, by others or of the caller's permission (with three, on `RoleDialog` alone, TLC
  finds nothing either: 770 000 states); three clicks on two images; files of up to three
  bytes with header numbers up to four, one past the end
  and one more.
* The rest of `filevault`: two instances, days of two hours, a backup missing after three
  and its heartbeat gone after five, two faults (one to kill an instance that has
  claimed, one for the other);
  two hits against a window and a block of three ticks; two attempts of the client's own
  and three losses or refusals, enough to use them up and recover; three rows on pages of
  one, with one write of this client under way.  In a list, an answer counts the rows
  there are when it arrives.

### Fairness

Failures, crashes and users are never fair, with the exception named last.

* `FileVault`: a request that has begun goes on, due cron jobs run, time passes; nobody
  has to send a request (`Proceeds` excludes the first step).  Node's event loop runs every
  settled promise, and the scheduler runs cron by the clock.
* `BackupWatch`: a check that has begun goes on (`CheckStep`), an instance is up
  again in time for its next hour and time passes (`HourPasses`, `CronLeavesNothing`):
  compose restarts the server.
* `Throttle`: only time.
* `ClientSocket`: timers fire, a handshake, a refresh and the gateway's recheck come to
  an end (each has a timeout), and what is wrong with the network or the server is put
  right (`WorldHeals`).  Without the last nothing can come back.
* `Presence`: handshakes, disconnect handlers and timer callbacks finish, and time passes;
  nobody has to connect or to leave.
* `Navigation`: guards run, effects run, calls are answered or fail (`Automatic`), because axios
  times out after 15 s and React runs its effects.  `Settles` asks for rest only where the
  user stops acting.
* `Listing`: an answer arrives or fails, effects run, the loop over all roles goes on.
  `ListsRest` asks for rest only where nobody turns pages or writes any more.
* `ClientRefresh`: a refresh goes on (`RefreshGoesOn`), because axios answers
  or times out after 15 s, the browser grants a free Web Lock and settled promises are
  run; there is no fairness for users, for retries or for the 15 s timer of the queue, so
  `Answers` does not rest on them.  One weak fairness per tab is enough, since a tab that
  finds the lock taken waits for a holder that must go on, and locks are granted in
  order of request.
* `MCEventually` states each of these for the component whose turn it is.
* `PatientSpec` of the run `forced_change` makes the user fair, on purpose: whoever
  tries every page and button for ever still does not get out.

`Session`, `AccessControl` and the components of `overlaps` claim no liveness.

### What the counterexamples mean

* `PasswordCutsOff`: login reads the row and verifies the password; an administrator
  resets it, all keys dropped; login signs what it read.  The session of the old password
  passes the guard on every route, since a reset writes no `logout:at` and the flag the
  comment relies on is inside the token.
* `UnavailableKeepsToken`: the key was consumed, the new pair signed and stored, and the last
  GET of refresh fails; nothing puts the key back.  A put-back that fails itself is excepted:
  the code accepts that it is only logged.
* `RoleChangeRevokes`: a change of role lists the active keys, a login registers one more, and
  the change deletes them all by pattern; the new pair is neither blacklisted nor listed
  any longer.  The next change of role finds nothing to revoke, and the access token with
  the role before it passes the guard until it ends.  A logout meets the same: with one
  change of role beside it TLC refutes `LogoutCutsOff` too.
* `ContentKept`: on two volumes, as the compose file mounts them, two moves in opposite
  directions copy past each other and both unlink.
* `ShownWhenOpen`: the socket that was to announce the user drops before it does;
  another one, already registered, announces nothing.
* `RestoreGrantsNothing`: a permission is removed by the code its service read first.  A
  rename that commits in between takes the bindings along; the count finds none, the
  removal deletes none, and restoring the permission grants it again.
* `ForcedChangeEnds`: a user who must change the password and whose access token has ended
  is refused a refresh, without the refresh token being consumed, so the client keeps the
  login.  The change is refused like any call; `/login` leads away while the store has a
  token; every other page leads to `/change-password`.  It lasts until the cookie
  ends after 7 days or somebody clears the browser's storage.

Known from `AccessControl` besides: an update that checked its codes before a permission was
removed leaves a binding behind; a role counted as unused may be given to a user before
it is deleted (the guard refuses that user); two overlapping updates leave the union of
their sets; and stale codes are decided upon with fresh white lists, so a new
permission under a code the role has just lost opens its routes for the rest of
the key's life.

Known from `ClientRefresh`: a result of another tab is put into the store without asking
whether anybody is still logged in (the exception in `LateTokenIsShared`), although
the interceptor's comment rules that out; the interceptor asks whether somebody is logged
in, not who, so a token of the last user may enter the next one's store, as cookie and
key are the browser's; and a tab that gives up because another one switched accounts
writes an empty store, which then logs out the other one in its turn.

Known from `Session` and `FileVault`: a pair signed in the second of the stamp whose key a
failing refresh puts back survives the logout (`PutBack` in `LogoutCutsOff`); the cleaner may take
month-old content from under a restore (`swept`); a user may be removed while an upload
of theirs is being inserted (`users.service.ts:576`).

Known from the other modules, in paths below `src/apps/`:

* `Presence`: a socket that a failed SREM or a crash leaves in the set stays, and counts against
  the cap, as long as another socket of the user is open, since the 300 s are the whole
  set's and every re-check renews them (`events.gateway.ts:344`, against 95: at most 300 s).
* `Registration`: a request that fails late puts its code back over a newer one.
* `Mail`: the lock is deleted unconditionally (`mail.service.ts:82-89`), so a mail that fails
  after 60 s deletes another's lock (`overrun`); and while a test mail's lock lasts, a code
  is refused by the mailer although the page says it was sent.
* `SignIn`: find-or-create of a WeChat user may leave a deleted and a live row.
* `Setup`: a roll-back does not give back numbers of `roles.id`, although `seed.ts:27-28` has it
  that no half state is left: on a fresh database, a setup or seed that failed once the
  roles were inserted makes every later one fail, since the ids no longer match
  `ADMIN_ROLE_ID`.
* `ErrorLogs`: the whitelist branch of `recordInternal` (114-119) is not reached by any
  caller; `batchResolve` of a group whose source is null finds nothing.
* `Transfer`: a file moved between stat and open is answered 200 or 206 with no or a cut body;
  the comment at `files.controller.ts:210` covers only the stat.
* `ClientSocket`, in `ws.ts`: the gateway refuses after `connect`, which sets the attempts to 0
  (92), so that the give-up (184) that 35-37 means for refusals is not reached by them;
  `disconnect` does not wait for the refresh that `error` has begun (102-108, against
  30), since the cooldown is on; and after a missed pong (266) the page is not told that
  it is disconnected, the listeners being gone.
* `Navigation`: a `bootstrapAuth` that fails after the client has been shown
  (`main.tsx:34-49` waits 3 s) clears a login made meanwhile.
* `Listing`: the kept page of `use-paged-fallback.ts` (4-5, 14) counts as an answer, so an old
  empty list turns the page back past one with rows, if that one is not cached; the
  comment in `list-empty.tsx` that an error has no data fails after a failed refetch; an
  answer under way when its page was left resets the mark that a write had made it
  stale, so a deleted row may show for 30 s; `useAllRoles` may skip or repeat a role when rows
  shift between its pages.

## Proofs

The theorems hold for every value of the constants that the assumptions of the modules admit.
TLC evaluates each assumption in the runs that extend its module.  Most say only that limits are
natural numbers and model values differ from one another; those that say more are named
below.  Unless it says otherwise a set of requests, sockets, tabs or records is any set,
and the faults are any number.  Each invariant was a run of TLC before it was proved.

### The session (`Session_proofs`)

* `TypeCorrect`: `TypeOK` alone is not inductive, since a step indexes `pair` or
  `refreshKeys` with the token in the request's hands.  `TypeInv` adds that a request in the
  middle of a refresh has presented a token, and one that is registering or storing has
  signed one (`TokensKnown`).
* `RotationIsSingle`: `SingleRotation`.  The inductive invariant is
  `Inv == TypeInv /\ Ownership`.  `Ownership` says of each token that it is in exactly
  one place: usable in Redis, held by one request, or exchanged; and of a pair being
  registered or stored that only one request works on it, that nobody has seen it and
  that its parent is the token its request holds.  `ClaimRefreshKey` moves a token from
  the first place to the second because GETDEL succeeds once; `RecheckLogoutAt` from the
  second to the third; `PutBackRefreshKey` back to the first.
* `RotationIsImplemented`: `Spec => ImplementsRotation`, the refinement of `RotatingToken`.  By
  `Ownership` a token's stage is a function of where it is (`StageOf`), and a step of
  `Session` moves one token along one of seven arrows (`Moves`), or drops all the live ones.  Tokens
  signed and never stored may fall away beside either; they count as not issued.
* `LogoutEndsSessions` and `RevocationsAreComplete`: `LogoutCutsOff` and `RevocationComplete`, under
  `[]OneRevocation`.  A revoking operation dooms the pairs that clients held when it began and,
  once the stamp is written, those refreshed from a token that is stale by it.  `RevInv` follows
  a doomed pair through the operation: active, listed, blacklisted, its refresh key gone
  unless a failing refresh put it back (`Cuts`); no refresh returns a child of a stale
  token after the stamp, because it rechecks it after signing.  That a doomed pair is still
  active when the listing begins needs that no earlier listing has lost it.
  `OneRevocation` says so: one revoking operation, beside any number of logins, refreshes,
  failures and of edits that revoke nothing.  It is no convenience, the code is wrong
  without it: see `session_overlap`.  The run `session` has one revoker and so meets it.

### Access control (`AccessControl_proofs`)

* `TypeCorrect`.  `TypeInv` adds that a request that renames a permission has a code to give
  it; without it a rename might leave no code behind.
* `StaleIsBounded`: `StaleBounded`.  The invariant is `TypeInv /\ Fresh`:
  a cached code was lost at most as many ticks ago as have gone since the fill
  (`withdrawn[c] + cache.ttl <= Ttl`), a guard about to fill has just read its codes
  (age 0), one about to decide holds codes lost less than `Ttl` ticks ago.  A tick ages
  a lost code and the key by one, so the sum stays; a hit hands the guard a key that
  has at least one tick left.  Nothing is used of invalidations, so the bound holds with
  all of them failing.  It does rest on `Tick`: a fill is less than a tick younger than
  its read.
* `LossesAreAsked`: `LossIsAsked`.  `Books` says what the services know of what they are about
  to write: the rows of a removal are bindings of the code it read, a permission being
  created has no code and one creator, a live one has a code.  So of all commits only those
  that meant a binding to go take it, and creating or restoring takes nothing.
* `StaleIsSuspected`: `NoStaleGrant`, the property `StaleBounded` leaves open.  `Consistent`:
  while no deletion of the cached codes is ahead, codes cached or about to be are granted,
  unless they are suspect, because they were read before a deletion and stored after it, or
  because the deletion failed.

### Files (`Files_proofs`)

* `CleanerSparesFiles`: `CleanupSpares` of `FileVault`, on both layouts and with a restart between
  any two steps.  `VaultInv`: an upload under way has no row and its content is fresh
  (`UploadsAlone`); before the first row there is nothing in the trash (`NothingYet`); a
  request uses its name in the trash once, so that a name that was listed without a row
  does not get one later (`NamesOnce`); what is marked was listed in the directory being
  swept (`MarksListed`) and at that time had no row (`MarksOrphaned`).  Three kinds of step are
  told apart: of a request (`RequestMoves`), of the cleaner and of the purge.
* `PairsRecover`: `Recoverable`, as long as each request overlaps at most one other (`InPairs`);
  `TwoRecover` is its instance for two requests, the run's.  A restart, the cleaner and the purge
  may come between any two steps.  The UPDATE of a removal or restore decides which row the
  request finds, and the moves follow it without a lock, so what has to be known is who
  will still move the content once both UPDATEs are done.  `PairInv`: one removal at most
  moves content, and one restore (`OneEach`).  Under a row in use a removal that still moves has
  been overtaken by its partner's restore, and that one holds the row's trash path
  (`LiveTurns`); under a removed row the removal is the one the row names, and a
  restore past its UPDATE was overtaken by it (`TrashedTurns`).  Hence under a row in use the content is in
  `uploads/`, or a restore is about to fetch it, or the overtaken removal to bring it back
  (`LiveContent`); under a removed row it is in `uploads/`, in the row's place in the trash, or where an
  overtaken restore is about to fetch it (`TrashedContent`).  Between volumes a move copies first, so that
  its content is at both ends for a while (`CopiedBack`, `CopyAt`, and in both of the above).
  All this holds until a loss is reported, taken by the cleaner or due to a restart.
  The two failures it leaves out are no convenience.  When the move of a restore throws
  (`fetch`) and a removal takes the row before the restore's roll-back, that removal gives the row
  a new path, finds nothing in `uploads/` to move, and the content stays at the path the row had
  before.  When the SELECT after a removal's move throws (`recheckRemoved`) under a row that was restored
  meanwhile, nobody brings the content back; between volumes it may even be gone, as in
  `filevault_loss`.  With a third request it is false, also when that begins only after one of the
  two has ended: the compensations look one removal back.

### Presence (`Presence_proofs`)

`PresenceInv` has four parts.  `Sound`: what is known of a socket at each await of its
handlers.  `SetBounded`: the set is finite and no larger than the cap, which rests on the
script that counts and adds in one call.  `Leased`: a registered socket is in the set, and no more of
the set's life has gone than one period per failure and one for the renewal that is due.
`Unfailing`: without failures there are no ghosts, and whoever empties the set says so.
`PresenceTypeCorrect`, `NoGhostsWithoutFailures`, `OpenSocketsAreReachable` and `ShownForAReason`
follow.  `PresenceAssumption` has `Ttl > MaxPresenceFaults + 1`: the code's key lives five
periods, so that the theorem is about up to three failures; with more of them the key
ends under a socket that is open.

### Scheduler and evidence (`Operations_proofs`)

* `DumpsAreExclusive`, `NewestAreKept`: whoever holds the backup lock and has not lost it is named
  by it (`LockOwned`); a run that has been alone sees the dumps that nobody else changes
  (`AloneInv`), so what it has listed are all of them and what it deletes is not among
  the newest.  The lemmas on sequences without repetition serve the list by mtime.
* `QuotaIsCovered`: only a request that is not charged begins, one that ends was charged once,
  and the counter's own cap, which bounds the model, lies above the limit.
* `WithdrawalsTakeEffect`, `EvidenceIsKept`: cached patterns obey the sum of `Fresh` above
  (`CacheIsYoung`); the server's own records take neither the whitelist nor a cap, and those
  under way when a shutdown begins are among the ones it waits for (`Awaited`).

### The web client (`Client_proofs`)

* `ClientTypeCorrect`: whoever may still be given a pair was counted when it started, so that
  signed pairs stay within their bound (`PairsInv`, the reason for `IsFiniteSet(Tab)`).
* `IdleTabsShowTheUser`: a tab that shows another user than the one stored has an event to see
  that is not about its own user, whatever comes before it (`Agree`).
* `CookiesAreNeverReused`: as long as nothing failed, only the lock's holder is asking, what is
  posted has not been exchanged, and the cookie has been only while the reply with the
  next one is on its way (`AloneInv`).
* `LateTokensAreShared`: an action property; of the steps that write a token only `Reuse` does not
  ask who is logged in.

### The components that overlap (`Overlaps_proofs`)

* `CodesServeOnce`, `MailsGoOneByOne`, `LimitsAlwaysHold`, `OneAdministrator`: a code is in one place
  (`OnePlace`); whoever has the address's lock is alone (`AloneUnderLock`); wrong passwords
  and those under way are no more than the counter and than the limit (`Throttled`); one
  transaction at a time under the advisory lock, which has seen no administrator
  (`Decided`).
* `OnlyTickedIsSent`: what the cache, a fetch and the boxes start from is a set this very role has
  had (`FetchRead`, `CacheHeld`, `Ready`), and boxes that are not ready belong to a fetch
  under way or failed, or to a caller who may not see permissions, and then hold nothing but
  what was clicked (`Waiting`).
* `PreviewsDoNotLeak`: `OneObjectUrl`, inductive with the types.
* `RangesAreAnswered`: `AnswersTheRange`, for files and headers of every size.  `ParseRangeMeans`
  compares `ParseRange` with the bytes a header means, in each of its forms.
* `NothingTwice`, `OverlapsTypeCorrect`: `OnceOnly` and `OverlapsTypeOK` of the composition.  A
  behaviour of `OverlapsSpec` is one of each component's specification (`CodeRests`,
  `MailRests` and so on), since the others leave its variables alone.  `SetupTypes` needs that
  numbers up to `MaxRoleId` hold the two fixed ids and a third, which `SetupAssumption` says.

### The components of which something must come (`Eventually_proofs`)

* `OneWayBackAlways`: inductive with the types.
* `BlocksAreFinite`: what was let through is no more than the counter and than the limit
  (`ThrottleInv`); beyond the limit the script leaves the key's life as it is.  This is the safety half of
  `BlockEnds`.
* `AlertsOnceADay`: of the instances about to record the same alert there is one, it has claimed
  the key, and nothing is recorded of it today (`OneRecorder`).  Midnight takes the claims away
  while no check is under way.
* `DropDownIsBounded`: the loop goes on from a page only if that had rows, and if fewer are
  gathered than some total, so it has as many rows as pages behind it (`LoopIsShort`).  TLC
  reaches the bound.  The cap on `loop.page` in `LoopGoesOn` is never reached, so that it
  hides no loop that does not end.
* `EventuallyTypeCorrect`: `EventuallyTypeOK`, from these invariants, those of `FileVault` and
  `Presence`, and the types of `Navigation` (`NavStep`), in the same way as above.

### Only model-checked

* The liveness properties (`StraysGo`, `MissingIsReported`, `BlockEnds`, `SocketComesBack`,
  `SetEmpties`, `Settles`, `ListsRest`, `Answers`): fairness speaks of ENABLED, which is out of
  the prover's reach.

## Not modelled

* Notifications: each operation is one statement on rows of their own, guarded by the owner's
  id in its WHERE; two of them that overlap leave what either order leaves.
* HTTP client, health, routes: calls to others and answers to them, with a timeout and no state.
* Validation, middleware, decorators, shared schemas and constants: pure functions of one
  request.  Reference definitions for the few with arithmetic or matching (white list
  patterns, file types, masking, truncation of reports) are in the plan.
* Configuration (`config/env.ts`): read and checked once before anything runs.
* Forms of the web pages (users, permissions, profile, setup): local state of one form, sent
  as one call whose server side is modelled.  What lists, dialogs and navigation share
  is in `Listing`, `RoleDialog` and `Navigation`.
* The list of online users of a page: its baseline may be fetched before an update and
  arrive after it, and an update before the baseline is dropped
  (`hooks/use-websocket.ts:94`).  There is no order to state a property by; it is listed
  among the hazards.
* Offline browsers: the query cache pauses its calls and goes on later.
