--------------------------- MODULE ClientRefresh ---------------------------
(***************************************************************************)
(* The web client's side of a session: the tabs of one browser, each with  *)
(* its store and its requests, and what they share: the refresh cookie,    *)
(* localStorage (the persisted store and the result of the last refresh)   *)
(* and the Web Lock that one refresh holds at a time.                      *)
(*                                                                         *)
(* JavaScript runs to completion: one action is what a tab does between    *)
(* two waits for the network, the lock or another tab, continuations of    *)
(* promises included.  A storage event reaches the other tabs later.       *)
(* An access token and the refresh token signed with it are one pair.  Of  *)
(* the server there is what the tabs can tell: each refresh token is taken *)
(* once, and an access token may be refused any time, expired or revoked.  *)
(***************************************************************************)
EXTENDS Integers, Sequences, FiniteSets

CONSTANTS
  Tab, Request,
  Home,       \* Home[r]: the tab whose page sends r
  NoTab,
  MaxUsers,   \* bound on the users who log in
  MaxPairs,   \* bound on the pairs the server signs
  MaxFaults   \* bound on lost replies and on refreshes without the lock; a refused
              \* retry, which leaves the page, may exceed it by one

ASSUME ClientAssumption ==
  /\ Home \in [Request -> Tab]
  /\ IsFiniteSet(Tab) /\ NoTab \notin Tab
  /\ MaxUsers \in Nat /\ MaxPairs \in Nat /\ MaxFaults \in Nat

VARIABLES
  store,      \* store[t]: useAuthStore in tab t; authenticated iff it has a user
  tab,        \* tab[t]: its refresh under way
  req,        \* req[r]: a request to the API
  jar,        \* the refresh cookie
  shared,     \* monoforge-auth-refresh-token
  persisted,  \* auth-storage
  events,     \* events[t]: the storage events tab t has not seen yet
  lock,       \* the tab that holds monoforge-auth-refresh
  server,     \* the pairs signed, and the refresh tokens it accepts
  faults      \* replies lost and refreshes without the lock

vars == <<store, tab, req, jar, shared, persisted, events, lock, server, faults>>

\* Users are numbered in the order in which they first log in.
NoUser == 0
User == 1..MaxUsers
Known(u) == \A v \in 1..u-1 : \E n \in DOMAIN server.owner : server.owner[n] = v

NoPair == 0
Pair == 1..MaxPairs
PairOrNone == Pair \cup {NoPair}

StoreState == [user : User \cup {NoUser}, token : PairOrNone]
Empty == [user |-> NoUser, token |-> NoPair]

TabState ==
  [flight : {"none", "lock", "post", "reply", "again"},  \* inflightRefresh
   pair   : PairOrNone,  \* the cookie it sent; then the pair in the reply
   denied : BOOLEAN,     \* the reply is a 401
   fresh  : BOOLEAN,     \* doneAt >= issuedAt: some tab has refreshed since
   isRefreshing : BOOLEAN,
   leaving : BOOLEAN]    \* POST /logout is under way
Quiet == [flight |-> "none", pair |-> NoPair, denied |-> FALSE, fresh |-> FALSE,
          isRefreshing |-> FALSE, leaving |-> FALSE]

ReqState == [pc : {"idle", "sent", "refreshing", "queued"}, retry : BOOLEAN]
Idle == [pc |-> "idle", retry |-> FALSE]

ServerState ==
  [owner : UNION {[1..n -> User] : n \in 0..MaxPairs},
   refresh : SUBSET Pair,
   spent : SUBSET Pair]  \* history: exchanged for a new pair

TypeOK ==
  /\ store \in [Tab -> StoreState]
  /\ tab \in [Tab -> TabState]
  /\ req \in [Request -> ReqState]
  /\ jar \in PairOrNone /\ shared \in PairOrNone
  /\ persisted \in StoreState
  /\ events \in [Tab -> Seq(User \cup {NoUser})]
  /\ lock \in Tab \cup {NoTab}
  /\ server \in ServerState
  /\ faults \in 0..MaxFaults+1

Auth(t) == store[t].user # NoUser
Busy(t) == tab[t].flight # "none"
Waits(r) == req[r].pc \in {"refreshing", "queued"}

\* A refresh that starts is sure of a pair.
Budget == Len(server.owner) + Cardinality({t \in Tab : Busy(t)}) < MaxPairs

Init ==
  /\ store = [t \in Tab |-> Empty]
  /\ tab = [t \in Tab |-> Quiet]
  /\ req = [r \in Request |-> Idle]
  /\ jar = NoPair /\ shared = NoPair
  /\ persisted = Empty
  /\ events = [t \in Tab |-> <<>>]
  /\ lock = NoTab
  /\ server = [owner |-> <<>>, refresh |-> {}, spent |-> {}]
  /\ faults = 0

-----------------------------------------------------------------------------
\* Every set of the store goes to localStorage; the browser tells the other
\* tabs, but only if the value is another one.
Write(t, s) ==
  /\ store' = [store EXCEPT ![t] = s]
  /\ persisted' = s
  /\ events' = IF persisted = s THEN events
               ELSE [q \in Tab |-> IF q = t THEN events[q] ELSE Append(events[q], s.user)]

ClearUserScopedState(t) == shared' = NoPair /\ Write(t, Empty)

\* The page is loaded anew and reads what localStorage has by then.
Reload(t) ==
  /\ tab' = [tab EXCEPT ![t] = Quiet]
  /\ req' = [r \in Request |-> IF Home[r] = t THEN Idle ELSE req[r]]
  /\ lock' = IF lock = t THEN NoTab ELSE lock

\* A page that goes away, or waits no longer, loses the reply to its refresh.
Asking(t) == tab[t].flight \in {"post", "reply"}
CutOff(t) == faults' = IF Asking(t) /\ faults <= MaxFaults THEN faults + 1 ELSE faults

\* clearUserScopedState and the jump to /login, which is a full page load.
EndSession(t) ==
  /\ shared' = NoPair
  /\ store' = [store EXCEPT ![t] = Empty]
  /\ persisted' = Empty
  /\ events' = [q \in Tab |-> IF q = t THEN <<>>
                              ELSE IF persisted = Empty THEN events[q]
                              ELSE Append(events[q], NoUser)]
  /\ Reload(t)

\* Faulty: two pairs for one request.
SignedTwice(u) ==
  [server EXCEPT !.owner = @ \o <<u, u>>, !.refresh = @ \cup {Len(server.owner) + 2}]

Signed(u) ==
  [server EXCEPT !.owner = Append(@, u), !.refresh = @ \cup {Len(server.owner) + 1}]

Login(t, u) ==
  /\ ~Auth(t) /\ Known(u) /\ Budget
  /\ server' = Signed(u)
  /\ jar' = Len(server'.owner)
  /\ Write(t, [user |-> u, token |-> jar'])
  /\ UNCHANGED <<tab, req, shared, lock, faults>>

\* The server revokes what the user has, unless it refuses the token; whatever
\* it answers, FinishLogout follows.
AskLogout(t) ==
  /\ Auth(t) /\ ~tab[t].leaving
  /\ tab' = [tab EXCEPT ![t].leaving = TRUE]
  /\ \/ LET u == server.owner[store[t].token]
        IN /\ server' = [server EXCEPT !.refresh = {n \in @ : server.owner[n] # u}]
           /\ jar' = NoPair
     \/ UNCHANGED <<server, jar>>
  /\ UNCHANGED <<store, req, shared, persisted, events, lock, faults>>

FinishLogout(t) ==
  /\ tab[t].leaving
  /\ tab' = [tab EXCEPT ![t].leaving = FALSE]
  /\ ClearUserScopedState(t)
  /\ UNCHANGED <<req, jar, lock, server, faults>>

\* Faulty: whoever is logged in elsewhere will do.
StorageEventOfAnyUser(t) ==
  /\ events[t] # <<>>
  /\ LET seen == [events EXCEPT ![t] = Tail(@)]
     IN IF Auth(t) /\ Head(events[t]) = NoUser
        THEN /\ shared' = NoPair
             /\ store' = [store EXCEPT ![t] = Empty]
             /\ persisted' = Empty
             /\ events' = IF persisted = Empty THEN seen
                          ELSE [q \in Tab |-> IF q = t THEN seen[q] ELSE Append(seen[q], NoUser)]
        ELSE /\ events' = seen
             /\ UNCHANGED <<store, shared, persisted>>
  /\ UNCHANGED <<tab, req, jar, lock, server, faults>>

\* bindCrossTabAuthSync: a login of the same user is none of this tab's business.
StorageEvent(t) ==
  /\ events[t] # <<>>
  /\ LET seen == [events EXCEPT ![t] = Tail(@)]
     IN IF Auth(t) /\ Head(events[t]) # store[t].user
        THEN /\ shared' = NoPair
             /\ store' = [store EXCEPT ![t] = Empty]
             /\ persisted' = Empty
             /\ events' = IF persisted = Empty THEN seen
                          ELSE [q \in Tab |-> IF q = t THEN seen[q] ELSE Append(seen[q], NoUser)]
        ELSE /\ events' = seen
             /\ UNCHANGED <<store, shared, persisted>>
  /\ UNCHANGED <<tab, req, jar, lock, server, faults>>

-----------------------------------------------------------------------------
(* Requests and the response interceptor                                   *)

Send(r) ==
  /\ req[r].pc = "idle" /\ Auth(Home[r])
  /\ req' = [req EXCEPT ![r].pc = "sent"]
  /\ UNCHANGED <<store, tab, jar, shared, persisted, events, lock, server, faults>>

\* With data, or with an error that is no 401.
Answered(r) ==
  /\ req[r].pc = "sent"
  /\ req' = [req EXCEPT ![r] = Idle]
  /\ UNCHANGED <<store, tab, jar, shared, persisted, events, lock, server, faults>>

\* The reply is a 401.
Rejected(r) == req[r].pc = "sent"

Started(t) == [tab[t] EXCEPT !.flight = "lock", !.fresh = FALSE]

\* refreshAccessToken: whoever comes while one is under way shares it.
JoinedRefresh(t) == IF Busy(t) THEN tab[t] ELSE Started(t)

StartsRefresh(r) ==
  LET t == Home[r]
  IN /\ Rejected(r) /\ ~req[r].retry /\ ~tab[t].isRefreshing
     /\ Busy(t) \/ Budget
     /\ req' = [req EXCEPT ![r].pc = "refreshing", ![r].retry = TRUE]
     /\ tab' = [tab EXCEPT ![t] = [JoinedRefresh(t) EXCEPT !.isRefreshing = TRUE]]
     /\ UNCHANGED <<store, jar, shared, persisted, events, lock, server, faults>>

Enqueues(r) ==
  /\ Rejected(r) /\ ~req[r].retry /\ tab[Home[r]].isRefreshing
  /\ req' = [req EXCEPT ![r].pc = "queued"]
  /\ UNCHANGED <<store, tab, jar, shared, persisted, events, lock, server, faults>>

\* 15 s in the queue.
QueueTimesOut(r) ==
  /\ req[r].pc = "queued"
  /\ req' = [req EXCEPT ![r] = Idle]
  /\ UNCHANGED <<store, tab, jar, shared, persisted, events, lock, server, faults>>

RetryRejected(r) ==
  /\ Rejected(r) /\ req[r].retry
  /\ EndSession(Home[r])
  /\ CutOff(Home[r])
  /\ UNCHANGED <<jar, server>>

\* The gateway refuses the socket's token; refreshHandler does with the result
\* what the interceptor does.
SocketRefused(t) ==
  /\ Auth(t) /\ ~Busy(t) /\ Budget
  /\ tab' = [tab EXCEPT ![t] = Started(t)]
  /\ UNCHANGED <<store, req, jar, shared, persisted, events, lock, server, faults>>

-----------------------------------------------------------------------------
(* refreshAccessToken                                                      *)

Landed(t) == [Quiet EXCEPT !.leaving = tab[t].leaving]

\* Whoever waits tries again if somebody is still logged in, else gives up.
Resume(t) ==
  req' = [r \in Request |->
            IF Home[r] = t /\ Waits(r)
            THEN IF Auth(t) THEN [pc |-> "sent", retry |-> TRUE] ELSE Idle
            ELSE req[r]]

Adopt(t, n) == Write(t, [store[t] EXCEPT !.token = n])

\* Another tab's result: doRefresh itself puts it into the store.
Reuse(t) ==
  /\ Adopt(t, shared)
  /\ Resume(t)
  /\ tab' = [tab EXCEPT ![t] = Landed(t)]

CanReuse(t) == tab[t].fresh /\ shared # NoPair

\* Faulty: the lock is not waited for.
GetLockAtOnce(t) ==
  /\ tab[t].flight = "lock"
  /\ IF CanReuse(t) THEN Reuse(t) /\ UNCHANGED lock
     ELSE /\ tab' = [tab EXCEPT ![t].flight = "post", ![t].pair = jar]
          /\ lock' = t
          /\ UNCHANGED <<store, persisted, events, req>>
  /\ UNCHANGED <<jar, shared, server, faults>>

\* doRefresh, as the holder of the lock.
GetLock(t) ==
  /\ tab[t].flight = "lock" /\ lock = NoTab
  /\ IF CanReuse(t) THEN Reuse(t) /\ UNCHANGED lock
     ELSE /\ tab' = [tab EXCEPT ![t].flight = "post", ![t].pair = jar]
          /\ lock' = t
          /\ UNCHANGED <<store, persisted, events, req>>
  /\ UNCHANGED <<jar, shared, server, faults>>

\* The browser has no Web Locks, or locks.request itself throws: without the lock.
LockFails(t) ==
  /\ tab[t].flight = "lock" /\ faults < MaxFaults
  /\ faults' = faults + 1
  /\ IF CanReuse(t) THEN Reuse(t)
     ELSE /\ tab' = [tab EXCEPT ![t].flight = "post", ![t].pair = jar]
          /\ UNCHANGED <<store, persisted, events, req>>
  /\ UNCHANGED <<jar, shared, lock, server>>

\* POST /auth/refresh at the server, which takes each refresh token once.
ServerRefresh(t) ==
  LET n == tab[t].pair
  IN /\ tab[t].flight = "post"
     /\ IF n \in server.refresh
        THEN /\ server' = [Signed(server.owner[n]) EXCEPT !.refresh = @ \ {n}, !.spent = @ \cup {n}]
             /\ tab' = [tab EXCEPT ![t].flight = "reply", ![t].pair = Len(server'.owner)]
        ELSE /\ tab' = [tab EXCEPT ![t].flight = "reply", ![t].pair = NoPair, ![t].denied = TRUE]
             /\ UNCHANGED server
     /\ UNCHANGED <<store, req, jar, shared, persisted, events, lock, faults>>

\* Faulty: the lock is never released.
KeepLock(t) == UNCHANGED lock

Unlock(t) == lock' = IF lock = t THEN NoTab ELSE lock

\* Faulty: the token is stored whoever is logged in.
RefreshSucceedsBlindly(t) ==
  LET n == tab[t].pair
  IN /\ tab[t].flight = "reply" /\ ~tab[t].denied
     /\ jar' = n /\ shared' = n
     /\ Adopt(t, n)
     /\ Resume(t)
     /\ tab' = [q \in Tab |-> IF q = t THEN Landed(q)
                              ELSE [tab[q] EXCEPT !.fresh = @ \/ Busy(q)]]
     /\ Unlock(t)
     /\ UNCHANGED <<server, faults>>

RefreshSucceeds(t) ==
  LET n == tab[t].pair
  IN /\ tab[t].flight = "reply" /\ ~tab[t].denied
     /\ jar' = n /\ shared' = n
     /\ IF Auth(t) THEN Adopt(t, n) ELSE UNCHANGED <<store, persisted, events>>
     /\ Resume(t)
     /\ tab' = [q \in Tab |-> IF q = t THEN Landed(q)
                              ELSE [tab[q] EXCEPT !.fresh = @ \/ Busy(q)]]
     /\ Unlock(t)
     /\ UNCHANGED <<server, faults>>

\* The error reaches everyone who waits.
Fail(t) ==
  /\ req' = [r \in Request |-> IF Home[r] = t /\ Waits(r) THEN Idle ELSE req[r]]
  /\ tab' = [tab EXCEPT ![t] = Landed(t)]
  /\ Unlock(t)
  /\ UNCHANGED <<store, shared, persisted, events>>

\* Without the lock another tab may have consumed the cookie: look again in 500 ms.
LookAgain(t) ==
  /\ tab' = [tab EXCEPT ![t].flight = "again"]
  /\ UNCHANGED <<store, req, shared, persisted, events, lock>>

RefreshDenied(t) ==
  /\ tab[t].flight = "reply" /\ tab[t].denied
  /\ IF lock = t THEN EndSession(t) ELSE LookAgain(t)
  /\ UNCHANGED <<jar, server, faults>>

\* 15 s, or no network: the server may have taken the token.
RefreshUnanswered(t) ==
  /\ Asking(t) /\ ~tab[t].denied /\ faults < MaxFaults
  /\ IF lock = t THEN Fail(t) ELSE LookAgain(t)
  /\ CutOff(t)
  /\ UNCHANGED <<jar, server>>

SecondLook(t) ==
  /\ tab[t].flight = "again"
  /\ IF CanReuse(t) THEN Reuse(t) /\ UNCHANGED <<shared, lock>>
     ELSE IF tab[t].denied THEN EndSession(t) ELSE Fail(t)
  /\ UNCHANGED <<jar, server, faults>>

-----------------------------------------------------------------------------
\* The user opens the page, or reloads it; the reply to a refresh is lost.
OpenPage(t) ==
  /\ Asking(t) => faults < MaxFaults
  /\ Reload(t)
  /\ store' = [store EXCEPT ![t] = persisted]
  /\ events' = [events EXCEPT ![t] = <<>>]
  /\ CutOff(t)
  /\ UNCHANGED <<jar, shared, persisted, server>>

RefreshGoesOn(t) ==
  \/ GetLock(t) \/ ServerRefresh(t) \/ RefreshSucceeds(t) \/ RefreshDenied(t) \/ SecondLook(t)

TabStep(t) ==
  \/ \E u \in User : Login(t, u)
  \/ AskLogout(t) \/ FinishLogout(t) \/ StorageEvent(t) \/ OpenPage(t)
  \/ SocketRefused(t) \/ RefreshGoesOn(t) \/ LockFails(t) \/ RefreshUnanswered(t)

RequestStep(r) ==
  \/ Send(r) \/ Answered(r) \/ StartsRefresh(r) \/ Enqueues(r) \/ QueueTimesOut(r)
  \/ RetryRejected(r)

Next == (\E t \in Tab : TabStep(t)) \/ (\E r \in Request : RequestStep(r))

Spec == Init /\ [][Next]_vars

FairSpec == Spec /\ \A t \in Tab : WF_vars(RefreshGoesOn(t))

-----------------------------------------------------------------------------
\* Tabs do not knock each other out: as long as every refresh had the lock and got
\* its reply, no cookie is presented that has been exchanged before (api.ts:47-49).
\* It takes the lock, the cookie read under it, and the reply received before it is
\* released.
NeverReused ==
  faults = 0 =>
    \A t \in Tab : tab[t].flight = "post" => tab[t].pair \notin server.spent

\* Once a tab has seen every storage event it shows nobody but the user who is
\* stored: no idle tab goes on showing the last user's data (auth-cleanup.ts:36-39).
IdleTabsAgree ==
  \A t \in Tab : events[t] = <<>> /\ Auth(t) => store[t].user = persisted.user

\* Every request that waits for a refresh is answered, all of a tab's at once, whatever
\* becomes of the refresh, of the session and of the other tabs, and without the
\* 15 s timer (api.ts:247).
Answers ==
  \A t \in {Home[r] : r \in Request} :
    LET Here == {r \in Request : Home[r] = t}
    IN (\E r \in Here : Waits(r)) ~> (\A r \in Here : ~Waits(r))

\* A refresh that a logout has overtaken writes no token into the cleared store
\* (the M3 rule, api.ts:285-287), with one exception the code has: another tab's
\* result is adopted without asking who is logged in (api.ts:80-84, 121-124).
LateTokenIsShared ==
  [][\A t \in Tab :
       ~Auth(t)' /\ store'[t].token # NoPair =>
         \/ store'[t].token = store[t].token
         \/ store'[t].token = persisted.token
         \/ CanReuse(t) /\ store'[t].token = shared]_vars
=============================================================================
