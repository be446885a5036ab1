--------------------------- MODULE Client_proofs ----------------------------
(***************************************************************************)
(* What the refresh of the web client promises, for any number of tabs and *)
(* requests.                                                               *)
(***************************************************************************)
EXTENDS ClientRefresh, FiniteSetTheorems, SequenceTheorems, TLAPS

-----------------------------------------------------------------------------
(* The refresh: types.  The pairs the server signs stay within the bound because
   whoever may still be given one has been counted when it started.            *)
Issued == Len(server.owner)
Pending == {t \in Tab : tab[t].flight \in {"lock", "post"}}

PairsInv ==
  /\ TypeOK
  /\ server.owner \in Seq(User)
  /\ server.refresh \subseteq 1..Issued /\ server.spent \subseteq 1..Issued
  /\ Issued + Cardinality(Pending) <= MaxPairs

\* TypeOK, variable by variable; of the server, what PairsInv adds to its type.
StoresTyped ==
  /\ store \in [Tab -> StoreState] /\ persisted \in StoreState
  /\ events \in [Tab -> Seq(User \cup {NoUser})]
CookiesTyped == jar \in PairOrNone /\ shared \in PairOrNone
ServerTyped ==
  /\ server = [owner |-> server.owner, refresh |-> server.refresh, spent |-> server.spent]
  /\ server.owner \in Seq(User)
  /\ server.refresh \subseteq 1..Issued /\ server.spent \subseteq 1..Issued
  /\ Issued + Cardinality(Pending) <= MaxPairs
AllTyped ==
  /\ StoresTyped /\ CookiesTyped /\ ServerTyped
  /\ tab \in [Tab -> TabState] /\ req \in [Request -> ReqState]
  /\ lock \in Tab \cup {NoTab} /\ faults \in 0..MaxFaults + 1

LEMMA PendingFinite == IsFiniteSet(Pending) /\ Cardinality(Pending) \in Nat
  BY ClientAssumption, FS_Subset, FS_CardinalityType DEF Pending

LEMMA OwnersAre ==
  ASSUME NEW owner \in Seq(User), Len(owner) <= MaxPairs
  PROVE  owner \in UNION {[1..n -> User] : n \in 0..MaxPairs}
  <1>1. Len(owner) \in 0..MaxPairs /\ owner \in [1..Len(owner) -> User]
    BY ClientAssumption, LenProperties
  <1>2. QED
    BY <1>1

LEMMA TypedIs == AllTyped <=> PairsInv
  <1>1. ASSUME AllTyped PROVE PairsInv
    <2>1. Issued \in Nat /\ Issued <= MaxPairs
      BY <1>1, PendingFinite, ClientAssumption DEF AllTyped, ServerTyped, Issued
    <2>2. server.owner \in UNION {[1..n -> User] : n \in 0..MaxPairs}
      BY <1>1, <2>1, OwnersAre DEF AllTyped, ServerTyped, Issued
    <2>3. server.refresh \in SUBSET Pair /\ server.spent \in SUBSET Pair
      BY <1>1, <2>1, ClientAssumption DEF AllTyped, ServerTyped, Pair
    <2>4. server \in ServerState
      BY <1>1, <2>2, <2>3 DEF AllTyped, ServerTyped, ServerState
    <2>5. QED
      BY <1>1, <2>4 DEF AllTyped, StoresTyped, CookiesTyped, ServerTyped, PairsInv, TypeOK
  <1>2. ASSUME PairsInv PROVE AllTyped
    <2>1. server = [owner |-> server.owner, refresh |-> server.refresh, spent |-> server.spent]
      BY <1>2 DEF PairsInv, TypeOK, ServerState
    <2>2. QED
      BY <1>2, <2>1 DEF AllTyped, StoresTyped, CookiesTyped, ServerTyped, PairsInv, TypeOK
  <1>3. QED
    BY <1>1, <1>2

LEMMA TypedInit == Init => AllTyped
  <1> SUFFICES ASSUME Init PROVE AllTyped
    OBVIOUS
  <1>1. Empty \in StoreState /\ Quiet \in TabState /\ Idle \in ReqState /\ NoPair \in PairOrNone
    BY DEF Empty, StoreState, Quiet, TabState, Idle, ReqState, PairOrNone
  <1>2. << >> \in Seq(User) /\ << >> \in Seq(User \cup {NoUser}) /\ Len(<< >>) = 0
    OBVIOUS
  <1>3. Pending = {}
    BY DEF Init, Pending, Quiet
  <1>4. Issued = 0 /\ Issued + Cardinality(Pending) <= MaxPairs
    BY <1>2, <1>3, ClientAssumption, FS_EmptySet DEF Init, Issued
  <1>5. StoresTyped
    BY <1>1, <1>2 DEF Init, StoresTyped
  <1>6. server.owner = << >> /\ server.refresh = {} /\ server.spent = {}
    BY DEF Init
  <1>7. ServerTyped
    BY <1>2, <1>4, <1>6 DEF Init, ServerTyped
  <1>8. 0 \in 0..MaxFaults + 1
    BY ClientAssumption
  <1>9. QED
    BY <1>1, <1>5, <1>7, <1>8 DEF Init, AllTyped, CookiesTyped

\* What the steps are made of.
LEMMA WriteTypes ==
  ASSUME StoresTyped, NEW t \in Tab, NEW s \in StoreState, Write(t, s)
  PROVE  StoresTyped'
  <1>1. s.user \in User \cup {NoUser}
    BY DEF StoreState
  <1>2. \A q \in Tab : events[q] \in Seq(User \cup {NoUser})
    BY DEF StoresTyped
  <1>3. \A q \in Tab : Append(events[q], s.user) \in Seq(User \cup {NoUser})
    BY <1>1, <1>2, AppendProperties
  <1>4. events' \in [Tab -> Seq(User \cup {NoUser})]
    BY <1>2, <1>3 DEF Write, StoresTyped
  <1>5. store' \in [Tab -> StoreState] /\ persisted' \in StoreState
    BY DEF Write, StoresTyped
  <1>6. QED
    BY <1>4, <1>5 DEF StoresTyped

LEMMA EndTypes ==
  ASSUME StoresTyped, NEW t \in Tab, EndSession(t)
  PROVE  StoresTyped'
  <1>1. Empty \in StoreState /\ NoUser \in User \cup {NoUser} /\ << >> \in Seq(User \cup {NoUser})
    BY DEF Empty, StoreState, PairOrNone
  <1>2. \A q \in Tab : events[q] \in Seq(User \cup {NoUser})
    BY DEF StoresTyped
  <1>3. \A q \in Tab : Append(events[q], NoUser) \in Seq(User \cup {NoUser})
    BY <1>1, <1>2, AppendProperties
  <1>4. events' \in [Tab -> Seq(User \cup {NoUser})]
    BY <1>1, <1>2, <1>3 DEF EndSession
  <1>5. store' \in [Tab -> StoreState] /\ persisted' \in StoreState
    BY <1>1 DEF EndSession, StoresTyped
  <1>6. QED
    BY <1>4, <1>5 DEF StoresTyped

\* The server signs nothing and nobody starts a refresh.
LEMMA NothingSigned ==
  ASSUME ServerTyped, UNCHANGED server, Pending' \subseteq Pending
  PROVE  ServerTyped'
  <1>1. Cardinality(Pending') \in Nat /\ Cardinality(Pending') <= Cardinality(Pending)
    BY PendingFinite, FS_Subset, FS_CardinalityType
  <1>2. Issued' = Issued /\ Issued \in Nat
    BY LenProperties DEF Issued, ServerTyped
  <1>3. Issued' + Cardinality(Pending') <= MaxPairs
    BY <1>1, <1>2, PendingFinite, ClientAssumption DEF ServerTyped
  <1>4. QED
    BY <1>2, <1>3 DEF ServerTyped

\* One tab changes.
LEMMA TabChanges ==
  ASSUME tab \in [Tab -> TabState], NEW t \in Tab, NEW v \in TabState, tab' = [tab EXCEPT ![t] = v]
  PROVE  /\ tab' \in [Tab -> TabState]
         /\ \A q \in Tab : tab'[q] = IF q = t THEN v ELSE tab[q]
         /\ v.flight \notin {"lock", "post"} \/ tab[t].flight \in {"lock", "post"} => Pending' \subseteq Pending
  <1>1. \A q \in Tab : tab'[q] = IF q = t THEN v ELSE tab[q]
    OBVIOUS
  <1>2. v.flight \notin {"lock", "post"} \/ tab[t].flight \in {"lock", "post"} => Pending' \subseteq Pending
    BY <1>1 DEF Pending
  <1>3. QED
    BY <1>1, <1>2

LEMMA SamePending ==
  ASSUME UNCHANGED tab
  PROVE  Pending' = Pending
  BY DEF Pending

\* Somebody starts a refresh while there is a budget for it.
LEMMA OneStarts ==
  ASSUME ServerTyped, UNCHANGED server, NEW t \in Tab, Pending' \subseteq Pending \cup {t},
         Budget
  PROVE  ServerTyped'
  <1> DEFINE B == {q \in Tab : Busy(q)}
  <1>1. IsFiniteSet(B) /\ Cardinality(B) \in Nat /\ Pending \in SUBSET B
    BY ClientAssumption, FS_Subset, FS_CardinalityType DEF Pending, Busy
  <1>2. Cardinality(Pending) <= Cardinality(B)
    BY <1>1, FS_Subset
  <1>3. IsFiniteSet(Pending \cup {t}) /\ Cardinality(Pending \cup {t}) \in Nat
        /\ Cardinality(Pending \cup {t}) <= Cardinality(Pending) + 1
    BY PendingFinite, FS_AddElement, FS_CardinalityType
  <1>4. Cardinality(Pending') \in Nat /\ Cardinality(Pending') <= Cardinality(Pending \cup {t})
    BY <1>3, FS_Subset, FS_CardinalityType
  <1>5. Issued + Cardinality(B) < MaxPairs
    BY DEF Budget, Issued
  <1> HIDE DEF B
  <1>6. Issued' = Issued /\ Issued \in Nat
    BY LenProperties DEF Issued, ServerTyped
  <1>7. Issued' + Cardinality(Pending') <= MaxPairs
    BY <1>1, <1>2, <1>3, <1>4, <1>5, <1>6, PendingFinite, ClientAssumption
  <1>8. QED
    BY <1>6, <1>7 DEF ServerTyped

\* The server signs a pair.
LEMMA PairSigned ==
  ASSUME ServerTyped, NEW u \in User, NEW refresh, NEW spent,
         server' = [owner |-> Append(server.owner, u), refresh |-> refresh, spent |-> spent],
         refresh \subseteq server.refresh \cup {Issued + 1}, spent \subseteq 1..Issued,
         Issued + 1 + Cardinality(Pending') <= MaxPairs
  PROVE  ServerTyped' /\ Issued' = Issued + 1
  <1>1. /\ server'.owner = Append(server.owner, u) /\ server'.refresh = refresh
        /\ server'.spent = spent
    OBVIOUS
  <1>2. server'.owner \in Seq(User) /\ Issued' = Issued + 1 /\ Issued \in Nat
    BY <1>1, AppendProperties, LenProperties DEF ServerTyped, Issued
  <1>3. server'.refresh \subseteq 1..Issued' /\ server'.spent \subseteq 1..Issued'
    BY <1>1, <1>2 DEF ServerTyped
  <1>4. server' = [owner |-> server'.owner, refresh |-> server'.refresh, spent |-> server'.spent]
    OBVIOUS
  <1>5. QED
    BY <1>2, <1>3, <1>4 DEF ServerTyped

\* The page is loaded anew: its refresh, its requests and its lock go.
LEMMA ReloadTypes ==
  ASSUME AllTyped, NEW t \in Tab, Reload(t), UNCHANGED server
  PROVE  /\ tab' \in [Tab -> TabState] /\ req' \in [Request -> ReqState] /\ lock' \in Tab \cup {NoTab}
         /\ ServerTyped'
  <1>1. Quiet \in TabState /\ Quiet.flight = "none" /\ Idle \in ReqState
    BY DEF Quiet, TabState, PairOrNone, Idle, ReqState
  <1>2. tab' = [tab EXCEPT ![t] = Quiet] /\ tab \in [Tab -> TabState]
    BY DEF Reload, AllTyped
  <1>3. tab' \in [Tab -> TabState] /\ Pending' \subseteq Pending
    BY <1>1, <1>2, TabChanges
  <1>4. req' \in [Request -> ReqState] /\ lock' \in Tab \cup {NoTab}
    BY <1>1 DEF Reload, AllTyped
  <1>5. QED
    BY <1>3, <1>4, NothingSigned DEF AllTyped

\* A refresh lands: whoever waits goes on, and the tab is as it was before it.
LEMMA LandingTypes ==
  ASSUME AllTyped, NEW t \in Tab
  PROVE  /\ Landed(t) \in TabState /\ Landed(t).flight = "none"
         /\ Resume(t) => req' \in [Request -> ReqState]
         /\ Unlock(t) => lock' \in Tab \cup {NoTab}
  <1>1. tab[t].leaving \in BOOLEAN
    BY DEF AllTyped, TabState
  <1>2. Landed(t) \in TabState /\ Landed(t).flight = "none"
    BY <1>1 DEF Landed, Quiet, TabState, PairOrNone
  <1>3. Idle \in ReqState /\ [pc |-> "sent", retry |-> TRUE] \in ReqState
    BY DEF Idle, ReqState
  <1>4. Resume(t) => req' \in [Request -> ReqState]
    BY <1>3 DEF Resume, AllTyped
  <1>5. Unlock(t) => lock' \in Tab \cup {NoTab}
    BY DEF Unlock, AllTyped
  <1>6. QED
    BY <1>2, <1>4, <1>5

LEMMA CutOffTypes ==
  ASSUME faults \in 0..MaxFaults + 1, NEW t \in Tab, CutOff(t)
  PROVE  faults' \in 0..MaxFaults + 1
  BY ClientAssumption DEF CutOff

\* Only requests change.
LEMMA RequestsMove ==
  ASSUME AllTyped, UNCHANGED <<store, tab, jar, shared, persisted, events, lock, server, faults>>,
         req' \in [Request -> ReqState]
  PROVE  AllTyped'
  <1>1. StoresTyped' /\ CookiesTyped'
    BY DEF AllTyped, StoresTyped, CookiesTyped
  <1>2. ServerTyped'
    BY NothingSigned, SamePending DEF AllTyped
  <1>3. QED
    BY <1>1, <1>2 DEF AllTyped

LEMMA ReuseTypes ==
  ASSUME AllTyped, NEW t \in Tab, Reuse(t), UNCHANGED server
  PROVE  /\ StoresTyped' /\ ServerTyped'
         /\ tab' \in [Tab -> TabState] /\ req' \in [Request -> ReqState]
  <1>1. [store[t] EXCEPT !.token = shared] \in StoreState
    BY DEF AllTyped, StoresTyped, CookiesTyped, StoreState
  <1>2. StoresTyped'
    BY <1>1, WriteTypes DEF Reuse, Adopt, AllTyped
  <1>3. tab' = [tab EXCEPT ![t] = Landed(t)] /\ tab \in [Tab -> TabState]
    BY DEF Reuse, AllTyped
  <1>4. tab' \in [Tab -> TabState] /\ Pending' \subseteq Pending
    BY <1>3, LandingTypes, TabChanges
  <1>5. QED
    BY <1>2, <1>4, LandingTypes, NothingSigned DEF Reuse, AllTyped

\* A tab takes the cookie to send it.
LEMMA PostTypes ==
  ASSUME AllTyped, NEW t \in Tab, tab[t].flight = "lock", UNCHANGED server,
         tab' = [tab EXCEPT ![t].flight = "post", ![t].pair = jar]
  PROVE  /\ ServerTyped' /\ tab' \in [Tab -> TabState]
  <1> DEFINE v == [tab[t] EXCEPT !.flight = "post", !.pair = jar]
  <1>1. v \in TabState
    BY DEF AllTyped, CookiesTyped, TabState
  <1>2. tab' = [tab EXCEPT ![t] = v]
    BY DEF AllTyped, TabState
  <1> HIDE DEF v
  <1>3. tab' \in [Tab -> TabState] /\ Pending' \subseteq Pending
    BY <1>1, <1>2, TabChanges DEF AllTyped
  <1>4. QED
    BY <1>3, NothingSigned DEF AllTyped

LEMMA RequestSteps ==
  ASSUME AllTyped, NEW r \in Request, RequestStep(r)
  PROVE  AllTyped'
  <1>0. /\ Home[r] \in Tab /\ tab[Home[r]] \in TabState /\ req[r] \in ReqState
        /\ Idle \in ReqState
    BY ClientAssumption DEF AllTyped, Idle, ReqState
  <1>1. CASE Send(r) \/ Answered(r) \/ Enqueues(r) \/ QueueTimesOut(r)
    <2>1. UNCHANGED <<store, tab, jar, shared, persisted, events, lock, server, faults>>
      BY <1>1 DEF Send, Answered, Enqueues, QueueTimesOut
    <2>2. req' \in [Request -> ReqState]
      BY <1>0, <1>1 DEF Send, Answered, Enqueues, QueueTimesOut, AllTyped, ReqState
    <2>3. QED
      BY <2>1, <2>2, RequestsMove
  <1>2. CASE StartsRefresh(r)
    <2> DEFINE t == Home[r]
               v == [JoinedRefresh(t) EXCEPT !.isRefreshing = TRUE]
    <2>1. /\ UNCHANGED <<store, jar, shared, persisted, events, lock, server, faults>>
          /\ Busy(t) \/ Budget
          /\ tab' = [tab EXCEPT ![t] = v]
          /\ req' = [req EXCEPT ![r].pc = "refreshing", ![r].retry = TRUE]
      BY <1>2 DEF StartsRefresh
    <2>2. v \in TabState
      BY <1>0 DEF JoinedRefresh, Started, TabState
    <2>3. Busy(t) => v.flight = tab[t].flight
      BY <1>0 DEF JoinedRefresh, TabState
    <2> HIDE DEF v
    <2>4. /\ tab' \in [Tab -> TabState] /\ \A q \in Tab : tab'[q] = IF q = t THEN v ELSE tab[q]
      BY <1>0, <2>1, <2>2, TabChanges DEF AllTyped
    <2>5. Pending' \subseteq Pending \cup {t} /\ (Busy(t) => Pending' \subseteq Pending)
      BY <2>3, <2>4 DEF Pending
    <2>6. ServerTyped'
      BY <1>0, <2>1, <2>5, OneStarts, NothingSigned DEF AllTyped
    <2>7. req' \in [Request -> ReqState]
      BY <1>0, <2>1 DEF AllTyped, ReqState
    <2>8. StoresTyped' /\ CookiesTyped'
      BY <2>1 DEF AllTyped, StoresTyped, CookiesTyped
    <2>9. QED
      BY <2>1, <2>4, <2>6, <2>7, <2>8 DEF AllTyped
  <1>3. CASE RetryRejected(r)
    <2>1. EndSession(Home[r]) /\ CutOff(Home[r]) /\ UNCHANGED <<jar, server>>
      BY <1>3 DEF RetryRejected
    <2>2. StoresTyped'
      BY <1>0, <2>1, EndTypes DEF AllTyped
    <2>3. /\ ServerTyped' /\ tab' \in [Tab -> TabState] /\ req' \in [Request -> ReqState]
          /\ lock' \in Tab \cup {NoTab}
      BY <1>0, <2>1, ReloadTypes DEF EndSession
    <2>4. CookiesTyped'
      BY <2>1 DEF EndSession, AllTyped, CookiesTyped, PairOrNone
    <2>5. faults' \in 0..MaxFaults + 1
      BY <1>0, <2>1, CutOffTypes DEF AllTyped
    <2>6. QED
      BY <2>2, <2>3, <2>4, <2>5 DEF AllTyped
  <1>4. QED
    BY <1>1, <1>2, <1>3 DEF RequestStep

LEMMA TabSteps ==
  ASSUME AllTyped, NEW t \in Tab, TabStep(t)
  PROVE  AllTyped'
  <1>0. /\ tab[t] \in TabState /\ store[t] \in StoreState /\ persisted \in StoreState
        /\ Empty \in StoreState /\ events[t] \in Seq(User \cup {NoUser})
        /\ jar \in PairOrNone /\ shared \in PairOrNone /\ NoPair \in PairOrNone
    BY DEF AllTyped, StoresTyped, CookiesTyped, Empty, StoreState, PairOrNone
  <1>l. /\ ServerTyped /\ StoresTyped /\ CookiesTyped /\ tab \in [Tab -> TabState]
        /\ server.owner \in Seq(User) /\ Issued \in Nat
        /\ server.refresh \subseteq 1..Issued /\ server.spent \subseteq 1..Issued
    BY LenProperties DEF AllTyped, ServerTyped, Issued
  <1>1. ASSUME NEW u \in User, Login(t, u)
        PROVE  AllTyped'
    <2> DEFINE n == Issued + 1
    <2>1. /\ Budget /\ UNCHANGED <<tab, req, shared, lock, faults>>
          /\ server' = [server EXCEPT !.owner = Append(server.owner, u), !.refresh = server.refresh \cup {n}]
          /\ jar' = Len(server'.owner) /\ Write(t, [user |-> u, token |-> jar'])
      BY <1>1 DEF Login, Signed, Issued
    <2>2. server' = [owner |-> Append(server.owner, u), refresh |-> server.refresh \cup {n},
                     spent |-> server.spent]
      BY <1>l, <2>1 DEF ServerTyped
    <2>3. n + Cardinality(Pending') <= MaxPairs
      <3> DEFINE B == {q \in Tab : Busy(q)}
      <3>1. IsFiniteSet(B) /\ Cardinality(B) \in Nat /\ Pending \in SUBSET B
        BY ClientAssumption, FS_Subset, FS_CardinalityType DEF Pending, Busy
      <3>2. Cardinality(Pending) <= Cardinality(B)
        BY <3>1, FS_Subset
      <3>3. Issued + Cardinality(B) < MaxPairs
        BY <2>1 DEF Budget, Issued
      <3> HIDE DEF B
      <3>4. QED
        BY <1>l, <2>1, <3>1, <3>2, <3>3, PendingFinite, SamePending, ClientAssumption
    <2> HIDE DEF n
    <2>4. ServerTyped' /\ Issued' = Issued + 1
      BY <1>1, <1>l, <2>2, <2>3, PairSigned DEF n
    <2>5. jar' \in Pair
      <3>1. jar' = Issued' /\ Cardinality(Pending') \in Nat
        BY <2>1, PendingFinite, SamePending DEF Issued
      <3>2. QED
        BY <1>l, <2>3, <2>4, <3>1, ClientAssumption DEF n, Pair
    <2>6. [user |-> u, token |-> jar'] \in StoreState
      BY <1>1, <2>5 DEF StoreState, PairOrNone
    <2>7. StoresTyped'
      BY <1>l, <2>1, <2>6, WriteTypes
    <2>8. CookiesTyped'
      BY <1>l, <2>1, <2>5 DEF CookiesTyped, PairOrNone
    <2>9. QED
      BY <2>1, <2>4, <2>7, <2>8 DEF AllTyped
  <1>2. CASE AskLogout(t)
    <2> DEFINE v == [tab[t] EXCEPT !.leaving = TRUE]
    <2>1. /\ UNCHANGED <<store, req, shared, persisted, events, lock, faults>>
          /\ tab' = [tab EXCEPT ![t] = v]
      BY <1>0, <1>2 DEF AskLogout, TabState
    <2>2. v \in TabState /\ v.flight = tab[t].flight
      BY <1>0 DEF TabState
    <2> HIDE DEF v
    <2>3. tab' \in [Tab -> TabState] /\ Pending' \subseteq Pending
      BY <1>l, <2>1, <2>2, TabChanges
    <2>4. /\ server'.owner = server.owner /\ server'.spent = server.spent
          /\ server'.refresh \subseteq server.refresh
          /\ server' = [owner |-> server'.owner, refresh |-> server'.refresh, spent |-> server'.spent]
      <3>1. PICK kept \in SUBSET server.refresh : server' = [server EXCEPT !.refresh = kept]
        <4>1. CASE UNCHANGED server
          <5>1. server' = [server EXCEPT !.refresh = server.refresh]
            BY <1>l, <4>1 DEF ServerTyped
          <5>2. QED
            BY <5>1
        <4>2. CASE server' = [server EXCEPT !.refresh =
                                {n \in server.refresh : server.owner[n] # server.owner[store[t].token]}]
          BY <4>2
        <4>3. QED
          BY <1>2, <4>1, <4>2 DEF AskLogout
      <3>2. server' = [owner |-> server.owner, refresh |-> kept, spent |-> server.spent]
        BY <1>l, <3>1 DEF ServerTyped
      <3>3. QED
        BY <3>1, <3>2
    <2>5. ServerTyped'
      <3>1. Cardinality(Pending') \in Nat /\ Cardinality(Pending') <= Cardinality(Pending)
        BY <2>3, PendingFinite, FS_Subset, FS_CardinalityType
      <3>2. Issued' = Issued
        BY <2>4 DEF Issued
      <3>3. Issued' + Cardinality(Pending') <= MaxPairs
        BY <1>l, <3>1, <3>2, PendingFinite, ClientAssumption DEF ServerTyped
      <3>4. QED
        BY <1>l, <2>4, <3>2, <3>3 DEF ServerTyped
    <2>6. jar' \in PairOrNone
      BY <1>0, <1>2 DEF AskLogout
    <2>7. StoresTyped' /\ CookiesTyped'
      BY <1>l, <2>1, <2>6 DEF StoresTyped, CookiesTyped
    <2>8. QED
      BY <2>1, <2>3, <2>5, <2>7 DEF AllTyped
  <1>3. CASE FinishLogout(t)
    <2> DEFINE v == [tab[t] EXCEPT !.leaving = FALSE]
    <2>1. /\ UNCHANGED <<req, jar, lock, server, faults>> /\ shared' = NoPair /\ Write(t, Empty)
          /\ tab' = [tab EXCEPT ![t] = v]
      BY <1>0, <1>3 DEF FinishLogout, ClearUserScopedState, TabState
    <2>2. v \in TabState /\ v.flight = tab[t].flight
      BY <1>0 DEF TabState
    <2> HIDE DEF v
    <2>3. tab' \in [Tab -> TabState] /\ Pending' \subseteq Pending
      BY <1>l, <2>1, <2>2, TabChanges
    <2>4. StoresTyped' /\ CookiesTyped'
      BY <1>0, <1>l, <2>1, WriteTypes DEF CookiesTyped
    <2>5. ServerTyped'
      BY <1>l, <2>1, <2>3, NothingSigned
    <2>6. QED
      BY <2>1, <2>3, <2>4, <2>5 DEF AllTyped
  <1>4. CASE StorageEvent(t)
    <2> DEFINE seen == [events EXCEPT ![t] = Tail(events[t])]
    <2>1. /\ events[t] # <<>> /\ UNCHANGED <<tab, req, jar, lock, server, faults>>
          /\ \/ /\ shared' = NoPair /\ store' = [store EXCEPT ![t] = Empty] /\ persisted' = Empty
                /\ \/ events' = seen
                   \/ events' = [q \in Tab |-> IF q = t THEN seen[q] ELSE Append(seen[q], NoUser)]
             \/ events' = seen /\ UNCHANGED <<store, shared, persisted>>
      BY <1>4 DEF StorageEvent
    <2>2. Tail(events[t]) \in Seq(User \cup {NoUser})
      BY <1>0, <2>1, HeadTailProperties
    <2>3. seen \in [Tab -> Seq(User \cup {NoUser})]
      BY <1>l, <2>2 DEF StoresTyped
    <2>4. \A q \in Tab : seen[q] \in Seq(User \cup {NoUser})
      BY <2>3
    <2> HIDE DEF seen
    <2>5. \A q \in Tab : Append(seen[q], NoUser) \in Seq(User \cup {NoUser})
      BY <2>4, AppendProperties
    <2>6. events' \in [Tab -> Seq(User \cup {NoUser})]
      BY <2>1, <2>3, <2>4, <2>5
    <2>7. store' \in [Tab -> StoreState] /\ persisted' \in StoreState /\ shared' \in PairOrNone
      BY <1>0, <1>l, <2>1 DEF StoresTyped
    <2>8. StoresTyped' /\ CookiesTyped'
      BY <1>0, <2>1, <2>6, <2>7 DEF StoresTyped, CookiesTyped
    <2>9. ServerTyped'
      BY <1>l, <2>1, SamePending, NothingSigned
    <2>10. QED
      BY <2>1, <2>8, <2>9 DEF AllTyped
  <1>5. CASE OpenPage(t)
    <2>1. /\ Reload(t) /\ CutOff(t) /\ UNCHANGED <<jar, shared, persisted, server>>
          /\ store' = [store EXCEPT ![t] = persisted] /\ events' = [events EXCEPT ![t] = <<>>]
      BY <1>5 DEF OpenPage
    <2>2. << >> \in Seq(User \cup {NoUser})
      OBVIOUS
    <2>3. StoresTyped' /\ CookiesTyped'
      BY <1>0, <1>l, <2>1, <2>2 DEF StoresTyped, CookiesTyped
    <2>4. faults' \in 0..MaxFaults + 1
      BY <2>1, CutOffTypes DEF AllTyped
    <2>5. QED
      BY <2>1, <2>3, <2>4, ReloadTypes DEF AllTyped
  <1>6. CASE SocketRefused(t)
    <2> DEFINE v == Started(t)
    <2>1. /\ UNCHANGED <<store, req, jar, shared, persisted, events, lock, server, faults>>
          /\ Budget /\ tab' = [tab EXCEPT ![t] = v]
      BY <1>6 DEF SocketRefused
    <2>2. v \in TabState
      BY <1>0 DEF Started, TabState
    <2> HIDE DEF v
    <2>3. /\ tab' \in [Tab -> TabState] /\ \A q \in Tab : tab'[q] = IF q = t THEN v ELSE tab[q]
      BY <1>l, <2>1, <2>2, TabChanges
    <2>4. Pending' \subseteq Pending \cup {t}
      BY <2>3 DEF Pending
    <2>5. ServerTyped'
      BY <1>l, <2>1, <2>4, OneStarts
    <2>6. StoresTyped' /\ CookiesTyped'
      BY <1>l, <2>1 DEF StoresTyped, CookiesTyped
    <2>7. QED
      BY <2>1, <2>3, <2>5, <2>6 DEF AllTyped
  <1>7. CASE GetLock(t) \/ LockFails(t)
    <2>1. /\ tab[t].flight = "lock" /\ UNCHANGED <<jar, shared, server>>
          /\ \/ Reuse(t)
             \/ /\ tab' = [tab EXCEPT ![t].flight = "post", ![t].pair = jar]
                /\ UNCHANGED <<store, persisted, events, req>>
      BY <1>7 DEF GetLock, LockFails
    <2>2. lock' \in Tab \cup {NoTab}
      BY <1>7 DEF GetLock, LockFails, AllTyped
    <2>3. faults' \in 0..MaxFaults + 1
      BY <1>7, ClientAssumption DEF GetLock, LockFails, AllTyped
    <2>4. CookiesTyped'
      BY <1>l, <2>1 DEF CookiesTyped
    <2>5. CASE Reuse(t)
      BY <2>1, <2>2, <2>3, <2>4, <2>5, ReuseTypes DEF AllTyped
    <2>6. CASE /\ tab' = [tab EXCEPT ![t].flight = "post", ![t].pair = jar]
               /\ UNCHANGED <<store, persisted, events, req>>
      <3>1. StoresTyped' /\ req' \in [Request -> ReqState]
        BY <1>l, <2>6 DEF StoresTyped, AllTyped
      <3>2. ServerTyped' /\ tab' \in [Tab -> TabState]
        BY <2>1, <2>6, PostTypes
      <3>3. QED
        BY <2>2, <2>3, <2>4, <3>1, <3>2 DEF AllTyped
    <2>7. QED
      BY <2>1, <2>5, <2>6
  <1>8. CASE ServerRefresh(t)
    <2> DEFINE n == tab[t].pair
               m == Issued + 1
    <2>1. /\ tab[t].flight = "post" /\ UNCHANGED <<store, req, jar, shared, persisted, events, lock, faults>>
      BY <1>8 DEF ServerRefresh
    <2>2. StoresTyped' /\ CookiesTyped'
      BY <1>l, <2>1 DEF StoresTyped, CookiesTyped
    <2>3. t \in Pending
      BY <2>1 DEF Pending
    <2>4. CASE n \in server.refresh
      <3> DEFINE u == server.owner[n]
                 v == [tab[t] EXCEPT !.flight = "reply", !.pair = m]
      <3>1. u \in User
        BY <1>l, <2>4, ElementOfSeq DEF Issued
      <3>2. server' = [Signed(u) EXCEPT !.refresh = @ \ {n}, !.spent = @ \cup {n}]
            /\ tab' = [tab EXCEPT ![t].flight = "reply", ![t].pair = Len(server'.owner)]
        BY <1>8, <2>4 DEF ServerRefresh
      <3>3. server' = [owner |-> Append(server.owner, u), refresh |-> (server.refresh \cup {m}) \ {n},
                       spent |-> server.spent \cup {n}]
        BY <1>l, <3>2 DEF Signed, ServerTyped, Issued
      <3>4. Len(server'.owner) = m
        BY <1>l, <3>1, <3>3, AppendProperties DEF Issued
      <3>5. tab' = [tab EXCEPT ![t] = v]
        BY <1>0, <3>2, <3>4 DEF TabState
      <3> HIDE DEF u, v
      <3>6. \A q \in Tab : tab'[q] = IF q = t THEN v ELSE tab[q]
        BY <1>l, <3>5
      <3>7. v.flight = "reply"
        BY <1>0 DEF v, TabState
      <3>8. Pending' = Pending \ {t}
        BY <3>6, <3>7 DEF Pending
      <3>9. Cardinality(Pending') = Cardinality(Pending) - 1
        BY <2>3, <3>8, PendingFinite, FS_RemoveElement
      <3>10. Issued + 1 + Cardinality(Pending') <= MaxPairs /\ m \in Pair
        <4>1. Issued + Cardinality(Pending) <= MaxPairs /\ Cardinality(Pending) \in Nat
          BY <1>l, PendingFinite DEF ServerTyped
        <4>2. IsFiniteSet(Pending') /\ Cardinality(Pending') \in Nat
          BY <3>8, PendingFinite, FS_RemoveElement, FS_CardinalityType
        <4>3. QED
          BY <1>l, <3>9, <4>1, <4>2, ClientAssumption DEF Pair
      <3>11. ServerTyped'
        <4>1. (server.refresh \cup {m}) \ {n} \subseteq server.refresh \cup {Issued + 1}
          OBVIOUS
        <4>2. server.spent \cup {n} \subseteq 1..Issued
          BY <1>l, <2>4
        <4>3. QED
          BY <1>l, <3>1, <3>3, <3>10, <4>1, <4>2, PairSigned
      <3>12. v \in TabState
        BY <1>0, <3>10 DEF v, TabState, PairOrNone
      <3>13. tab' \in [Tab -> TabState]
        BY <1>l, <3>5, <3>12, TabChanges
      <3>14. QED
        BY <2>1, <2>2, <3>11, <3>13 DEF AllTyped
    <2>5. CASE n \notin server.refresh
      <3> DEFINE v == [tab[t] EXCEPT !.flight = "reply", !.pair = NoPair, !.denied = TRUE]
      <3>1. tab' = [tab EXCEPT ![t] = v] /\ UNCHANGED server
        BY <1>0, <1>8, <2>5 DEF ServerRefresh, TabState
      <3>2. v \in TabState /\ v.flight = "reply"
        BY <1>0 DEF TabState
      <3> HIDE DEF v
      <3>3. tab' \in [Tab -> TabState] /\ Pending' \subseteq Pending
        BY <1>l, <3>1, <3>2, TabChanges
      <3>4. QED
        BY <1>l, <2>1, <2>2, <3>1, <3>3, NothingSigned DEF AllTyped
    <2>6. QED
      BY <2>4, <2>5
  <1>9. CASE RefreshSucceeds(t)
    <2> DEFINE n == tab[t].pair
    <2>1. /\ jar' = n /\ shared' = n /\ Resume(t) /\ Unlock(t) /\ UNCHANGED <<server, faults>>
          /\ Adopt(t, n) \/ UNCHANGED <<store, persisted, events>>
          /\ tab' = [q \in Tab |-> IF q = t THEN Landed(q) ELSE [tab[q] EXCEPT !.fresh = tab[q].fresh \/ Busy(q)]]
      BY <1>9 DEF RefreshSucceeds
    <2>2. n \in PairOrNone /\ [store[t] EXCEPT !.token = n] \in StoreState
      BY <1>0 DEF TabState, StoreState
    <2>3. StoresTyped'
      BY <1>l, <2>1, <2>2, WriteTypes DEF Adopt, StoresTyped
    <2>4. CookiesTyped'
      BY <2>1, <2>2 DEF CookiesTyped
    <2>5. ASSUME NEW q \in Tab
          PROVE  LET w == [tab[q] EXCEPT !.fresh = tab[q].fresh \/ Busy(q)]
                 IN w \in TabState /\ w.flight = tab[q].flight
      <3>1. PICK b : b = (tab[q].fresh \/ Busy(q))
        OBVIOUS
      <3>2. b \in BOOLEAN
        BY <3>1, Zenon
      <3>3. tab[q] \in TabState
        BY <1>l
      <3>4. [tab[q] EXCEPT !.fresh = b] \in TabState /\ [tab[q] EXCEPT !.fresh = b].flight = tab[q].flight
        BY <3>2, <3>3 DEF TabState
      <3>5. QED
        BY <3>1, <3>4, Zenon
    <2>6. tab' \in [Tab -> TabState]
      BY <2>1, <2>5, LandingTypes
    <2>7. Pending' \subseteq Pending
      <3>1. \A q \in Tab : tab'[q].flight = IF q = t THEN "none" ELSE tab[q].flight
        BY <2>1, <2>5, LandingTypes
      <3>2. QED
        BY <3>1 DEF Pending
    <2>8. QED
      BY <1>l, <2>1, <2>3, <2>4, <2>6, <2>7, NothingSigned, LandingTypes DEF AllTyped
  <1>f. ASSUME Fail(t), UNCHANGED server
        PROVE  /\ StoresTyped' /\ UNCHANGED shared /\ ServerTyped' /\ tab' \in [Tab -> TabState]
               /\ req' \in [Request -> ReqState] /\ lock' \in Tab \cup {NoTab}
    <2>1. tab' = [tab EXCEPT ![t] = Landed(t)]
      BY <1>f DEF Fail
    <2>2. tab' \in [Tab -> TabState] /\ Pending' \subseteq Pending
      BY <1>l, <2>1, LandingTypes, TabChanges
    <2>3. Idle \in ReqState
      BY DEF Idle, ReqState
    <2>4. req' \in [Request -> ReqState]
      BY <1>f, <2>3 DEF Fail, AllTyped
    <2>5. StoresTyped' /\ UNCHANGED shared
      BY <1>l, <1>f DEF Fail, StoresTyped
    <2>6. QED
      BY <1>f, <1>l, <2>2, <2>4, <2>5, LandingTypes, NothingSigned DEF Fail
  <1>a. ASSUME LookAgain(t), UNCHANGED server
        PROVE  /\ StoresTyped' /\ UNCHANGED shared /\ ServerTyped' /\ tab' \in [Tab -> TabState]
               /\ req' \in [Request -> ReqState] /\ lock' \in Tab \cup {NoTab}
    <2> DEFINE v == [tab[t] EXCEPT !.flight = "again"]
    <2>1. tab' = [tab EXCEPT ![t] = v]
      BY <1>0, <1>a DEF LookAgain, TabState
    <2>2. v \in TabState /\ v.flight = "again"
      BY <1>0 DEF TabState
    <2> HIDE DEF v
    <2>3. tab' \in [Tab -> TabState] /\ Pending' \subseteq Pending
      BY <1>l, <2>1, <2>2, TabChanges
    <2>4. StoresTyped' /\ UNCHANGED <<req, lock, shared>>
      BY <1>l, <1>a DEF LookAgain, StoresTyped
    <2>5. QED
      BY <1>a, <1>l, <2>3, <2>4, NothingSigned DEF AllTyped
  <1>e. ASSUME EndSession(t), UNCHANGED server
        PROVE  /\ StoresTyped' /\ shared' = NoPair /\ ServerTyped' /\ tab' \in [Tab -> TabState]
               /\ req' \in [Request -> ReqState] /\ lock' \in Tab \cup {NoTab}
    BY <1>e, <1>l, EndTypes, ReloadTypes DEF EndSession
  <1>10. CASE RefreshDenied(t) \/ RefreshUnanswered(t)
    <2>1. /\ EndSession(t) \/ LookAgain(t) \/ Fail(t)
          /\ UNCHANGED <<jar, server>> /\ (CutOff(t) \/ UNCHANGED faults)
      BY <1>10 DEF RefreshDenied, RefreshUnanswered
    <2>2. faults' \in 0..MaxFaults + 1
      BY <2>1, CutOffTypes DEF AllTyped
    <2>3. /\ StoresTyped' /\ shared' \in PairOrNone /\ ServerTyped' /\ tab' \in [Tab -> TabState]
          /\ req' \in [Request -> ReqState] /\ lock' \in Tab \cup {NoTab}
      BY <1>0, <1>f, <1>a, <1>e, <2>1
    <2>4. CookiesTyped'
      BY <1>0, <2>1, <2>3 DEF CookiesTyped
    <2>5. QED
      BY <2>2, <2>3, <2>4 DEF AllTyped
  <1>11. CASE SecondLook(t)
    <2>1. /\ (Reuse(t) /\ UNCHANGED <<shared, lock>>) \/ EndSession(t) \/ Fail(t)
          /\ UNCHANGED <<jar, server, faults>>
      BY <1>11 DEF SecondLook
    <2>2. /\ StoresTyped' /\ shared' \in PairOrNone /\ ServerTyped' /\ tab' \in [Tab -> TabState]
          /\ req' \in [Request -> ReqState] /\ lock' \in Tab \cup {NoTab}
      BY <1>0, <1>f, <1>e, <2>1, ReuseTypes DEF AllTyped
    <2>3. CookiesTyped'
      BY <1>0, <2>1, <2>2 DEF CookiesTyped
    <2>4. QED
      BY <2>1, <2>2, <2>3 DEF AllTyped
  <1>12. QED
    BY <1>1, <1>2, <1>3, <1>4, <1>5, <1>6, <1>7, <1>8, <1>9, <1>10, <1>11 DEF TabStep, RefreshGoesOn

LEMMA PairsAlways == Spec => []AllTyped
  <1>1. AllTyped /\ [Next]_vars => AllTyped'
    <2>1. ASSUME AllTyped, UNCHANGED vars PROVE AllTyped'
      BY <2>1, NothingSigned, SamePending DEF vars, AllTyped, StoresTyped, CookiesTyped
    <2>2. QED
      BY <2>1, TabSteps, RequestSteps DEF Next
  <1>2. QED
    BY <1>1, TypedInit, PTL DEF Spec

(* Every variable of the tabs, the browser and the server keeps its type; the bound
   on pairs is never passed, because every refresh that starts has been counted.   *)
THEOREM ClientTypeCorrect == Spec => []TypeOK
  BY PairsAlways, TypedIs, PTL DEF PairsInv

-----------------------------------------------------------------------------
(* The stores: a tab that shows another user than the one stored has a storage
   event to see that is not about the user it shows, whatever other events come
   before it; so it cannot be idle.                                            *)
Agree ==
  \A t \in Tab :
    Auth(t) /\ store[t].user # persisted.user =>
      \E i \in 1..Len(events[t]) : events[t][i] # store[t].user

\* The last event is another user's.
LEMMA LastDiffers ==
  ASSUME NEW s \in Seq(User \cup {NoUser}), NEW u \in User \cup {NoUser}, NEW v, u # v
  PROVE  \E i \in 1..Len(Append(s, u)) : Append(s, u)[i] # v
  <1>1. /\ Len(Append(s, u)) = Len(s) + 1 /\ Append(s, u)[Len(s) + 1] = u /\ Len(s) \in Nat
    BY AppendProperties, LenProperties
  <1>2. Len(s) + 1 \in 1..Len(Append(s, u))
    BY <1>1
  <1>3. QED
    BY <1>1, <1>2

\* One tab's store becomes s, and so does what is stored; the others are told if that is new.
LEMMA OneWrites ==
  ASSUME StoresTyped, Agree, NEW t \in Tab, NEW s \in StoreState,
         NEW own \in Seq(User \cup {NoUser}),
         store' = [store EXCEPT ![t] = s], persisted' = s,
         \A q \in Tab \ {t} :
           events'[q] = IF persisted = s THEN events[q] ELSE Append(events[q], s.user)
  PROVE  Agree'
  <1> SUFFICES ASSUME NEW q \in Tab, store'[q].user # NoUser, store'[q].user # s.user
               PROVE  \E i \in 1..Len(events'[q]) : events'[q][i] # store'[q].user
    BY DEF Agree, Auth
  <1>1. q # t /\ store'[q] = store[q]
    BY DEF StoresTyped
  <1>2. s.user \in User \cup {NoUser} /\ events[q] \in Seq(User \cup {NoUser})
    BY DEF StoresTyped, StoreState
  <1>3. CASE persisted = s
    BY <1>1, <1>3 DEF Agree, Auth
  <1>4. CASE persisted # s
    BY <1>1, <1>2, <1>4, LastDiffers
  <1>5. QED
    BY <1>3, <1>4

LEMMA AgreeKept ==
  ASSUME AllTyped, Agree, Next
  PROVE  Agree'
  <1>0. /\ StoresTyped /\ Empty \in StoreState /\ Empty.user = NoUser /\ << >> \in Seq(User \cup {NoUser})
    BY DEF AllTyped, Empty, StoreState, PairOrNone
  <1>u. ASSUME UNCHANGED <<store, persisted, events>>
        PROVE  Agree'
    BY <1>u DEF Agree, Auth
  <1>w. ASSUME NEW t \in Tab, NEW s \in StoreState, Write(t, s)
        PROVE  Agree'
    <2>1. \A q \in Tab \ {t} :
            events'[q] = IF persisted = s THEN events[q] ELSE Append(events[q], s.user)
      BY <1>w DEF Write
    <2>2. QED
      BY <1>0, <1>w, <2>1, OneWrites DEF Write
  <1>e. ASSUME NEW t \in Tab, EndSession(t)
        PROVE  Agree'
    <2>1. \A q \in Tab \ {t} :
            events'[q] = IF persisted = Empty THEN events[q] ELSE Append(events[q], Empty.user)
      BY <1>0, <1>e DEF EndSession
    <2>2. QED
      BY <1>0, <1>e, <2>1, OneWrites DEF EndSession
  <1>a. ASSUME NEW t \in Tab, NEW n \in PairOrNone, Adopt(t, n)
        PROVE  Agree'
    <2>1. [store[t] EXCEPT !.token = n] \in StoreState
      BY <1>0 DEF StoresTyped, StoreState
    <2>2. QED
      BY <1>a, <1>w, <2>1 DEF Adopt
  <1>1. ASSUME NEW r \in Request, RequestStep(r)
        PROVE  Agree'
    <2>1. Home[r] \in Tab
      BY ClientAssumption
    <2>2. QED
      BY <1>1, <1>u, <1>e, <2>1 DEF RequestStep, Send, Answered, StartsRefresh, Enqueues, QueueTimesOut, RetryRejected
  <1>2. ASSUME NEW t \in Tab, TabStep(t)
        PROVE  Agree'
    <2>1. CASE \E u \in User : Login(t, u)
      <3>1. PICK u \in User : Login(t, u)
        BY <2>1
      <3>2. AllTyped'
        BY <1>2, TabSteps
      <3>3. [user |-> u, token |-> jar'] \in StoreState
        BY <3>2 DEF AllTyped, CookiesTyped, StoreState
      <3>4. QED
        BY <1>w, <3>1, <3>3 DEF Login
    <2>2. CASE AskLogout(t) \/ SocketRefused(t) \/ ServerRefresh(t)
      BY <1>u, <2>2 DEF AskLogout, SocketRefused, ServerRefresh
    <2>3. CASE FinishLogout(t)
      BY <1>0, <1>w, <2>3 DEF FinishLogout, ClearUserScopedState
    <2>4. CASE StorageEvent(t)
      <3> DEFINE seen == [events EXCEPT ![t] = Tail(events[t])]
      <3>1. events[t] # << >> /\ \A q \in Tab \ {t} : seen[q] = events[q]
        BY <2>4 DEF StorageEvent
      <3>2. CASE Auth(t) /\ Head(events[t]) # store[t].user
        <4>1. /\ store' = [store EXCEPT ![t] = Empty] /\ persisted' = Empty
              /\ events' = IF persisted = Empty THEN seen
                           ELSE [q \in Tab |-> IF q = t THEN seen[q] ELSE Append(seen[q], NoUser)]
          BY <2>4, <3>2 DEF StorageEvent
        <4>2. \A q \in Tab \ {t} :
                events'[q] = IF persisted = Empty THEN events[q] ELSE Append(events[q], Empty.user)
          BY <1>0, <3>1, <4>1
        <4>3. QED
          BY <1>0, <4>1, <4>2, OneWrites
      <3>3. CASE ~(Auth(t) /\ Head(events[t]) # store[t].user)
        <4>1. events' = seen /\ UNCHANGED <<store, persisted>>
          BY <2>4, <3>3 DEF StorageEvent
        <4>2. events[t] \in Seq(User \cup {NoUser}) /\ Len(events[t]) \in Nat
          BY <1>0, LenProperties DEF StoresTyped
        <4>3. /\ Len(Tail(events[t])) = Len(events[t]) - 1
              /\ \A i \in 1..Len(Tail(events[t])) : Tail(events[t])[i] = events[t][i + 1]
              /\ events'[t] = Tail(events[t])
          BY <1>0, <3>1, <4>1, <4>2, HeadTailProperties DEF StoresTyped
        <4>4. ASSUME Auth(t), store[t].user # persisted.user
              PROVE  \E i \in 1..Len(events'[t]) : events'[t][i] # store[t].user
          <5>1. PICK i \in 1..Len(events[t]) : events[t][i] # store[t].user
            BY <4>4 DEF Agree
          <5>2. events[t][1] = store[t].user
            BY <3>1, <3>3, <4>2, <4>4
          <5>3. i - 1 \in 1..Len(Tail(events[t])) /\ (i - 1) + 1 = i
            BY <4>2, <4>3, <5>1, <5>2
          <5>4. Tail(events[t])[i - 1] = events[t][i]
            BY <4>3, <5>3
          <5>5. QED
            BY <4>3, <5>1, <5>3, <5>4
        <4>5. \A q \in Tab \ {t} : events'[q] = events[q]
          BY <3>1, <4>1
        <4>6. QED
          BY <4>1, <4>4, <4>5 DEF Agree, Auth
      <3>4. QED
        BY <3>2, <3>3
    <2>5. CASE OpenPage(t)
      <3>1. /\ store' = [store EXCEPT ![t] = persisted] /\ UNCHANGED persisted
            /\ events' = [events EXCEPT ![t] = <<>>]
        BY <2>5 DEF OpenPage
      <3>2. /\ store'[t] = persisted
            /\ \A q \in Tab \ {t} : store'[q] = store[q] /\ events'[q] = events[q]
        BY <1>0, <3>1 DEF StoresTyped
      <3>3. QED
        BY <3>1, <3>2 DEF Agree, Auth
    <2>6. ASSUME Reuse(t) PROVE Agree'
      BY <1>a, <2>6 DEF Reuse, AllTyped, CookiesTyped
    <2>7. CASE GetLock(t) \/ LockFails(t)
      BY <1>u, <2>6, <2>7 DEF GetLock, LockFails
    <2>8. CASE RefreshSucceeds(t)
      <3>1. tab[t].pair \in PairOrNone
        BY DEF AllTyped, TabState
      <3>2. QED
        BY <1>a, <1>u, <2>8, <3>1 DEF RefreshSucceeds
    <2>9. CASE RefreshDenied(t) \/ RefreshUnanswered(t) \/ SecondLook(t)
      BY <1>e, <1>u, <2>6, <2>9 DEF RefreshDenied, RefreshUnanswered, SecondLook, LookAgain, Fail
    <2>10. QED
      BY <1>2, <2>1, <2>2, <2>3, <2>4, <2>5, <2>7, <2>8, <2>9 DEF TabStep, RefreshGoesOn
  <1>3. QED
    BY <1>1, <1>2 DEF Next

(* Whatever the users, the tabs and the server do in whichever order: a tab that has
   seen every storage event shows the user who is stored, or nobody
   (auth-cleanup.ts, bindCrossTabAuthSync).                                        *)
THEOREM IdleTabsShowTheUser == Spec => []IdleTabsAgree
  <1>1. Init => Agree
    BY DEF Init, Agree, Auth, Empty
  <1>2. AllTyped /\ Agree /\ [Next]_vars => Agree'
    <2>1. ASSUME Agree, UNCHANGED vars PROVE Agree'
      BY <2>1 DEF vars, Agree, Auth
    <2>2. QED
      BY <2>1, AgreeKept
  <1>3. Agree => IdleTabsAgree
    <2> SUFFICES ASSUME Agree, NEW t \in Tab, events[t] = <<>>, Auth(t), store[t].user # persisted.user
                 PROVE  FALSE
      BY DEF IdleTabsAgree
    <2>1. PICK i \in 1..Len(events[t]) : TRUE
      BY DEF Agree
    <2>2. QED
      BY <2>1
  <1>4. QED
    BY <1>1, <1>2, <1>3, PairsAlways, PTL DEF Spec

-----------------------------------------------------------------------------
(* The lock: as long as nothing has failed, only its holder has a refresh at the
   server, and the cookie is one that was exchanged only while that refresh's
   reply, with the next cookie, is on its way.                                  *)
Answer(t) == tab[t].flight = "reply" /\ ~tab[t].denied

Undenied == \A t \in Tab : tab[t].flight \in {"none", "lock", "post"} => ~tab[t].denied

Alone ==
  /\ \A t \in Tab : Asking(t) => lock = t
  /\ \A t \in Tab : tab[t].flight = "post" \/ Answer(t) => tab[t].pair \notin server.spent
  /\ jar \in server.spent => \E t \in Tab : Answer(t)

AloneInv == Undenied /\ (faults = 0 => Alone)

\* Tab t's refresh is where it was; it is over, or has not been sent.
Same(t) ==
  /\ tab'[t].flight = tab[t].flight /\ tab'[t].pair = tab[t].pair /\ tab'[t].denied = tab[t].denied
Away(t) ==
  \/ tab'[t].flight \in {"none", "lock"} /\ ~tab'[t].denied
  \/ tab'[t].flight = "again"

\* A step that sends and exchanges no cookie.
LEMMA NothingSent ==
  ASSUME AloneInv, faults \in Nat, faults' = 0 => faults = 0,
         server'.spent = server.spent,
         \A q \in Tab : Same(q) \/ Away(q),
         faults' = 0 => \A q \in Tab : Same(q) /\ Asking(q) => lock' = lock,
         faults' = 0 => \/ jar' \notin server.spent
                        \/ jar' = jar /\ \A q \in Tab : Answer(q) => Same(q)
  PROVE  AloneInv'
  <1>1. Undenied'
    BY DEF AloneInv, Undenied, Same, Away
  <1>2. ASSUME faults' = 0 PROVE Alone'
    <2>0. Alone
      BY <1>2 DEF AloneInv
    <2>1. \A q \in Tab : Asking(q)' => Same(q) /\ Asking(q) /\ lock' = lock
      BY <1>2 DEF Asking, Same, Away
    <2>2. \A q \in Tab : tab'[q].flight = "post" \/ Answer(q)' =>
            Same(q) /\ (tab[q].flight = "post" \/ Answer(q))
      BY DEF Answer, Same, Away
    <2>3. \A q \in Tab : Answer(q) /\ Same(q) => Answer(q)'
      BY DEF Answer, Same
    <2>4. jar' \in server'.spent => \E q \in Tab : Answer(q)'
      BY <1>2, <2>0, <2>3 DEF Alone
    <2>5. \A q \in Tab : Asking(q)' => lock' = q
      BY <2>0, <2>1 DEF Alone
    <2>6. \A q \in Tab : tab'[q].flight = "post" \/ Answer(q)' => tab'[q].pair \notin server'.spent
      BY <2>0, <2>2 DEF Alone, Same
    <2>7. QED
      BY <2>4, <2>5, <2>6 DEF Alone
  <1>3. QED
    BY <1>1, <1>2 DEF AloneInv

\* One tab's refresh goes: it was not at the server, or something has failed.
LEMMA OneGoesAway ==
  ASSUME AllTyped, AloneInv, NEW t \in Tab, faults' = 0 => faults = 0, UNCHANGED <<server, jar>>,
         Away(t), \A q \in Tab \ {t} : Same(q), lock' = lock \/ (lock = t /\ lock' = NoTab),
         faults' = 0 => ~Answer(t)
  PROVE  AloneInv'
  <1>1. faults \in Nat
    BY ClientAssumption DEF AllTyped
  <1>2. ASSUME faults' = 0, NEW q \in Tab, Same(q), Asking(q)
        PROVE  lock' = lock
    <2>1. q # t
      BY <1>2 DEF Same, Away, Asking
    <2>2. lock = q
      BY <1>2 DEF AloneInv, Alone
    <2>3. QED
      BY <2>1, <2>2
  <1>3. faults' = 0 => \A q \in Tab : Answer(q) => Same(q)
    OBVIOUS
  <1>4. \A q \in Tab : Same(q) \/ Away(q)
    OBVIOUS
  <1>5. QED
    BY <1>1, <1>2, <1>3, <1>4, NothingSent

LEMMA ReloadAway ==
  ASSUME AllTyped, NEW t \in Tab, Reload(t)
  PROVE  /\ Away(t) /\ \A q \in Tab \ {t} : Same(q)
         /\ lock' = lock \/ (lock = t /\ lock' = NoTab)
  BY DEF Reload, AllTyped, Away, Same, Quiet

LEMMA LandedAway ==
  ASSUME AllTyped, NEW t \in Tab, tab' = [tab EXCEPT ![t] = Landed(t)]
  PROVE  Away(t) /\ \A q \in Tab \ {t} : Same(q)
  <1>1. Landed(t).flight = "none" /\ Landed(t).denied = FALSE
    BY DEF Landed, Quiet
  <1>2. /\ tab'[t] = Landed(t)
        /\ \A q \in Tab \ {t} : tab'[q] = tab[q]
    BY DEF AllTyped
  <1>3. QED
    BY <1>1, <1>2 DEF Away, Same

\* CutOff, of a page that goes away or waits no longer.
LEMMA CutOffCounts ==
  ASSUME faults \in Nat, NEW t \in Tab, CutOff(t)
  PROVE  (faults' = 0 => faults = 0 /\ ~Asking(t)) /\ faults' \in Nat
  BY ClientAssumption DEF CutOff

LEMMA AloneSteps ==
  ASSUME AllTyped, AloneInv, Next
  PROVE  AloneInv'
  <1>0. /\ tab \in [Tab -> TabState] /\ faults \in Nat /\ lock \in Tab \cup {NoTab} /\ NoTab \notin Tab
        /\ server.spent \subseteq 1..Issued /\ Issued \in Nat /\ NoPair \notin server.spent
    BY ClientAssumption, LenProperties DEF AllTyped, ServerTyped, Issued, NoPair
  \* Only what is not about a refresh changes.
  <1>n. ASSUME UNCHANGED <<lock, faults>>, server'.spent = server.spent, \A q \in Tab : Same(q),
               jar' = jar \/ jar' \notin server.spent
        PROVE  AloneInv'
    BY <1>0, <1>n, NothingSent
  <1>s. (UNCHANGED tab) => \A q \in Tab : Same(q)
    BY DEF Same
  <1>e. ASSUME NEW t \in Tab, EndSession(t) \/ (Reload(t) /\ CutOff(t)), UNCHANGED <<server, jar>>,
               CutOff(t) \/ UNCHANGED faults, faults' = 0 /\ Answer(t) => CutOff(t)
        PROVE  AloneInv'
    <2>1. Reload(t)
      BY <1>e DEF EndSession
    <2>2. (faults' = 0 => faults = 0) /\ (faults' = 0 => ~Answer(t))
      BY <1>0, <1>e, CutOffCounts DEF Answer, Asking
    <2>3. QED
      BY <1>e, <2>1, <2>2, ReloadAway, OneGoesAway
  <1>1. ASSUME NEW r \in Request, RequestStep(r)
        PROVE  AloneInv'
    <2> DEFINE t == Home[r]
    <2>0. t \in Tab /\ tab[t] \in TabState
      BY <1>0, ClientAssumption
    <2>1. CASE Send(r) \/ Answered(r) \/ Enqueues(r) \/ QueueTimesOut(r)
      BY <1>n, <1>s, <2>1 DEF Send, Answered, Enqueues, QueueTimesOut
    <2>2. CASE StartsRefresh(r)
      <3> DEFINE v == [JoinedRefresh(t) EXCEPT !.isRefreshing = TRUE]
      <3>1. UNCHANGED <<jar, lock, server, faults>> /\ tab' = [tab EXCEPT ![t] = v]
        BY <2>2 DEF StartsRefresh
      <3>2. CASE Busy(t)
        <4>1. v.flight = tab[t].flight /\ v.pair = tab[t].pair /\ v.denied = tab[t].denied
          BY <2>0, <3>2 DEF JoinedRefresh, TabState
        <4> HIDE DEF v
        <4>2. \A q \in Tab : Same(q)
          BY <1>0, <2>0, <3>1, <4>1 DEF Same
        <4>3. QED
          BY <1>n, <3>1, <4>2
      <3>3. CASE ~Busy(t)
        <4>1. v.flight = "lock" /\ v.denied = tab[t].denied
          BY <2>0, <3>3 DEF JoinedRefresh, Started, TabState
        <4>2. ~tab[t].denied /\ ~Answer(t)
          BY <2>0, <3>3 DEF Busy, AloneInv, Undenied, Answer
        <4> HIDE DEF v
        <4>3. Away(t) /\ \A q \in Tab \ {t} : Same(q)
          BY <1>0, <2>0, <3>1, <4>1, <4>2 DEF Same, Away
        <4>4. QED
          BY <2>0, <3>1, <4>2, <4>3, OneGoesAway
      <3>4. QED
        BY <3>2, <3>3
    <2>3. CASE RetryRejected(r)
      BY <1>e, <2>0, <2>3 DEF RetryRejected
    <2>4. QED
      BY <1>1, <2>1, <2>2, <2>3 DEF RequestStep
  <1>2. ASSUME NEW t \in Tab, TabStep(t)
        PROVE  AloneInv'
    <2>0. tab[t] \in TabState
      BY <1>0
    <2>1. CASE \E u \in User : Login(t, u)
      <3>1. PICK u \in User : Login(t, u)
        BY <2>1
      <3>2. /\ UNCHANGED <<tab, lock, faults>> /\ jar' = Len(server'.owner)
            /\ server' = [server EXCEPT !.owner = Append(server.owner, u), !.refresh = server.refresh \cup {Len(server.owner) + 1}]
        BY <3>1 DEF Login, Signed
      <3>3. server'.owner = Append(server.owner, u) /\ server'.spent = server.spent
        BY <3>2 DEF AllTyped, ServerTyped
      <3>4. jar' = Issued + 1
        BY <3>2, <3>3, AppendProperties DEF AllTyped, ServerTyped, Issued
      <3>5. jar' \notin server.spent
        BY <1>0, <3>4
      <3>6. QED
        BY <1>n, <1>s, <3>2, <3>3, <3>5
    <2>2. CASE AskLogout(t)
      <3>1. /\ UNCHANGED <<lock, faults>> /\ tab' = [tab EXCEPT ![t].leaving = TRUE]
            /\ jar' = jar \/ jar' = NoPair
            /\ server' = server \/ \E kept : server' = [server EXCEPT !.refresh = kept]
        BY <2>2 DEF AskLogout
      <3>2. server'.spent = server.spent
        BY <3>1 DEF AllTyped, ServerTyped
      <3>3. \A q \in Tab : Same(q)
        BY <1>0, <3>1 DEF Same, TabState
      <3>4. QED
        BY <1>0, <1>n, <3>1, <3>2, <3>3
    <2>3. CASE FinishLogout(t)
      <3>1. UNCHANGED <<jar, lock, server, faults>> /\ tab' = [tab EXCEPT ![t].leaving = FALSE]
        BY <2>3 DEF FinishLogout
      <3>2. \A q \in Tab : Same(q)
        BY <1>0, <3>1 DEF Same, TabState
      <3>3. QED
        BY <1>n, <3>1, <3>2
    <2>4. CASE StorageEvent(t)
      BY <1>n, <1>s, <2>4 DEF StorageEvent
    <2>5. CASE OpenPage(t)
      BY <1>e, <2>5 DEF OpenPage
    <2>6. CASE SocketRefused(t)
      <3>1. /\ UNCHANGED <<jar, lock, server, faults>> /\ tab' = [tab EXCEPT ![t] = Started(t)]
            /\ ~tab[t].denied /\ ~Answer(t)
        BY <2>6 DEF SocketRefused, Busy, AloneInv, Undenied, Answer
      <3>2. Started(t).flight = "lock" /\ Started(t).denied = tab[t].denied
        BY <2>0 DEF Started, TabState
      <3>3. Away(t) /\ \A q \in Tab \ {t} : Same(q)
        BY <1>0, <3>1, <3>2 DEF Same, Away
      <3>4. QED
        BY <3>1, <3>3, OneGoesAway
    <2>7. CASE GetLock(t) \/ LockFails(t)
      <3>1. /\ tab[t].flight = "lock" /\ UNCHANGED <<jar, server>> /\ ~Answer(t) /\ ~tab[t].denied
            /\ GetLock(t) => UNCHANGED faults /\ lock = NoTab
            /\ LockFails(t) => faults' = faults + 1 /\ UNCHANGED lock
        BY <2>7 DEF GetLock, LockFails, Answer, AloneInv, Undenied
      <3>2. faults' = 0 => faults = 0 /\ GetLock(t)
        BY <1>0, <2>7, <3>1
      <3>3. CASE Reuse(t) /\ UNCHANGED lock
        <4>1. tab' = [tab EXCEPT ![t] = Landed(t)]
          BY <3>3 DEF Reuse
        <4>2. QED
          BY <3>1, <3>2, <3>3, <4>1, LandedAway, OneGoesAway
      <3>4. CASE /\ tab' = [tab EXCEPT ![t].flight = "post", ![t].pair = jar]
                 /\ GetLock(t) => lock' = t
        <4> DEFINE v == [tab[t] EXCEPT !.flight = "post", !.pair = jar]
        <4>1. tab' = [tab EXCEPT ![t] = v] /\ v.flight = "post" /\ v.pair = jar /\ v.denied = tab[t].denied
          BY <1>0, <2>0, <3>4 DEF TabState
        <4> HIDE DEF v
        <4>2. /\ tab'[t].flight = "post" /\ tab'[t].pair = jar /\ ~tab'[t].denied
              /\ \A q \in Tab \ {t} : tab'[q] = tab[q]
          BY <1>0, <3>1, <4>1
        <4>3. Undenied'
          BY <4>2 DEF AloneInv, Undenied
        <4>4. ASSUME faults' = 0 PROVE Alone'
          <5>1. faults = 0 /\ lock = NoTab /\ lock' = t /\ Alone
            BY <3>1, <3>2, <3>4, <4>4 DEF AloneInv
          <5>2. \A q \in Tab : ~Asking(q) /\ ~Answer(q)
            BY <1>0, <5>1 DEF Alone, Asking, Answer
          <5>3. jar \notin server.spent
            BY <5>1, <5>2 DEF Alone
          <5>4. \A q \in Tab \ {t} : ~Asking(q)' /\ ~Answer(q)' /\ tab'[q].flight # "post"
            BY <4>2, <5>2 DEF Asking, Answer
          <5>5. ~Answer(t)'
            BY <4>2 DEF Answer
          <5>6. QED
            BY <3>1, <4>2, <5>1, <5>3, <5>4, <5>5 DEF Alone
        <4>5. QED
          BY <4>3, <4>4 DEF AloneInv
      <3>5. QED
        BY <2>7, <3>3, <3>4 DEF GetLock, LockFails
    <2>8. CASE ServerRefresh(t)
      <3> DEFINE n == tab[t].pair
      <3>1. tab[t].flight = "post" /\ UNCHANGED <<jar, lock, faults>> /\ ~tab[t].denied
        BY <2>8 DEF ServerRefresh, AloneInv, Undenied
      <3>2. faults = 0 => \A q \in Tab \ {t} : ~Asking(q) /\ ~Answer(q)
        BY <3>1 DEF AloneInv, Alone, Asking, Answer
      <3>3. CASE n \in server.refresh
        <4> DEFINE u == server.owner[n]
                   v == [tab[t] EXCEPT !.flight = "reply", !.pair = Issued + 1]
        <4>1. /\ server' = [Signed(u) EXCEPT !.refresh = @ \ {n}, !.spent = @ \cup {n}]
              /\ tab' = [tab EXCEPT ![t].flight = "reply", ![t].pair = Len(server'.owner)]
          BY <2>8, <3>3 DEF ServerRefresh
        <4>2. server'.owner = Append(server.owner, u) /\ server'.spent = server.spent \cup {n}
          BY <4>1 DEF Signed, AllTyped, ServerTyped
        <4>3. u \in User
          BY <3>3, ElementOfSeq DEF AllTyped, ServerTyped, Issued
        <4>4. Len(server'.owner) = Issued + 1
          BY <4>2, <4>3, AppendProperties DEF AllTyped, ServerTyped, Issued
        <4>5. tab' = [tab EXCEPT ![t] = v]
          BY <1>0, <2>0, <4>1, <4>4 DEF TabState
        <4>6. v.flight = "reply" /\ v.pair = Issued + 1 /\ v.denied = tab[t].denied
          BY <2>0 DEF TabState
        <4> HIDE DEF v, u
        <4>7. /\ tab'[t].flight = "reply" /\ tab'[t].pair = Issued + 1 /\ ~tab'[t].denied
              /\ \A q \in Tab \ {t} : tab'[q] = tab[q]
          BY <1>0, <3>1, <4>5, <4>6
        <4>8. Undenied'
          BY <4>7 DEF AloneInv, Undenied
        <4>9. Issued + 1 \notin server'.spent
          BY <1>0, <3>3, <4>2 DEF AllTyped, ServerTyped
        <4>10. ASSUME faults' = 0 PROVE Alone'
          <5>1. faults = 0 /\ lock' = t
            BY <3>1, <4>10 DEF AloneInv, Alone, Asking
          <5>2. \A q \in Tab \ {t} : ~Asking(q)' /\ ~Answer(q)' /\ tab'[q].flight # "post"
            BY <3>2, <4>7, <5>1 DEF Asking, Answer
          <5>3. Answer(t)'
            BY <4>7 DEF Answer
          <5>4. QED
            BY <4>7, <4>9, <5>1, <5>2, <5>3 DEF Alone
        <4>11. QED
          BY <4>8, <4>10 DEF AloneInv
      <3>4. CASE n \notin server.refresh
        <4> DEFINE v == [tab[t] EXCEPT !.flight = "reply", !.pair = NoPair, !.denied = TRUE]
        <4>1. tab' = [tab EXCEPT ![t] = v] /\ UNCHANGED server /\ v.flight = "reply" /\ v.denied
          BY <1>0, <2>0, <2>8, <3>4 DEF ServerRefresh, TabState
        <4> HIDE DEF v
        <4>2. /\ tab'[t].flight = "reply" /\ tab'[t].denied
              /\ \A q \in Tab \ {t} : tab'[q] = tab[q]
          BY <1>0, <4>1
        <4>3. Undenied'
          BY <4>2 DEF AloneInv, Undenied
        <4>4. ASSUME faults' = 0 PROVE Alone'
          <5>1. faults = 0 /\ lock' = t /\ Alone
            BY <3>1, <4>4 DEF AloneInv, Alone, Asking
          <5>2. \A q \in Tab \ {t} : ~Asking(q)' /\ ~Answer(q)' /\ tab'[q].flight # "post"
            BY <3>2, <4>2, <5>1 DEF Asking, Answer
          <5>3. jar \notin server.spent
            BY <3>1, <3>2, <5>1 DEF Alone, Answer
          <5>4. ~Answer(t)'
            BY <4>2 DEF Answer
          <5>5. QED
            BY <3>1, <4>1, <4>2, <5>1, <5>2, <5>3, <5>4 DEF Alone
        <4>5. QED
          BY <4>3, <4>4 DEF AloneInv
      <3>5. QED
        BY <3>3, <3>4
    <2>9. CASE RefreshSucceeds(t)
      <3>1. /\ Answer(t) /\ jar' = tab[t].pair /\ Unlock(t) /\ UNCHANGED <<server, faults>>
            /\ tab' = [q \in Tab |-> IF q = t THEN Landed(q) ELSE [tab[q] EXCEPT !.fresh = tab[q].fresh \/ Busy(q)]]
        BY <2>9 DEF RefreshSucceeds, Answer
      <3>2. Away(t)
        BY <3>1 DEF Away, Landed, Quiet
      <3>3. \A q \in Tab \ {t} : Same(q)
        BY <1>0, <3>1 DEF Same, TabState
      <3>4. faults = 0 => jar' \notin server.spent /\ lock = t
        BY <3>1 DEF AloneInv, Alone, Answer, Asking
      <3>5. faults = 0 => \A q \in Tab : Asking(q) => q = t
        BY <3>4 DEF AloneInv, Alone
      <3>6. ~Same(t)
        BY <3>1, <3>2 DEF Same, Away, Answer
      <3>7. \A q \in Tab : Same(q) \/ Away(q)
        BY <3>2, <3>3
      <3>8. faults' = 0 => \A q \in Tab : Same(q) /\ Asking(q) => lock' = lock
        BY <3>1, <3>5, <3>6
      <3>9. QED
        BY <1>0, <3>1, <3>4, <3>7, <3>8, NothingSent
    <2>10. ASSUME LookAgain(t), UNCHANGED <<server, jar>>, faults' = 0 => faults = 0 /\ ~Answer(t)
           PROVE  AloneInv'
      <3>1. UNCHANGED lock /\ tab' = [tab EXCEPT ![t].flight = "again"]
        BY <2>10 DEF LookAgain
      <3>2. Away(t) /\ \A q \in Tab \ {t} : Same(q)
        BY <1>0, <2>0, <3>1 DEF Same, Away, TabState
      <3>3. QED
        BY <2>10, <3>1, <3>2, OneGoesAway
    <2>11. ASSUME Fail(t), UNCHANGED <<server, jar>>, faults' = 0 => faults = 0 /\ ~Answer(t)
           PROVE  AloneInv'
      <3>1. tab' = [tab EXCEPT ![t] = Landed(t)] /\ (lock' = lock \/ (lock = t /\ lock' = NoTab))
        BY <2>11 DEF Fail, Unlock
      <3>2. QED
        BY <2>11, <3>1, LandedAway, OneGoesAway
    <2>12. CASE RefreshDenied(t)
      BY <1>e, <2>10, <2>12 DEF RefreshDenied, Answer
    <2>13. CASE RefreshUnanswered(t)
      <3>1. faults' # 0
        BY <1>0, <2>13, CutOffCounts DEF RefreshUnanswered
      <3>2. QED
        BY <2>10, <2>11, <2>13, <3>1 DEF RefreshUnanswered
    <2>14. CASE SecondLook(t)
      <3>1. /\ ~Answer(t) /\ UNCHANGED <<jar, server, faults>>
            /\ \/ Reuse(t) /\ UNCHANGED lock
               \/ EndSession(t) \/ Fail(t)
        BY <2>14 DEF SecondLook, Answer
      <3>2. ASSUME Reuse(t), UNCHANGED lock PROVE AloneInv'
        <4>1. tab' = [tab EXCEPT ![t] = Landed(t)]
          BY <3>2 DEF Reuse
        <4>2. QED
          BY <3>1, <3>2, <4>1, LandedAway, OneGoesAway
      <3>3. QED
        BY <1>e, <2>11, <3>1, <3>2
    <2>15. QED
      BY <1>2, <2>1, <2>2, <2>3, <2>4, <2>5, <2>6, <2>7, <2>8, <2>9, <2>12, <2>13, <2>14
         DEF TabStep, RefreshGoesOn
  <1>3. QED
    BY <1>1, <1>2 DEF Next

(* For any number of tabs and requests, and as long as every refresh had the lock and
   got its reply: no tab presents a cookie that has been exchanged before, whatever
   logins, logouts and reloads come in between (api.ts, refreshAccessToken).          *)
THEOREM CookiesAreNeverReused == Spec => []NeverReused
  <1>1. ASSUME Init PROVE AloneInv
    <2>1. \A t \in Tab : tab[t].flight = "none" /\ tab[t].denied = FALSE
      BY <1>1 DEF Init, Quiet
    <2>2. server.spent = {}
      BY <1>1 DEF Init
    <2>3. QED
      BY <2>1, <2>2 DEF AloneInv, Undenied, Alone, Asking, Answer
  <1>2. AllTyped /\ AloneInv /\ [Next]_vars => AloneInv'
    <2>1. ASSUME AloneInv, UNCHANGED vars PROVE AloneInv'
      BY <2>1 DEF vars, AloneInv, Undenied, Alone, Asking, Answer
    <2>2. QED
      BY <2>1, AloneSteps
  <1>3. AloneInv => NeverReused
    BY DEF AloneInv, Alone, NeverReused
  <1>4. QED
    BY <1>1, <1>2, <1>3, PairsAlways, PTL DEF Spec

-----------------------------------------------------------------------------
\* What LateTokenIsShared says of tab t.
Late(t) ==
  ~Auth(t)' /\ store'[t].token # NoPair =>
    \/ store'[t].token = store[t].token
    \/ store'[t].token = persisted.token
    \/ CanReuse(t) /\ store'[t].token = shared

(* A refresh that a logout has overtaken writes no token into the cleared store, but
   for the one exception of the property: only Reuse writes one without asking who
   is logged in, and that token is another tab's (api.ts, doRefresh).              *)
THEOREM LateTokensAreShared == Spec => LateTokenIsShared
  <1>1. ASSUME AllTyped, Next, NEW q \in Tab
        PROVE  Late(q)
    <2>0. store \in [Tab -> StoreState] /\ Empty.token = NoPair /\ Empty.user = NoUser
      BY <1>1 DEF AllTyped, StoresTyped, Empty
    <2>s. ASSUME store'[q] = store[q] PROVE Late(q)
      BY <2>s DEF Late
    <2>w. ASSUME NEW t \in Tab, NEW s, store' = [store EXCEPT ![t] = s],
                 t = q => s.user # NoUser \/ s.token \in {NoPair, persisted.token}
                                          \/ (CanReuse(t) /\ s.token = shared)
          PROVE  Late(q)
      <3>1. CASE t = q
        <4>1. store'[q] = s
          BY <2>0, <2>w, <3>1
        <4>2. QED
          BY <2>w, <3>1, <4>1 DEF Late, Auth
      <3>2. CASE t # q
        BY <2>0, <2>s, <2>w, <3>2
      <3>3. QED
        BY <3>1, <3>2
    <2>e. ASSUME NEW t \in Tab, EndSession(t) PROVE Late(q)
      BY <2>0, <2>e, <2>w DEF EndSession
    <2>1. ASSUME NEW r \in Request, RequestStep(r) PROVE Late(q)
      <3>1. Home[r] \in Tab
        BY ClientAssumption
      <3>2. QED
        BY <2>1, <2>e, <2>s, <3>1
           DEF RequestStep, Send, Answered, StartsRefresh, Enqueues, QueueTimesOut, RetryRejected
    <2>2. ASSUME NEW t \in Tab, TabStep(t) PROVE Late(q)
      <3>1. CASE \E u \in User : Login(t, u)
        <4>1. PICK u \in User : Login(t, u)
          BY <3>1
        <4>2. store' = [store EXCEPT ![t] = [user |-> u, token |-> jar']] /\ u # NoUser
          BY <4>1 DEF Login, Write, User, NoUser
        <4>3. QED
          BY <2>w, <4>2
      <3>2. CASE AskLogout(t) \/ SocketRefused(t) \/ ServerRefresh(t)
        BY <2>s, <3>2 DEF AskLogout, SocketRefused, ServerRefresh
      <3>3. CASE FinishLogout(t)
        BY <2>0, <2>w, <3>3 DEF FinishLogout, ClearUserScopedState, Write
      <3>4. CASE StorageEvent(t)
        <4>1. store' = [store EXCEPT ![t] = Empty] \/ UNCHANGED store
          BY <3>4 DEF StorageEvent
        <4>2. QED
          BY <2>0, <2>s, <2>w, <4>1
      <3>5. CASE OpenPage(t)
        BY <2>w, <3>5 DEF OpenPage
      <3>6. ASSUME CanReuse(t), Reuse(t) PROVE Late(q)
        <4> DEFINE s == [store[t] EXCEPT !.token = shared]
        <4>1. store' = [store EXCEPT ![t] = s] /\ s.token = shared
          BY <2>0, <3>6 DEF Reuse, Adopt, Write, StoreState
        <4> HIDE DEF s
        <4>2. QED
          BY <2>w, <3>6, <4>1
      <3>7. CASE GetLock(t) \/ LockFails(t)
        BY <2>s, <3>6, <3>7 DEF GetLock, LockFails
      <3>8. CASE RefreshSucceeds(t)
        <4> DEFINE s == [store[t] EXCEPT !.token = tab[t].pair]
        <4>1. CASE Auth(t) /\ Adopt(t, tab[t].pair)
          <5>1. store' = [store EXCEPT ![t] = s] /\ s.user # NoUser
            BY <2>0, <4>1 DEF Adopt, Write, Auth, StoreState
          <5> HIDE DEF s
          <5>2. QED
            BY <2>w, <5>1
        <4>2. QED
          BY <2>s, <3>8, <4>1 DEF RefreshSucceeds
      <3>9. CASE RefreshDenied(t) \/ RefreshUnanswered(t) \/ SecondLook(t)
        BY <2>e, <2>s, <3>6, <3>9 DEF RefreshDenied, RefreshUnanswered, SecondLook, LookAgain, Fail
      <3>10. QED
        BY <2>2, <3>1, <3>2, <3>3, <3>4, <3>5, <3>7, <3>8, <3>9 DEF TabStep, RefreshGoesOn
    <2>3. QED
      BY <1>1, <2>1, <2>2 DEF Next
  <1>2. AllTyped /\ [Next]_vars => [\A t \in Tab : Late(t)]_vars
    BY <1>1
  <1>3. LateTokenIsShared <=> [][\A t \in Tab : Late(t)]_vars
    BY DEF LateTokenIsShared, Late
  <1>4. QED
    BY <1>2, <1>3, PairsAlways, PTL DEF Spec
=============================================================================
