-------------------------- MODULE Overlaps_proofs ---------------------------
(***************************************************************************)
(* Proofs about the components of MCOverlaps: Registration, Mail, SignIn,  *)
(* Setup, RoleDialog, FilePreview and Transfer, for any number of requests,*)
(* mails, sign-ins, setups, roles, codes, clicks and images, for any limits*)
(* and for files and headers of any size; and about all of them composed.  *)
(***************************************************************************)
EXTENDS MCOverlaps, Operations_proofs, Presence_proofs, FiniteSetTheorems, TLAPS

-----------------------------------------------------------------------------
LEMMA AtMostOne ==
  ASSUME NEW S, \A x, y \in S : x = y
  PROVE  Cardinality(S) \in {0, 1}
  <1>1. CASE S = {}
    BY <1>1, FS_EmptySet
  <1>2. CASE S # {}
    <2>1. PICK x \in S : S = {x}
      BY <1>2
    <2>2. QED
      BY <2>1, FS_Singleton
  <1>3. QED
    BY <1>1, <1>2

-----------------------------------------------------------------------------
(* Codes.  A code that somebody holds is neither in Redis nor used, and a
   number above the last one sent is nowhere yet.                              *)
Holding == {"wrong", "clear", "select", "insert", "putBack"}

RequestsTyped ==
  /\ request \in [Request -> RequestState]
  /\ \A q \in Request : request[q].held # 0 <=> request[q].pc \in Holding

CodesTyped ==
  /\ code \in 0..MaxCode /\ sent \in 0..MaxCode
  /\ served \in [1..MaxCode -> 0..2]

OnlySent ==
  /\ code <= sent
  /\ \A q \in Request : request[q].held <= sent
  /\ \A c \in 1..MaxCode : served[c] # 0 => c <= sent

OnePlace ==
  /\ \A p, q \in Request : request[p].held = request[q].held /\ request[p].held # 0 => p = q
  /\ \A q \in Request : request[q].held # 0 =>
       code # request[q].held /\ served[request[q].held] = 0
  /\ code # 0 => served[code] = 0
  /\ \A c \in 1..MaxCode : served[c] <= 1

CodeInv == RequestsTyped /\ CodesTyped /\ OnlySent /\ OnePlace

LEMMA OnePlaceIsOnce == ASSUME CodeInv PROVE CodeOnce
  <1> SUFFICES ASSUME NEW c \in 1..MaxCode PROVE Places(c) <= 1
    BY DEF CodeOnce
  <1> DEFINE holders == {q \in Request : request[q].held = c}
  <1>1. \A p, q \in holders : p = q
    BY RegistrationAssumption DEF CodeInv, OnePlace
  <1>2. Cardinality(holders) \in {0, 1}
    BY <1>1, AtMostOne
  <1>3. holders = {} => Cardinality(holders) = 0
    BY FS_EmptySet
  <1>4. holders # {} => code # c /\ served[c] = 0
    BY RegistrationAssumption DEF CodeInv, OnePlace
  <1>5. served[c] \in {0, 1} /\ (code = c => served[c] = 0)
    BY RegistrationAssumption DEF CodeInv, OnePlace, CodesTyped
  <1> HIDE DEF holders
  <1>6. Places(c) = Cardinality(holders) + (IF code = c THEN 1 ELSE 0) + served[c]
    BY DEF Places, holders
  <1>7. QED
    BY <1>2, <1>3, <1>4, <1>5, <1>6

\* A request that writes its own record: what it holds was its own, or what Redis had,
\* which is gone from there.
LEMMA OwnRequest ==
  ASSUME CodeInv, NEW q \in Request, NEW s \in RequestState,
         request' = [request EXCEPT ![q] = s], s.held # 0 <=> s.pc \in Holding,
         UNCHANGED <<sent, served>>,
         \/ s.held \in {0, request[q].held} /\ code' \in {0, code}
         \/ s.held = code /\ code' = 0
         \/ s.held = 0 /\ code' = request[q].held
  PROVE  CodeInv'
  <1>0. RequestsTyped /\ CodesTyped /\ OnlySent /\ OnePlace /\ MaxCode \in Nat
    BY RegistrationAssumption DEF CodeInv
  <1>1. \A p \in Request : request'[p] = IF p = q THEN s ELSE request[p]
    BY <1>0 DEF RequestsTyped
  <1>2. request[q].held \in 0..MaxCode /\ s.held \in 0..MaxCode
    BY <1>0 DEF RequestsTyped, RequestState
  <1>3. RequestsTyped'
    BY <1>0, <1>1 DEF RequestsTyped
  <1>4. CodesTyped'
    BY <1>0, <1>2 DEF CodesTyped
  <1>5. OnlySent'
    BY <1>0, <1>1, <1>2 DEF OnlySent, CodesTyped
  <1>6. OnePlace'
    BY <1>0, <1>1, <1>2 DEF OnePlace, CodesTyped
  <1>7. QED
    BY <1>3, <1>4, <1>5, <1>6 DEF CodeInv

LEMMA CodeSentStep ==
  ASSUME CodeInv, sent < MaxCode, sent' = sent + 1, code' \in {code, sent'},
         UNCHANGED <<request, served>>
  PROVE  CodeInv'
  <1>0. RequestsTyped /\ CodesTyped /\ OnlySent /\ OnePlace /\ MaxCode \in Nat
    BY RegistrationAssumption DEF CodeInv
  <1>1. \A q \in Request : request[q].held \in 0..MaxCode
    BY <1>0 DEF RequestsTyped, RequestState
  <1>2. RequestsTyped' /\ CodesTyped'
    BY <1>0 DEF RequestsTyped, CodesTyped
  <1>3. OnlySent'
    BY <1>0, <1>1 DEF OnlySent, CodesTyped
  <1>4. OnePlace'
    BY <1>0, <1>1 DEF OnePlace, OnlySent, CodesTyped
  <1>5. QED
    BY <1>2, <1>3, <1>4 DEF CodeInv

LEMMA InsertStep ==
  ASSUME CodeInv, NEW q \in Request, InsertUser(q)
  PROVE  CodeInv'
  <1>0. /\ RequestsTyped /\ CodesTyped /\ OnlySent /\ OnePlace /\ MaxCode \in Nat
        /\ request[q] \in RequestState /\ request[q].pc = "insert"
    BY RegistrationAssumption DEF CodeInv, InsertUser, RequestsTyped
  <1>1. CASE owner = "nobody"
    <2>1. request[q].held \in 1..MaxCode
      BY <1>0 DEF RequestsTyped, RequestState, Holding
    <2>2. NoRequest \in RequestState /\ NoRequest.held = 0 /\ NoRequest.pc \notin Holding
      BY <1>0 DEF NoRequest, RequestState, Holding, Held
    <2>3. \A p \in Request : request'[p] = IF p = q THEN NoRequest ELSE request[p]
      BY <1>0, <1>1 DEF InsertUser, Leaves, RequestsTyped
    <2>4. served[request[q].held] = 0
      BY <1>0, <2>1 DEF OnePlace
    <2>5. served' \in [1..MaxCode -> 0..2]
          /\ \A c \in 1..MaxCode : served'[c] = IF c = request[q].held THEN 1 ELSE served[c]
      BY <1>0, <1>1, <2>1, <2>4 DEF InsertUser, CodesTyped
    <2>6. RequestsTyped'
      BY <1>0, <1>1, <2>2, <2>3 DEF InsertUser, Leaves, RequestsTyped
    <2>7. CodesTyped' /\ OnlySent'
      BY <1>0, <2>1, <2>2, <2>3, <2>5 DEF InsertUser, CodesTyped, OnlySent
    <2>8. \A p \in Request : request[p].held \in 0..MaxCode
      BY <1>0 DEF RequestsTyped, RequestState
    <2>9. OnePlace'
      BY <1>0, <2>1, <2>2, <2>3, <2>5, <2>8 DEF InsertUser, OnePlace, CodesTyped
    <2>10. QED
      BY <2>6, <2>7, <2>9 DEF CodeInv
  <1>2. CASE owner # "nobody"
    <2> DEFINE s == [request[q] EXCEPT !.pc = "putBack"]
    <2>1. s \in RequestState /\ s.held = request[q].held /\ s.pc = "putBack"
      BY <1>0 DEF RequestState, Held
    <2>2. request' = [request EXCEPT ![q] = s]
      BY <1>0, <1>2 DEF InsertUser, To
    <2> HIDE DEF s
    <2>3. s.held # 0 <=> s.pc \in Holding
      BY <1>0, <2>1 DEF RequestsTyped, Holding
    <2>4. QED
      BY <1>2, <2>1, <2>2, <2>3, OwnRequest DEF InsertUser
  <1>3. QED
    BY <1>1, <1>2

LEMMA ToStep ==
  ASSUME CodeInv, NEW q \in Request, NEW pc \in {"idle", "take", "drop", "reset"} \cup Held,
         pc \in Holding <=> request[q].pc \in Holding, To(q, pc),
         UNCHANGED <<sent, served>>, code' \in {0, code}
  PROVE  CodeInv'
  <1> DEFINE s == [request[q] EXCEPT !.pc = pc]
  <1>1. request[q] \in RequestState /\ (request[q].held # 0 <=> request[q].pc \in Holding)
    BY DEF CodeInv, RequestsTyped
  <1>2. s \in RequestState /\ s.held = request[q].held /\ s.pc = pc
    BY <1>1 DEF RequestState
  <1>3. request' = [request EXCEPT ![q] = s]
    BY DEF To
  <1> HIDE DEF s
  <1>4. QED
    BY <1>1, <1>2, <1>3, OwnRequest

LEMMA LeaveStep ==
  ASSUME CodeInv, NEW q \in Request, Leaves(q), UNCHANGED <<sent, served>>,
         code' \in {0, code, request[q].held}
  PROVE  CodeInv'
  <1>1. NoRequest \in RequestState /\ NoRequest.held = 0 /\ NoRequest.pc \notin Holding
    BY RegistrationAssumption DEF NoRequest, RequestState, Holding, Held
  <1>2. QED
    BY <1>1, OwnRequest DEF Leaves

LEMMA RequestStep ==
  ASSUME CodeInv, NEW q \in Request,
         \/ \E c \in 1..MaxCode : Ask(q, c)
         \/ Take(q) \/ PutWrongBack(q) \/ Count(q) \/ DropCode(q) \/ ClearGuesses(q)
         \/ Precheck(q) \/ InsertUser(q) \/ InsertUserFails(q) \/ PutBack(q) \/ Broken(q)
  PROVE  CodeInv'
  <1>0. /\ request[q] \in RequestState /\ code \in 0..MaxCode /\ MaxCode \in Nat
        /\ (request[q].held # 0 <=> request[q].pc \in Holding)
    BY RegistrationAssumption DEF CodeInv, RequestsTyped, CodesTyped
  <1>1. ASSUME NEW c \in 1..MaxCode, Ask(q, c) PROVE CodeInv'
    <2> DEFINE s == [pc |-> "take", said |-> c, held |-> 0]
    <2>1. s \in RequestState /\ s.held = 0 /\ s.pc \notin Holding
      BY <1>0 DEF RequestState, Holding
    <2> HIDE DEF s
    <2>2. request' = [request EXCEPT ![q] = s]
      BY <1>1 DEF Ask, s
    <2>3. QED
      BY <1>1, <2>1, <2>2, OwnRequest DEF Ask
  <1>2. CASE Take(q)
    <2>1. PICK pc \in {"count", "clear", "wrong"} :
            /\ request' = [request EXCEPT ![q] = [request[q] EXCEPT !.held = code, !.pc = pc]]
            /\ pc = "count" <=> code = 0
      BY <1>2 DEF Take, Compared
    <2> DEFINE s == [request[q] EXCEPT !.held = code, !.pc = pc]
    <2>2. request' = [request EXCEPT ![q] = s]
      BY <2>1
    <2>3. s \in RequestState /\ s.held = code /\ s.pc = pc /\ (code # 0 <=> pc \in Holding)
      BY <1>0, <2>1 DEF RequestState, Holding, Held
    <2> HIDE DEF s
    <2>4. QED
      BY <1>2, <2>1, <2>2, <2>3, OwnRequest DEF Take
  <1>3. CASE PutWrongBack(q)
    <2> DEFINE s == [request[q] EXCEPT !.pc = "count", !.held = 0]
    <2>1. s \in RequestState
      <3>1. "count" \in Held /\ 0 \in 0..MaxCode
        BY <1>0 DEF Held
      <3>2. QED
        BY <1>0, <3>1 DEF RequestState
    <2>2. s.held = 0 /\ s.pc \notin Holding
      BY <1>0 DEF RequestState, Holding
    <2>3. request' = [request EXCEPT ![q] = s]
      BY <1>3 DEF PutWrongBack
    <2> HIDE DEF s
    <2>4. QED
      BY <1>3, <2>1, <2>2, <2>3, OwnRequest DEF PutWrongBack
  <1>4. CASE Count(q)
    <2>1. CASE To(q, "drop")
      BY <1>4, <2>1, ToStep DEF Count, Holding
    <2>2. CASE Leaves(q)
      BY <1>4, <2>2, LeaveStep DEF Count
    <2>3. QED
      BY <1>4, <2>1, <2>2 DEF Count
  <1>5. CASE DropCode(q)
    <2>1. CASE To(q, "reset") /\ request[q].pc = "drop"
      BY <1>5, <2>1, ToStep DEF DropCode, Holding
    <2>2. CASE Leaves(q)
      BY <1>5, <2>2, LeaveStep DEF DropCode
    <2>3. QED
      BY <1>5, <2>1, <2>2 DEF DropCode
  <1>6. CASE ClearGuesses(q)
    BY <1>6, ToStep DEF ClearGuesses, Holding, Held
  <1>7. CASE Precheck(q)
    <2>1. request[q].pc = "select" /\ UNCHANGED <<code, sent, served>>
      BY <1>7 DEF Precheck
    <2>2. CASE To(q, "insert")
      BY <2>1, <2>2, ToStep DEF Holding, Held
    <2>3. CASE To(q, "putBack")
      BY <2>1, <2>3, ToStep DEF Holding, Held
    <2>4. QED
      BY <1>7, <2>2, <2>3 DEF Precheck
  <1>8. CASE InsertUser(q)
    BY <1>8, InsertStep
  <1>9. CASE InsertUserFails(q)
    BY <1>9, ToStep DEF InsertUserFails, Holding, Held
  <1>10. CASE PutBack(q)
    BY <1>10, LeaveStep DEF PutBack
  <1>11. CASE Broken(q)
    BY <1>11, LeaveStep DEF Broken
  <1>12. QED
    BY <1>1, <1>2, <1>3, <1>4, <1>5, <1>6, <1>7, <1>8, <1>9, <1>10, <1>11

LEMMA CodeInductive == CodeSpec => []CodeInv
  <1>1. CodeInit => CodeInv
    <2> SUFFICES ASSUME CodeInit PROVE CodeInv
      OBVIOUS
    <2>1. NoRequest \in RequestState /\ NoRequest.held = 0 /\ NoRequest.pc \notin Holding
      BY RegistrationAssumption DEF NoRequest, RequestState, Holding, Held
    <2>2. QED
      BY <2>1, RegistrationAssumption
      DEF CodeInit, CodeInv, RequestsTyped, CodesTyped, OnlySent, OnePlace
  <1>2. CodeInv /\ [CodeNext]_codeVars => CodeInv'
    <2> SUFFICES ASSUME CodeInv, [CodeNext]_codeVars PROVE CodeInv'
      OBVIOUS
    <2>0. RequestsTyped /\ CodesTyped /\ OnlySent /\ OnePlace
      BY DEF CodeInv
    <2>1. CASE SendCode \/ SendCodeFails
      BY <2>1, CodeSentStep DEF SendCode, SendCodeFails
    <2>2. CASE UNCHANGED <<request, sent, served>> /\ code' \in {0, code}
      <3>1. RequestsTyped' /\ CodesTyped' /\ OnlySent' /\ OnePlace'
        BY <2>0, <2>2, RegistrationAssumption
        DEF RequestsTyped, CodesTyped, OnlySent, OnePlace
      <3>2. QED
        BY <3>1 DEF CodeInv
    <2>3. CASE OtherAccount \/ AccountGoes \/ TimePasses \/ UNCHANGED codeVars
      BY <2>2, <2>3 DEF OtherAccount, AccountGoes, TimePasses, codeVars
    <2>4. QED
      BY <2>1, <2>3, RequestStep DEF CodeNext
  <1>3. QED
    BY <1>1, <1>2, PTL DEF CodeSpec

(* However many requests take a code, put it back, fail and meet a newer one, a code
   is in one place, or it has made one account.                                    *)
THEOREM CodesServeOnce == CodeSpec => []CodeOnce
  <1>1. CodeInv => CodeOnce
    BY OnePlaceIsOnce
  <1>2. QED
    BY <1>1, CodeInductive, PTL

-----------------------------------------------------------------------------
(* Mails.  While Redis answers and no lock runs out, whoever has the address's lock
   is alone under delivery.                                                       *)
AloneUnderLock ==
  /\ \A k, l \in UnderDelivery : k = l
  /\ UnderDelivery # {} => mailLock

MailInv ==
  /\ letter \in [Letter -> {"none", "lock", "send", "release"}]
  /\ mailFaults \in Nat
  /\ mailFaults = 0 => overrun \/ AloneUnderLock

LEMMA MailInductive == MailSpec => []MailInv
  <1>1. MailInit => MailInv
    <2> SUFFICES ASSUME MailInit PROVE MailInv
      OBVIOUS
    <2>1. UnderDelivery = {}
      BY DEF MailInit, UnderDelivery
    <2>2. AloneUnderLock
      BY <2>1 DEF AloneUnderLock
    <2>3. QED
      BY <2>2 DEF MailInit, MailInv
  <1>2. MailInv /\ [MailNext]_mailVars => MailInv'
    <2> SUFFICES ASSUME MailInv, [MailNext]_mailVars PROVE MailInv'
      OBVIOUS
    <2>0. letter \in [Letter -> {"none", "lock", "send", "release"}] /\ mailFaults \in Nat
      BY DEF MailInv
    <2>1. CASE MailFault
      <3>1. mailFaults' \in Nat /\ mailFaults' # 0
        BY <2>0, <2>1 DEF MailFault
      <3>2. letter' \in [Letter -> {"none", "lock", "send", "release"}]
        BY <2>0, <2>1 DEF MailNext, MailFault, Post, TakeMailLock, MailLockFails, Deliver, DeliverFails,
           ReleaseMailLock, MailLockEnds, LetterGoes, mailVars
      <3>3. QED
        BY <3>1, <3>2 DEF MailInv
    <2>2. CASE mailFaults' = mailFaults
      <3>1. ASSUME NEW l \in Letter, \/ Post(l) \/ TakeMailLock(l) \/ Deliver(l) \/ DeliverFails(l)
                                     \/ ReleaseMailLock(l)
            PROVE  letter' \in [Letter -> {"none", "lock", "send", "release"}]
                   /\ overrun' = overrun /\ (AloneUnderLock => AloneUnderLock')
        <4>1. ReleaseMailLock(l) => mailLock' = FALSE
          BY <2>0, <2>2 DEF ReleaseMailLock, MailFault
        <4>2. CASE Post(l) \/ Deliver(l) \/ DeliverFails(l)
          <5>1. UnderDelivery' \subseteq UnderDelivery /\ mailLock' = mailLock /\ overrun' = overrun
            BY <2>0, <4>2 DEF Post, Deliver, DeliverFails, LetterGoes, UnderDelivery
          <5>2. letter' \in [Letter -> {"none", "lock", "send", "release"}]
            BY <2>0, <4>2 DEF Post, Deliver, DeliverFails, LetterGoes
          <5>3. QED
            BY <5>1, <5>2 DEF AloneUnderLock
        <4>3. CASE TakeMailLock(l)
          <5>1. letter' \in [Letter -> {"none", "lock", "send", "release"}] /\ overrun' = overrun
            BY <2>0, <4>3 DEF TakeMailLock, LetterGoes
          <5>2. mailLock' /\ UnderDelivery' = IF mailLock THEN UnderDelivery ELSE UnderDelivery \cup {l}
            BY <2>0, <4>3 DEF TakeMailLock, LetterGoes, UnderDelivery
          <5>3. QED
            BY <5>1, <5>2 DEF AloneUnderLock
        <4>4. CASE ReleaseMailLock(l)
          <5>1. letter' \in [Letter -> {"none", "lock", "send", "release"}] /\ overrun' = overrun
            BY <2>0, <4>4 DEF ReleaseMailLock, LetterGoes
          <5>2. UnderDelivery' = UnderDelivery \ {l} /\ l \in UnderDelivery
            BY <2>0, <4>4 DEF ReleaseMailLock, LetterGoes, UnderDelivery
          <5>3. QED
            BY <5>1, <5>2, <4>1, <4>4 DEF AloneUnderLock
        <4>5. QED
          BY <3>1, <4>2, <4>3, <4>4
      <3>2. CASE MailLockEnds
        BY <2>0, <3>2 DEF MailLockEnds, MailInv, AloneUnderLock, UnderDelivery
      <3>3. CASE UNCHANGED mailVars
        BY <3>3 DEF mailVars, MailInv, AloneUnderLock, UnderDelivery
      <3>4. ASSUME NEW l \in Letter PROVE ~MailLockFails(l)
        <4>1. MailLockFails(l) => MailFault
          BY DEF MailLockFails
        <4>2. QED
          BY <2>0, <2>2, <4>1 DEF MailFault
      <3>5. QED
        BY <2>0, <2>2, <3>1, <3>2, <3>3, <3>4 DEF MailNext, MailInv
    <2>3. QED
      BY <2>1, <2>2 DEF MailNext, mailVars, Post, TakeMailLock, MailLockFails, Deliver, DeliverFails,
         ReleaseMailLock, MailLockEnds
  <1>3. QED
    BY <1>1, <1>2, PTL DEF MailSpec

(* Of the mails to one address no two are under way at a time, unless Redis fails or
   the lock runs out under one of them.                                            *)
THEOREM MailsGoOneByOne == MailSpec => []MailOnce
  <1>1. MailInv => MailOnce
    BY AtMostOne DEF MailInv, AloneUnderLock, MailOnce
  <1>2. QED
    BY <1>1, MailInductive, PTL

-----------------------------------------------------------------------------
(* Sign-ins.  What the counter has let through is no more than it counts, and no
   more than the limit; the counter's own cap lies above the limit.              *)
Admitted == {l \in Login : login[l].pc = "verify" /\ login[l].counted}

LoginsTyped ==
  /\ login \in [Login -> LoginState]
  /\ \A l \in Login : login[l].counted => login[l].pc \in {"verify", "clear"}

Throttled ==
  /\ tries \in 0..MaxTries /\ failed \in Nat
  /\ IsFiniteSet(Admitted)
  /\ failed + Cardinality(Admitted) <= tries
  /\ failed + Cardinality(Admitted) <= LoginLimit

ScannedOnce ==
  /\ qrStates \subseteq QrState /\ scanned \in [QrState -> 0..1]
  /\ \A q \in qrStates : scanned[q] = 0

SignInInv == LoginsTyped /\ Throttled /\ ScannedOnce

\* A sign-in writes its own record and does not become a counted one.
LEMMA LoginMoves ==
  ASSUME LoginsTyped, Throttled, NEW l \in Login, NEW s \in LoginState,
         login' = [login EXCEPT ![l] = s], s.counted => login[l].counted /\ s.pc \in {"verify", "clear"},
         s.pc = "verify" /\ s.counted => l \in Admitted,
         failed' = failed, tries' \in 0..MaxTries, tries' >= tries
  PROVE  LoginsTyped' /\ Throttled'
  <1>1. LoginsTyped' /\ \A k \in Login : login'[k] = IF k = l THEN s ELSE login[k]
    BY DEF LoginsTyped
  <1>2. Admitted' \subseteq Admitted
    BY <1>1 DEF Admitted
  <1>3. IsFiniteSet(Admitted') /\ Cardinality(Admitted') <= Cardinality(Admitted)
        /\ Cardinality(Admitted') \in Nat /\ Cardinality(Admitted) \in Nat
    BY <1>2, FS_Subset, FS_CardinalityType DEF Throttled
  <1>4. tries \in Int /\ tries' \in Int /\ LoginLimit \in Int
    BY SignInAssumption DEF Throttled
  <1>5. Throttled'
    BY <1>3, <1>4 DEF Throttled
  <1>6. QED
    BY <1>1, <1>5

LEMMA LoginStepTyped ==
  ASSUME LoginsTyped, NEW l \in Login, NEW pc \in {"idle", "verify", "clear", "exchange", "create"}
  PROVE  /\ [login[l] EXCEPT !.pc = pc] \in LoginState
         /\ [login[l] EXCEPT !.pc = pc].pc = pc
         /\ [login[l] EXCEPT !.pc = pc].counted = login[l].counted
  BY DEF LoginsTyped, LoginState

LEMMA NoLoginTyped == NoLogin \in LoginState /\ ~NoLogin.counted
  BY DEF LoginState, NoLogin

LEMMA LoginEnds ==
  ASSUME LoginsTyped, Throttled, NEW l \in Login, SignedOff(l), tries' = tries, failed' = failed
  PROVE  LoginsTyped' /\ Throttled'
  <1>1. tries' \in 0..MaxTries /\ tries' >= tries
    BY SignInAssumption DEF Throttled
  <1>2. login' = [login EXCEPT ![l] = NoLogin]
    BY DEF SignedOff
  <1>3. QED
    BY <1>1, <1>2, NoLoginTyped, LoginMoves

\* The counter is gone, and nobody counted by it is left.
LEMMA CounterReset ==
  ASSUME LoginsTyped, tries' = 0, failed' = 0, login' \in [Login -> LoginState],
         \A l \in Login : ~login'[l].counted
  PROVE  LoginsTyped' /\ Throttled'
  <1>1. Admitted' = {}
    BY DEF Admitted
  <1>2. IsFiniteSet({}) /\ Cardinality({}) = 0
    BY FS_EmptySet
  <1>3. QED
    BY <1>1, <1>2, SignInAssumption DEF LoginsTyped, Throttled

LEMMA EnforceStep ==
  ASSUME LoginsTyped, Throttled, NEW l \in Login, Enforce(l)
  PROVE  LoginsTyped' /\ Throttled'
  <1>0. /\ tries' \in 0..MaxTries /\ tries' >= tries
        /\ tries' <= LoginLimit => tries' = tries + 1
        /\ tries \in Nat /\ failed' = failed /\ failed \in Nat /\ LoginLimit \in Nat
    BY SignInAssumption DEF Enforce, Throttled
  <1>1. CASE tries' <= LoginLimit
    <2> DEFINE s == [pc |-> "verify", counted |-> TRUE]
    <2>1. s \in LoginState /\ s.pc = "verify" /\ s.counted
      BY DEF LoginState
    <2>2. login' = [login EXCEPT ![l] = s] /\ login[l].pc = "idle"
      BY <1>1 DEF Enforce
    <2> HIDE DEF s
    <2>3. \A k \in Login : login'[k] = IF k = l THEN s ELSE login[k]
      BY <2>2 DEF LoginsTyped
    <2>4. LoginsTyped'
      BY <2>1, <2>2, <2>3 DEF LoginsTyped
    <2>5. Admitted' = Admitted \cup {l} /\ l \notin Admitted
      BY <2>1, <2>2, <2>3 DEF Admitted
    <2>6. /\ IsFiniteSet(Admitted') /\ Cardinality(Admitted') = Cardinality(Admitted) + 1
          /\ Cardinality(Admitted) \in Nat
      BY <2>5, FS_AddElement, FS_CardinalityType DEF Throttled
    <2>7. Throttled'
      BY <1>0, <1>1, <2>6 DEF Throttled
    <2>8. QED
      BY <2>4, <2>7
  <1>2. CASE ~(tries' <= LoginLimit)
    <2>1. login' = login
      BY <1>2 DEF Enforce
    <2>2. Admitted' = Admitted
      BY <2>1 DEF Admitted
    <2>3. Cardinality(Admitted) \in Nat
      BY FS_CardinalityType DEF Throttled
    <2>4. QED
      BY <1>0, <2>1, <2>2, <2>3 DEF LoginsTyped, Throttled
  <1>3. QED
    BY <1>1, <1>2

LEMMA WrongStep ==
  ASSUME LoginsTyped, Throttled, NEW l \in Login, VerifyWrong(l)
  PROVE  LoginsTyped' /\ Throttled'
  <1>0. /\ login' = [login EXCEPT ![l] = NoLogin] /\ tries' = tries
        /\ tries \in Nat /\ failed \in Nat /\ LoginLimit \in Nat /\ tries \in 0..MaxTries
        /\ login[l].pc = "verify" /\ NoLogin \in LoginState /\ ~NoLogin.counted
    BY NoLoginTyped, SignInAssumption DEF VerifyWrong, SignedOff, Throttled
  <1>1. CASE login[l].counted
    <2>1. \A k \in Login : login'[k] = IF k = l THEN NoLogin ELSE login[k]
      BY <1>0 DEF LoginsTyped
    <2>2. LoginsTyped'
      BY <1>0, <2>1 DEF LoginsTyped
    <2>3. Admitted' = Admitted \ {l} /\ l \in Admitted
      BY <1>0, <1>1, <2>1 DEF Admitted
    <2>4. /\ IsFiniteSet(Admitted') /\ Cardinality(Admitted') = Cardinality(Admitted) - 1
          /\ Cardinality(Admitted) \in Nat /\ Cardinality(Admitted') \in Nat
      BY <2>3, FS_RemoveElement, FS_CardinalityType DEF Throttled
    <2>5. failed' = failed + 1
      BY <1>1 DEF VerifyWrong
    <2>6. Throttled'
      BY <1>0, <2>4, <2>5 DEF Throttled
    <2>7. QED
      BY <2>2, <2>6
  <1>2. CASE ~login[l].counted
    BY <1>0, <1>2, LoginEnds DEF VerifyWrong
  <1>3. QED
    BY <1>1, <1>2

LEMMA ClearStep ==
  ASSUME LoginsTyped, Throttled, NEW l \in Login, ClearFailures(l)
  PROVE  LoginsTyped' /\ Throttled'
  <1>0. NoLogin \in LoginState /\ ~NoLogin.counted
    BY NoLoginTyped
  <1>1. CASE SignedOff(l) /\ UNCHANGED lockVars
    BY <1>1, LoginEnds DEF lockVars
  <1>2. CASE /\ tries' = 0 /\ failed' = 0
             /\ login' = [k \in Login |-> IF k = l THEN NoLogin ELSE [login[k] EXCEPT !.counted = FALSE]]
    <2>1. \A k \in Login : [login[k] EXCEPT !.counted = FALSE] \in LoginState
                           /\ ~[login[k] EXCEPT !.counted = FALSE].counted
      BY DEF LoginsTyped, LoginState
    <2>2. login' \in [Login -> LoginState] /\ \A k \in Login : ~login'[k].counted
      BY <1>0, <1>2, <2>1
    <2>3. QED
      BY <1>2, <2>2, CounterReset
  <1>3. QED
    BY <1>1, <1>2 DEF ClearFailures

LEMMA LoginKept ==
  ASSUME LoginsTyped, Throttled, UNCHANGED <<login, tries, failed>>
  PROVE  LoginsTyped' /\ Throttled'
  <1>1. Admitted' = Admitted
    BY DEF Admitted
  <1>2. QED
    BY <1>1 DEF LoginsTyped, Throttled

LEMMA LoginStep ==
  ASSUME SignInInv, [SignInNext]_signInVars
  PROVE  LoginsTyped' /\ Throttled'
  <1>0. LoginsTyped /\ Throttled /\ tries \in 0..MaxTries /\ MaxTries \in Nat /\ tries \in Nat
    BY SignInAssumption DEF SignInInv, Throttled
  <1>1. ASSUME NEW l \in Login, NEW pc \in {"verify", "clear", "exchange", "create"},
               pc = "clear" => login[l].pc = "verify", pc # "clear" => ~login[l].counted,
               Step(l, pc), failed' = failed,
               tries' \in {tries, IF tries < MaxTries THEN tries + 1 ELSE tries}
        PROVE  LoginsTyped' /\ Throttled'
    <2> DEFINE s == [login[l] EXCEPT !.pc = pc]
    <2>1. s \in LoginState /\ s.pc = pc /\ s.counted = login[l].counted
      BY <1>0, <1>1, LoginStepTyped, ZenonT(40)
    <2>2. login' = [login EXCEPT ![l] = s]
      BY <1>1 DEF Step
    <2> HIDE DEF s
    <2>3. tries' \in 0..MaxTries /\ tries' >= tries
      BY <1>0, <1>1
    <2>4. /\ s.counted => login[l].counted /\ s.pc \in {"verify", "clear"}
          /\ s.pc = "verify" /\ s.counted => l \in Admitted
      BY <1>1, <2>1
    <2>5. QED
      BY <1>0, <1>1, <2>1, <2>2, <2>3, <2>4, LoginMoves
  <1>2. ASSUME NEW l \in Login, EnforceFails(l) PROVE LoginsTyped' /\ Throttled'
    <2>1. login[l].pc = "idle" /\ ~login[l].counted
      BY <1>0, <1>2 DEF EnforceFails, LoginsTyped
    <2>2. QED
      BY <1>1, <1>2, <2>1 DEF EnforceFails
  <1>3. ASSUME NEW l \in Login, VerifyRight(l) PROVE LoginsTyped' /\ Throttled'
    BY <1>1, <1>3 DEF VerifyRight, lockVars
  <1>4. ASSUME NEW l \in Login, NEW q, Scan(l, q) PROVE LoginsTyped' /\ Throttled'
    <2>1. login[l].pc = "idle" /\ ~login[l].counted
      BY <1>0, <1>4 DEF Scan, LoginsTyped
    <2>2. QED
      BY <1>1, <1>4, <2>1 DEF Scan, lockVars
  <1>5. ASSUME NEW l \in Login, SignedOff(l), UNCHANGED lockVars PROVE LoginsTyped' /\ Throttled'
    BY <1>0, <1>5, LoginEnds DEF lockVars
  <1>6. ASSUME NEW l \in Login, FindUser(l) PROVE LoginsTyped' /\ Throttled'
    <2>1. login[l].pc = "exchange" /\ ~login[l].counted
      BY <1>0, <1>6 DEF FindUser, LoginsTyped
    <2>2. CASE Step(l, "create")
      BY <1>1, <1>6, <2>1, <2>2 DEF FindUser, lockVars
    <2>3. QED
      BY <1>5, <1>6, <2>2 DEF FindUser
  <1>7. ASSUME NEW l \in Login, CreateUser(l) PROVE LoginsTyped' /\ Throttled'
    BY <1>5, <1>7 DEF CreateUser
  <1>8. CASE CounterExpires
    <2>1. \A k \in Login : [login[k] EXCEPT !.counted = FALSE] \in LoginState
                           /\ ~[login[k] EXCEPT !.counted = FALSE].counted
      BY <1>0 DEF LoginsTyped, LoginState
    <2>2. login' \in [Login -> LoginState] /\ \A k \in Login : ~login'[k].counted
      BY <1>8, <2>1 DEF CounterExpires, CounterGone
    <2>3. QED
      BY <1>0, <1>8, <2>2, CounterReset DEF CounterExpires, CounterGone
  <1>9. CASE \/ \E q \in QrState : GetQrCode(q) \/ QrExpires(q)
             \/ AdminChangesUser \/ UNCHANGED signInVars
    BY <1>0, <1>9, LoginKept DEF GetQrCode, QrExpires, AdminChangesUser, signInVars, lockVars
  <1>10. QED
    BY <1>0, <1>2, <1>3, <1>4, <1>5, <1>6, <1>7, <1>8, <1>9, EnforceStep, WrongStep, ClearStep DEF SignInNext

LEMMA ScanStep ==
  ASSUME ScannedOnce, [SignInNext]_signInVars
  PROVE  ScannedOnce'
  <1>1. CASE \E q \in QrState : qrStates' = qrStates \cup {q} /\ scanned[q] = 0 /\ scanned' = scanned
    BY <1>1 DEF ScannedOnce
  <1>2. CASE \E q \in QrState : qrStates' = qrStates \ {q} /\ scanned' = scanned
    BY <1>2 DEF ScannedOnce
  <1>3. ASSUME NEW q \in qrStates, qrStates' = qrStates \ {q}, scanned' = [scanned EXCEPT ![q] = @ + 1]
        PROVE  ScannedOnce'
    <2>1. q \in QrState /\ scanned[q] = 0
      BY <1>3 DEF ScannedOnce
    <2>2. scanned' \in [QrState -> 0..1] /\ \A p \in QrState \ {q} : scanned'[p] = scanned[p]
      BY <1>3, <2>1 DEF ScannedOnce
    <2>3. QED
      BY <1>3, <2>2 DEF ScannedOnce
  <1>4. CASE qrStates' = qrStates /\ scanned' = scanned
    BY <1>4 DEF ScannedOnce
  <1>5. ASSUME NEW l \in Login, NEW q, Scan(l, q) PROVE ScannedOnce'
    BY <1>3, <1>4, <1>5 DEF Scan
  <1>6. QED
    BY <1>1, <1>2, <1>4, <1>5 DEF SignInNext, Enforce, EnforceFails, VerifyWrong, VerifyRight,
       ClearFailures, FindUser, CreateUser, GetQrCode, QrExpires, CounterExpires, AdminChangesUser,
       wechatVars, signInVars

LEMMA SignInInductive == SignInSpec => []SignInInv
  <1>1. SignInInit => SignInInv
    <2> SUFFICES ASSUME SignInInit PROVE SignInInv
      OBVIOUS
    <2>1. Admitted = {} /\ LoginsTyped
      BY NoLoginTyped DEF SignInInit, Admitted, LoginsTyped
    <2>2. IsFiniteSet({}) /\ Cardinality({}) = 0
      BY FS_EmptySet
    <2>3. Throttled
      BY <2>1, <2>2, SignInAssumption DEF SignInInit, Throttled
    <2>4. ScannedOnce
      BY DEF SignInInit, ScannedOnce
    <2>5. QED
      BY <2>1, <2>3, <2>4 DEF SignInInv
  <1>2. SignInInv /\ [SignInNext]_signInVars => SignInInv'
    BY LoginStep, ScanStep DEF SignInInv
  <1>3. QED
    BY <1>1, <1>2, PTL DEF SignInSpec

(* Whatever sign-ins overlap, clear the counter, outlive it and meet a failing Redis,
   no more than LoginLimit wrong passwords are looked at between two resets of the
   counter, and a state of a QR code lets one sign-in through.                      *)
THEOREM LimitsAlwaysHold == SignInSpec => []LimitsHold
  <1>1. SignInInv => LimitsHold
    BY DEF SignInInv, Throttled, ScannedOnce, Admitted, LimitsHold
  <1>2. QED
    BY <1>1, SignInInductive, PTL

-----------------------------------------------------------------------------
(* The first administrator.  The advisory lock lets one transaction run at a time; a
   setup that runs has seen no administrator, and there is none until it ends; and
   whoever is about to insert one has the two roles under their numbers.           *)
Row == [id : Nat, live : BOOLEAN]
AdminRole == [id |-> AdminRoleId, live |-> TRUE]

StarterRecord ==
  [pc    : {"idle", "wait", "roles", "admin", "done", "refused", "failed", "mismatch"},
   admin : Row, user : Row]

StartersTyped ==
  /\ starter \in [Starter -> StarterRecord]
  /\ adminRow \in Row /\ userRow \in Row /\ nextRoleId \in Nat

OneTransaction == \A s, t \in Starter : InTransaction(s) /\ InTransaction(t) => s = t

Decided ==
  /\ \A s \in Starter : InTransaction(s) /\ s \notin Seeder => admins = 0
  /\ \A s \in Starter : starter[s].pc = "admin" =>
       starter[s].admin = AdminRole /\ starter[s].user.id = UserRoleId

SetupInv ==
  /\ StartersTyped /\ OneTransaction /\ Decided
  /\ admins \in {0, 1}
  /\ admins = 1 => adminRow = AdminRole /\ userRow.id = UserRoleId

\* A starter that is not in its transaction any more, or takes the lock, or goes on in it.
LEMMA StarterMoves ==
  ASSUME SetupInv, NEW s \in Starter, NEW state \in StarterRecord,
         starter' = [starter EXCEPT ![s] = state],
         state.pc \in {"roles", "admin"} =>
           /\ \A t \in Starter \ {s} : ~InTransaction(t)
           /\ s \notin Seeder => admins = 0,
         state.pc = "admin" => state.admin = AdminRole /\ state.user.id = UserRoleId,
         UNCHANGED <<adminRow, userRow, admins>>, nextRoleId' \in Nat
  PROVE  SetupInv'
  <1>0. StartersTyped /\ OneTransaction /\ Decided
    BY DEF SetupInv
  <1>1. \A t \in Starter : starter'[t] = IF t = s THEN state ELSE starter[t]
    BY <1>0 DEF StartersTyped
  <1>2. StartersTyped'
    BY <1>0 DEF StartersTyped
  <1>3. OneTransaction'
    BY <1>0, <1>1 DEF OneTransaction, InTransaction
  <1>4. Decided'
    BY <1>0, <1>1 DEF Decided, InTransaction
  <1>5. QED
    BY <1>2, <1>3, <1>4 DEF SetupInv

EndPc == {"idle", "wait", "done", "refused", "failed", "mismatch"}

LEMMA StarterEnds ==
  ASSUME SetupInv, NEW s \in Starter, NEW pc \in EndPc, Becomes(s, pc),
         UNCHANGED <<adminRow, userRow, admins>>, nextRoleId' \in Nat
  PROVE  SetupInv'
  <1> DEFINE state == [NoStarter EXCEPT !.pc = pc]
  <1>1. state \in StarterRecord /\ state.pc \notin {"roles", "admin"}
    BY DEF NoStarter, NoRow, Row, StarterRecord, EndPc
  <1>2. starter' = [starter EXCEPT ![s] = state]
    BY DEF Becomes
  <1> HIDE DEF state
  <1>3. QED
    BY <1>1, <1>2, StarterMoves

LEMMA InsertAdminStep ==
  ASSUME SetupInv, NEW s \in Starter, InsertAdmin(s)
  PROVE  SetupInv'
  <1>0. /\ StartersTyped /\ OneTransaction /\ Decided /\ nextRoleId \in Nat
        /\ starter[s] \in StarterRecord /\ starter[s].pc = "admin" /\ InTransaction(s)
    BY DEF SetupInv, StartersTyped, InsertAdmin, InTransaction
  <1>1. ASSUME NEW made \in {0, 1}, made = 1 => admins = 0, Commit(s, made)
        PROVE  SetupInv'
    <2> DEFINE state == [NoStarter EXCEPT !.pc = "done"]
    <2>1. state \in StarterRecord /\ state.pc = "done"
      BY DEF NoStarter, NoRow, Row, StarterRecord
    <2>2. starter' = [starter EXCEPT ![s] = state]
      BY <1>1 DEF Commit, Becomes
    <2> HIDE DEF state
    <2>3. \A t \in Starter : starter'[t] = IF t = s THEN state ELSE starter[t]
      BY <1>0, <2>2 DEF StartersTyped
    <2>4. \A t \in Starter : starter'[t].pc \notin {"roles", "admin"}
      BY <1>0, <2>1, <2>3 DEF OneTransaction, InTransaction
    <2>5. adminRow' = AdminRole /\ userRow'.id = UserRoleId /\ adminRow' \in Row /\ userRow' \in Row
      BY <1>0, <1>1 DEF Commit, Decided, StarterRecord
    <2>6. StartersTyped'
      BY <1>0, <1>1, <2>1, <2>2, <2>5 DEF StartersTyped, Commit
    <2>7. admins' \in {0, 1}
      BY <1>1 DEF Commit, SetupInv
    <2>8. QED
      BY <2>4, <2>5, <2>6, <2>7 DEF SetupInv, OneTransaction, Decided, InTransaction
  <1>2. CASE Commit(s, 0)
    BY <1>1, <1>2
  <1>3. CASE Becomes(s, "refused") /\ UNCHANGED <<rowVars, nextRoleId>>
    BY <1>0, <1>3, StarterEnds DEF rowVars, EndPc
  <1>4. CASE ~(s \in Seeder /\ Initialized) /\ Commit(s, 1)
    <2>1. admins = 0
      BY <1>0, <1>4 DEF Decided, Initialized, SetupInv
    <2>2. QED
      BY <1>1, <1>4, <2>1
  <1>5. QED
    BY <1>2, <1>3, <1>4 DEF InsertAdmin

LEMMA SettledIsLive ==
  ASSUME NEW row \in Row, NEW id \in Nat
  PROVE  Settled(row, id) \in Row /\ Settled(row, id).live = TRUE
  <1>1. [row EXCEPT !.live = TRUE] \in Row /\ [row EXCEPT !.live = TRUE].live = TRUE
    BY DEF Row
  <1>2. [id |-> id, live |-> TRUE] \in Row
    BY DEF Row
  <1>3. QED
    BY <1>1, <1>2 DEF Settled

LEMMA PrepareStep ==
  ASSUME SetupInv, NEW s \in Starter, PrepareRoles(s)
  PROVE  SetupInv'
  <1>0. /\ starter[s] \in StarterRecord /\ InTransaction(s) /\ nextRoleId \in Nat
        /\ nextRoleId' \in Nat /\ OneTransaction /\ Decided
    BY DEF SetupInv, StartersTyped, PrepareRoles, InTransaction
  <1> DEFINE admin == Settled(starter[s].admin, nextRoleId)
             user == Settled(starter[s].user, nextRoleId + 1)
  <1>1. admin \in Row /\ user \in Row /\ admin.live = TRUE
    <2>1. starter[s].admin \in Row /\ starter[s].user \in Row /\ nextRoleId + 1 \in Nat
      BY <1>0 DEF StarterRecord
    <2>2. QED
      BY <1>0, <2>1, SettledIsLive
  <1>2. CASE admin.id = AdminRoleId /\ user.id = UserRoleId
    <2> DEFINE state == [pc |-> "admin", admin |-> admin, user |-> user]
    <2>1. starter' = [starter EXCEPT ![s] = state]
      BY <1>2 DEF PrepareRoles
    <2> HIDE DEF admin, user
    <2>2. admin = AdminRole
      BY <1>1, <1>2 DEF AdminRole, Row
    <2>3. state \in StarterRecord /\ state.admin = AdminRole /\ state.user.id = UserRoleId
      BY <1>1, <1>2, <2>2 DEF StarterRecord
    <2> HIDE DEF state
    <2>4. /\ \A t \in Starter \ {s} : ~InTransaction(t)
          /\ s \notin Seeder => admins = 0
      BY <1>0 DEF OneTransaction, Decided
    <2>5. QED
      BY <1>0, <2>1, <2>3, <2>4, StarterMoves DEF PrepareRoles, rowVars
  <1>3. CASE ~(admin.id = AdminRoleId /\ user.id = UserRoleId)
    <2>1. Becomes(s, "mismatch")
      BY <1>3 DEF PrepareRoles
    <2>2. QED
      BY <1>0, <2>1, StarterEnds DEF PrepareRoles, rowVars, EndPc
  <1>4. QED
    BY <1>2, <1>3

LEMMA LockStep ==
  ASSUME SetupInv, NEW s \in Starter, TakeTheLock(s)
  PROVE  SetupInv'
  <1>0. /\ \A t \in Starter : ~InTransaction(t)
        /\ adminRow \in Row /\ userRow \in Row /\ nextRoleId \in Nat /\ admins \in {0, 1}
        /\ UNCHANGED <<adminRow, userRow, admins, nextRoleId>>
    BY DEF SetupInv, StartersTyped, TakeTheLock, rowVars
  <1>1. CASE s \notin Seeder /\ Initialized
    BY <1>0, <1>1, StarterEnds DEF TakeTheLock, EndPc
  <1>2. CASE ~(s \notin Seeder /\ Initialized)
    <2> DEFINE state == [pc |-> "roles", admin |-> adminRow, user |-> userRow]
    <2>1. starter' = [starter EXCEPT ![s] = state]
      BY <1>2 DEF TakeTheLock
    <2>2. state \in StarterRecord /\ state.pc = "roles"
      BY <1>0 DEF StarterRecord
    <2> HIDE DEF state
    <2>3. s \notin Seeder => admins = 0
      BY <1>0, <1>2 DEF Initialized
    <2>4. QED
      BY <1>0, <2>1, <2>2, <2>3, StarterMoves
  <1>3. QED
    BY <1>1, <1>2

LEMMA SetupInductive == SetupSpec => []SetupInv
  <1>1. SetupInit => SetupInv
    <2> SUFFICES ASSUME SetupInit PROVE SetupInv
      OBVIOUS
    <2>1. NoStarter \in StarterRecord /\ NoStarter.pc = "idle" /\ NoRow \in Row
      BY DEF NoStarter, NoRow, StarterRecord, Row
    <2>2. adminRow \in Row /\ userRow \in Row /\ nextRoleId \in Nat
      BY <2>1, SetupAssumption DEF SetupInit, Row
    <2>3. QED
      BY <2>1, <2>2 DEF SetupInit, SetupInv, StartersTyped, OneTransaction, Decided, InTransaction
  <1>2. SetupInv /\ [SetupNext]_setupVars => SetupInv'
    <2> SUFFICES ASSUME SetupInv, [SetupNext]_setupVars PROVE SetupInv'
      OBVIOUS
    <2>0. nextRoleId \in Nat
      BY DEF SetupInv, StartersTyped
    <2>1. ASSUME NEW s \in Starter, Begin(s) \/ SetupFails(s) \/ TryAgain(s)
          PROVE  SetupInv'
      <3>1. PICK pc \in EndPc : Becomes(s, pc)
        BY <2>1 DEF Begin, SetupFails, TryAgain, EndPc
      <3>2. UNCHANGED <<adminRow, userRow, admins>> /\ nextRoleId' = nextRoleId
        BY <2>1 DEF Begin, SetupFails, TryAgain, rowVars
      <3>3. QED
        BY <2>0, <3>1, <3>2, StarterEnds
    <2>2. CASE NameChanges \/ Restart \/ UNCHANGED setupVars
      BY <2>2 DEF NameChanges, Restart, setupVars, rowVars, SetupInv, StartersTyped, OneTransaction,
         Decided, InTransaction
    <2>3. QED
      BY <2>1, <2>2, LockStep, PrepareStep, InsertAdminStep DEF SetupNext
  <1>3. QED
    BY <1>1, <1>2, PTL DEF SetupSpec

(* However many setups and seeds overlap, fail and are tried again, one administrator
   is made, and under the role that the guard knows.                                 *)
THEOREM OneAdministrator == SetupSpec => []OneFirstAdmin
  <1>1. SetupInv => OneFirstAdmin
    BY DEF SetupInv, AdminRole, OneFirstAdmin
  <1>2. QED
    BY <1>1, SetupInductive, PTL

-----------------------------------------------------------------------------
(* The dialog: the boxes start from a set the role has had, because the cache and
   a fetch that has read hold such sets, of the very role they are of; until they
   are there a fetch is under way or has failed, either of which refuses to submit,
   or the caller may not see permissions, and what is ticked was clicked.          *)

\* codes differs from a set r has had only in boxes that were clicked.
Starts(r, codes, touched) == \E c \in had[r] : c \ touched = codes \ touched

FetchRead == \A r \in Role : fetch[r].pc = "read" => fetch[r].codes \in had[r]
CacheHeld == \A r \in Role : cached[r].present => cached[r].codes \in had[r]
Ready == dialog.role # NoRole /\ dialog.ready => Starts(dialog.role, dialog.codes, dialog.touched)
Waiting ==
  dialog.role # NoRole /\ ~dialog.ready =>
    /\ dialog.codes \subseteq dialog.touched /\ ~cached[dialog.role].present
    /\ fetch[dialog.role].pc # "none" \/ cached[dialog.role].failed \/ ~canViewPerms
PutStarts ==
  put.pc # "none" =>
    /\ put.role \in Role
    /\ Starts(put.role, put.codes, put.touched) \/ (~put.viewed /\ put.codes \subseteq put.touched)

DialogInv ==
  /\ DialogTypeOK /\ \A r \in Role : granted[r] \in had[r]
  /\ FetchRead /\ CacheHeld /\ Ready /\ Waiting /\ PutStarts

LEMMA DialogTypes ==
  ASSUME DialogInv
  PROVE  /\ canViewPerms \in BOOLEAN /\ allPermissions \in {"none", "asked", "here"}
         /\ granted \in [Role -> SUBSET Code] /\ had \in [Role -> SUBSET SUBSET Code]
         /\ cached \in [Role -> CacheState] /\ fetch \in [Role -> FetchState]
         /\ dialog \in DialogState /\ put \in PutState /\ dialogEvents \in 0..MaxDialogs
  BY DEF DialogInv, DialogTypeOK

LEMMA CountedTypes ==
  ASSUME dialogEvents \in 0..MaxDialogs, Counted
  PROVE  dialogEvents' \in 0..MaxDialogs
  BY DialogAssumption DEF Counted

\* A set more that a role has had takes nothing away.
LEMMA GrantKeeps ==
  ASSUME DialogInv, NEW r \in Role, NEW codes \in SUBSET Code, Grant(r, codes)
  PROVE  /\ granted' \in [Role -> SUBSET Code] /\ had' \in [Role -> SUBSET SUBSET Code]
         /\ \A q \in Role : had[q] \subseteq had'[q] /\ granted'[q] \in had'[q]
  <1>1. /\ granted' = [granted EXCEPT ![r] = codes]
        /\ had' = [had EXCEPT ![r] = had[r] \cup {codes}]
    BY DEF Grant
  <1>2. \A q \in Role : granted[q] \in had[q]
    BY DEF DialogInv
  <1>3. had[r] \cup {codes} \in SUBSET SUBSET Code
    BY DialogTypes
  <1>4. had' \in [Role -> SUBSET SUBSET Code]
    BY <1>1, <1>3, DialogTypes
  <1>5. \A q \in Role : had'[q] = IF q = r THEN had[r] \cup {codes} ELSE had[q]
    BY <1>1, DialogTypes
  <1>6. \A q \in Role : granted'[q] = IF q = r THEN codes ELSE granted[q]
    BY <1>1, DialogTypes
  <1>7. granted' \in [Role -> SUBSET Code]
    BY <1>1, DialogTypes
  <1>8. QED
    BY <1>2, <1>4, <1>5, <1>6, <1>7

\* The server's sets change, nothing of the page but its PUT and the count.
LEMMA ServerMoves ==
  ASSUME DialogInv, UNCHANGED <<callerVars, cached, fetch, dialog>>,
         granted' \in [Role -> SUBSET Code], had' \in [Role -> SUBSET SUBSET Code],
         \A q \in Role : had[q] \subseteq had'[q] /\ granted'[q] \in had'[q],
         put' \in PutState, dialogEvents' \in 0..MaxDialogs,
         \/ /\ put.pc # "none" /\ put'.role = put.role
            /\ put'.codes = put.codes /\ put'.touched = put.touched /\ put'.viewed = put.viewed
         \/ put' = put
  PROVE  DialogInv'
  <1>1. DialogTypeOK'
    BY DialogTypes DEF DialogTypeOK, callerVars
  <1>2. FetchRead' /\ CacheHeld'
    BY DEF DialogInv, FetchRead, CacheHeld
  <1>3. Waiting'
    BY DEF DialogInv, Waiting, callerVars
  <1>4. \A r \in Role : \A codes, touched : Starts(r, codes, touched) => Starts(r, codes, touched)'
    BY DEF Starts
  <1>5. dialog.role # NoRole => dialog.role \in Role
    BY DialogTypes DEF DialogState
  <1>6. Ready'
    BY <1>4, <1>5 DEF DialogInv, Ready
  <1>7. PutStarts'
    BY <1>4 DEF DialogInv, PutStarts
  <1>8. QED
    BY <1>1, <1>2, <1>3, <1>6, <1>7 DEF DialogInv

\* The cache and the fetches change, and the dialog with them.
LEMMA CacheMoves ==
  ASSUME DialogInv, UNCHANGED <<serverVars, put>>,
         canViewPerms' \in BOOLEAN, allPermissions' \in {"none", "asked", "here"},
         cached' \in [Role -> CacheState], fetch' \in [Role -> FetchState],
         dialog' \in DialogState, dialogEvents' \in 0..MaxDialogs,
         FetchRead', CacheHeld', Ready', Waiting'
  PROVE  DialogInv'
  <1>1. DialogTypeOK'
    BY DialogTypes DEF DialogTypeOK, serverVars
  <1>2. PutStarts'
    BY DEF DialogInv, PutStarts, Starts, serverVars
  <1>3. (\A r \in Role : granted[r] \in had[r])'
    BY DEF DialogInv, serverVars
  <1>4. QED
    BY <1>1, <1>2, <1>3 DEF DialogInv

\* Only the dialog and the PUT change.
LEMMA PageMoves ==
  ASSUME DialogInv, UNCHANGED <<callerVars, serverVars, cached, fetch, dialogEvents>>,
         dialog' \in DialogState, put' \in PutState, Ready', Waiting', PutStarts'
  PROVE  DialogInv'
  <1>1. DialogTypeOK'
    BY DialogTypes DEF DialogTypeOK, callerVars, serverVars
  <1>2. FetchRead' /\ CacheHeld' /\ (\A r \in Role : granted[r] \in had[r])'
    BY DEF DialogInv, FetchRead, CacheHeld, serverVars
  <1>3. QED
    BY <1>1, <1>2 DEF DialogInv

\* Whichever set of the role the dialog starts from, it starts from one.
LEMMA SyncedIsReady ==
  ASSUME NEW d \in DialogState, NEW c \in [Role -> CacheState],
         \A r \in Role : c[r].present => c[r].codes \in had[r],
         d.role # NoRole /\ d.ready => Starts(d.role, d.codes, d.touched),
         d.role # NoRole /\ ~d.ready => d.codes \subseteq d.touched
  PROVE  LET s == Synced(d, c) IN
         /\ s \in DialogState /\ s.role = d.role
         /\ s.role # NoRole /\ s.ready => Starts(s.role, s.codes, s.touched)
         /\ s.role # NoRole /\ ~s.ready => ~c[s.role].present /\ s.codes \subseteq s.touched
  <1> DEFINE s == Synced(d, c)
  <1>1. CASE d.role # NoRole /\ ~d.ready /\ c[d.role].present
    <2>1. d.role \in Role
      BY <1>1 DEF DialogState
    <2>2. c[d.role].codes \in had[d.role] /\ c[d.role].codes \in SUBSET Code
      BY <1>1, <2>1 DEF CacheState
    <2>3. s = [d EXCEPT !.codes = c[d.role].codes, !.ready = TRUE, !.touched = {}]
      BY <1>1 DEF Synced
    <2>4. /\ s \in DialogState /\ s.role = d.role /\ s.ready
          /\ s.codes = c[d.role].codes
      BY <2>2, <2>3 DEF DialogState
    <2> HIDE DEF s
    <2>5. Starts(s.role, s.codes, s.touched)
      BY <2>2, <2>4 DEF Starts
    <2>6. QED
      BY <2>4, <2>5 DEF s
  <1>2. CASE ~(d.role # NoRole /\ ~d.ready /\ c[d.role].present)
    <2>1. s = d
      BY <1>2 DEF Synced
    <2>2. QED
      BY <1>2, <2>1
  <1>3. QED
    BY <1>1, <1>2

LEMMA DialogSteps ==
  ASSUME DialogInv, DialogNext
  PROVE  DialogInv'
  <1> USE DialogTypes
  <1>0. /\ dialog.role \in Role \cup {NoRole} /\ dialog.codes \in SUBSET Code /\ dialog.ready \in BOOLEAN
        /\ dialog.touched \in SUBSET Code
        /\ \A r \in Role : /\ cached[r] \in CacheState /\ fetch[r] \in FetchState
                           /\ granted[r] \in SUBSET Code
        /\ NoRole \notin Role
    BY DialogAssumption DEF DialogState
  <1>h. FetchRead /\ CacheHeld /\ Ready /\ Waiting /\ PutStarts
    BY DEF DialogInv
  <1>p. NoPut \in PutState /\ NoDialog \in DialogState /\ NoFetch \in FetchState /\ Sent \in FetchState
    BY DEF NoPut, PutState, NoDialog, DialogState, NoFetch, Sent, FetchState
  <1>1. CASE Cancel
    <2>1. dialog' = NoDialog /\ UNCHANGED <<callerVars, serverVars, cached, fetch, put, dialogEvents>>
      BY <1>1 DEF Cancel
    <2>2. Ready' /\ Waiting'
      BY <2>1 DEF Ready, Waiting, NoDialog
    <2>3. PutStarts'
      BY <1>h, <2>1 DEF PutStarts, Starts, serverVars
    <2>4. QED
      BY <1>p, <2>1, <2>2, <2>3, PageMoves
  <1>2. ASSUME NEW touched \in SUBSET Code, NEW codes \in SUBSET Code, MayTick,
               UNCHANGED <<callerVars, serverVars, cached, fetch, put, dialogEvents>>,
               dialog' = [dialog EXCEPT !.codes = codes, !.touched = touched],
               dialog.touched \subseteq touched, dialog.codes \ touched = codes \ touched
        PROVE  DialogInv'
    <2>1. /\ dialog' \in DialogState /\ dialog'.role = dialog.role /\ dialog'.ready = dialog.ready
          /\ dialog'.codes = codes /\ dialog'.touched = touched
      BY <1>2 DEF DialogState
    <2>2. Waiting'
      <3>1. dialog.role # NoRole /\ ~dialog.ready => codes \subseteq touched
        BY <1>h, <1>2 DEF Waiting
      <3>2. QED
        BY <1>h, <1>2, <2>1, <3>1 DEF Waiting, callerVars
    <2>3. ASSUME dialog.role # NoRole, dialog.ready
          PROVE  Starts(dialog.role, codes, touched)'
      <3>1. PICK c \in had[dialog.role] : c \ dialog.touched = dialog.codes \ dialog.touched
        BY <1>h, <2>3 DEF Ready, Starts
      <3>2. c \ touched = codes \ touched
        BY <1>2, <3>1
      <3>3. QED
        BY <1>2, <3>1, <3>2 DEF Starts, serverVars
    <2>4. Ready'
      BY <1>2, <2>1, <2>3 DEF Ready, Starts, serverVars
    <2>5. PutStarts'
      BY <1>h, <1>2 DEF PutStarts, Starts, serverVars
    <2>6. QED
      BY <1>2, <2>1, <2>2, <2>4, <2>5, PageMoves
  <1>3. ASSUME NEW c \in Code, HandlePermissionToggle(c)
        PROVE  DialogInv'
    <2> DEFINE codes == IF c \in dialog.codes THEN dialog.codes \ {c} ELSE dialog.codes \cup {c}
    <2>1. /\ MayTick /\ UNCHANGED <<callerVars, serverVars, cached, fetch, put, dialogEvents>>
          /\ dialog' = [dialog EXCEPT !.codes = codes, !.touched = dialog.touched \cup {c}]
      BY <1>3 DEF HandlePermissionToggle
    <2>2. codes \in SUBSET Code /\ dialog.codes \ (dialog.touched \cup {c}) = codes \ (dialog.touched \cup {c})
      BY <1>0, <1>3
    <2> HIDE DEF codes
    <2>3. dialog.touched \cup {c} \in SUBSET Code /\ dialog.touched \subseteq dialog.touched \cup {c}
      BY <1>0, <1>3
    <2>4. QED
      BY <1>2, <2>1, <2>2, <2>3
  <1>4. CASE HandleToggleAll
    <2>1. /\ MayTick /\ UNCHANGED <<callerVars, serverVars, cached, fetch, put, dialogEvents>>
          /\ \E codes \in {{}, Code} : dialog' = [dialog EXCEPT !.codes = codes, !.touched = Code]
      BY <1>4 DEF HandleToggleAll
    <2>2. PICK codes \in {{}, Code} : dialog' = [dialog EXCEPT !.codes = codes, !.touched = Code]
      BY <2>1
    <2>3. codes \in SUBSET Code /\ dialog.codes \ Code = codes \ Code /\ Code \in SUBSET Code
      BY <1>0
    <2>4. QED
      BY <1>0, <1>2, <2>1, <2>2, <2>3
  <1>5. CASE HandlePermissionSubmit
    <2>1. /\ UNCHANGED <<callerVars, serverVars, cached, fetch, dialog, dialogEvents>>
          /\ dialog.role \in Role /\ ~cached[dialog.role].failed /\ fetch[dialog.role].pc = "none"
          /\ put' = [pc |-> "sent", role |-> dialog.role, codes |-> dialog.codes,
                     touched |-> dialog.touched, viewed |-> canViewPerms]
      BY <1>0, <1>5 DEF HandlePermissionSubmit, Put
    <2>2. /\ put'.role = dialog.role /\ put'.codes = dialog.codes /\ put'.touched = dialog.touched
          /\ put'.viewed = canViewPerms /\ put' \in PutState
      BY <1>0, <2>1 DEF PutState
    <2>3. \/ Starts(dialog.role, dialog.codes, dialog.touched)
          \/ ~canViewPerms /\ dialog.codes \subseteq dialog.touched
      BY <1>0, <1>h, <2>1 DEF Ready, Waiting
    <2>4. PutStarts'
      BY <2>1, <2>2, <2>3 DEF PutStarts, Starts, serverVars
    <2>5. Ready' /\ Waiting'
      BY <1>h, <2>1 DEF Ready, Waiting, Starts, serverVars, callerVars
    <2>6. QED
      BY <2>1, <2>2, <2>4, <2>5, PageMoves
  <1>6. CASE PutRefused
    <2>1. put' = NoPut /\ UNCHANGED <<callerVars, serverVars, cached, fetch, dialog, dialogEvents>>
      BY <1>6 DEF PutRefused
    <2>2. PutStarts'
      BY <2>1 DEF PutStarts, NoPut
    <2>3. Ready' /\ Waiting'
      BY <1>h, <2>1 DEF Ready, Waiting, Starts, serverVars, callerVars
    <2>4. QED
      BY <1>p, <2>1, <2>2, <2>3, PageMoves
  <1>7. CASE RefetchCurrentPerms
    <2> DEFINE d == dialog.role
    <2>1. /\ d \in Role /\ UNCHANGED <<callerVars, serverVars, dialog, put, dialogEvents>>
          /\ fetch' = [fetch EXCEPT ![d] = Sent]
          /\ cached' = [cached EXCEPT ![d].failed = cached[d].present]
      BY <1>0, <1>7 DEF RefetchCurrentPerms
    <2>2. fetch' \in [Role -> FetchState] /\ cached' \in [Role -> CacheState]
      BY <1>0, <1>p, <2>1, SMTT(30) DEF CacheState
    <2>3. \A r \in Role : /\ fetch'[r].pc = "read" => fetch'[r] = fetch[r]
                          /\ cached'[r].present = cached[r].present /\ cached'[r].codes = cached[r].codes
      BY <1>0, <2>1 DEF Sent, CacheState
    <2>4. fetch'[d].pc = "sent"
      BY <2>1 DEF Sent
    <2>5. FetchRead' /\ CacheHeld'
      BY <1>h, <2>1, <2>3 DEF FetchRead, CacheHeld, serverVars
    <2>6. Ready' /\ Waiting'
      BY <1>h, <2>1, <2>3, <2>4 DEF Ready, Waiting, Starts, serverVars, callerVars
    <2>7. canViewPerms' \in BOOLEAN /\ allPermissions' \in {"none", "asked", "here"}
      BY <2>1 DEF callerVars
    <2>8. QED
      BY <2>1, <2>2, <2>5, <2>6, <2>7, CacheMoves
  <1>8. CASE PutSucceeds
    <2> DEFINE d == dialog.role
               asks == canViewPerms /\ d # NoRole /\ (cached[d].present \/ fetch[d].pc = "none")
    <2>1. /\ UNCHANGED <<callerVars, serverVars, dialogEvents>> /\ put' = NoPut /\ dialog' = NoDialog
          /\ cached' = [r \in Role |-> [cached[r] EXCEPT !.stale = cached[r].present]]
          /\ fetch' = IF asks THEN [fetch EXCEPT ![d] = Sent] ELSE fetch
      BY <1>8 DEF PutSucceeds
    <2>2. fetch' \in [Role -> FetchState]
      BY <1>0, <1>p, <2>1
    <2>3. cached' \in [Role -> CacheState]
      <3>1. ASSUME NEW r \in Role
            PROVE  [cached[r] EXCEPT !.stale = cached[r].present] \in CacheState
        <4>1. PICK v \in BOOLEAN : v = cached[r].present
          BY <1>0, <3>1 DEF CacheState
        <4>2. [cached[r] EXCEPT !.stale = v] \in CacheState
          BY <1>0, <3>1 DEF CacheState
        <4>3. QED
          BY <4>1, <4>2
      <3>2. QED
        BY <2>1, <3>1
    <2>4. \A r \in Role : /\ fetch'[r].pc = "read" => fetch'[r] = fetch[r]
                          /\ cached'[r].present = cached[r].present /\ cached'[r].codes = cached[r].codes
      BY <1>0, <2>1 DEF Sent, CacheState
    <2>5. FetchRead' /\ CacheHeld'
      BY <1>h, <2>1, <2>4 DEF FetchRead, CacheHeld, serverVars
    <2>6. Ready' /\ Waiting'
      BY <2>1 DEF Ready, Waiting, NoDialog
    <2>7. PutStarts'
      BY <2>1 DEF PutStarts, NoPut
    <2>8. DialogTypeOK'
      BY <1>p, <2>1, <2>2, <2>3 DEF DialogTypeOK, callerVars, serverVars
    <2>9. (\A r \in Role : granted[r] \in had[r])'
      BY <2>1 DEF DialogInv, serverVars
    <2>10. QED
      BY <2>5, <2>6, <2>7, <2>8, <2>9 DEF DialogInv
  <1>9. CASE ServerPuts
    <2>1. /\ UNCHANGED <<callerVars, cached, fetch, dialog>> /\ put.pc = "sent" /\ put.role \in Role
          /\ put.codes \in SUBSET Code
      BY <1>9, <1>h DEF ServerPuts, PutStarts, PutState
    <2>2. \E pc \in {"done", "failed"} : put' = [put EXCEPT !.pc = pc]
      BY <1>9 DEF ServerPuts
    <2>3. /\ put' \in PutState /\ put'.role = put.role /\ put'.codes = put.codes
          /\ put'.touched = put.touched /\ put'.viewed = put.viewed
      BY <2>2 DEF PutState
    <2>4. dialogEvents' \in 0..MaxDialogs
      BY <1>9, CountedTypes DEF ServerPuts
    <2>5. CASE Grant(put.role, put.codes)
      BY <2>1, <2>3, <2>4, <2>5, GrantKeeps, ServerMoves
    <2>6. CASE UNCHANGED serverVars
      <3>1. \A q \in Role : had[q] \subseteq had'[q] /\ granted'[q] \in had'[q]
        BY <2>6 DEF DialogInv, serverVars
      <3>2. granted' \in [Role -> SUBSET Code] /\ had' \in [Role -> SUBSET SUBSET Code]
        BY <2>6 DEF serverVars
      <3>3. QED
        BY <2>1, <2>3, <2>4, <3>1, <3>2, ServerMoves
    <2>7. QED
      BY <1>9, <2>5, <2>6 DEF ServerPuts
  <1>10. ASSUME NEW r \in Role, OtherAdmin(r)
         PROVE  DialogInv'
    <2>1. /\ UNCHANGED <<callerVars, cached, fetch, dialog, put>> /\ Counted
          /\ \E codes \in SUBSET Code : Grant(r, codes)
      BY <1>10 DEF OtherAdmin
    <2>2. PICK codes \in SUBSET Code : Grant(r, codes)
      BY <2>1
    <2>3. dialogEvents' \in 0..MaxDialogs
      BY <2>1, CountedTypes
    <2>4. put' \in PutState /\ put' = put
      BY <2>1
    <2>5. QED
      BY <1>10, <2>1, <2>2, <2>3, <2>4, GrantKeeps, ServerMoves
  <1>11. ASSUME NEW r \in Role, ServerReads(r)
         PROVE  DialogInv'
    <2> DEFINE f == [pc |-> "read", codes |-> granted[r]]
    <2>1. /\ UNCHANGED <<callerVars, serverVars, cached, dialog, put, dialogEvents>>
          /\ fetch' = [fetch EXCEPT ![r] = f] /\ fetch[r].pc = "sent"
      BY <1>11 DEF ServerReads
    <2>2. f \in FetchState /\ f.pc = "read" /\ f.codes = granted[r]
      BY <1>0, <1>11 DEF FetchState
    <2> HIDE DEF f
    <2>3. fetch' \in [Role -> FetchState] /\ \A q \in Role : fetch'[q] = IF q = r THEN f ELSE fetch[q]
      BY <2>1, <2>2
    <2>4. FetchRead'
      BY <1>h, <2>1, <2>2, <2>3 DEF DialogInv, FetchRead, serverVars
    <2>5. CacheHeld'
      BY <1>h, <2>1 DEF CacheHeld, serverVars
    <2>6. Ready'
      BY <1>h, <2>1 DEF Ready, Starts, serverVars
    <2>7. Waiting'
      BY <1>0, <1>h, <2>1, <2>2, <2>3 DEF Waiting, callerVars
    <2>8. canViewPerms' \in BOOLEAN /\ allPermissions' \in {"none", "asked", "here"}
      BY <2>1 DEF callerVars
    <2>9. QED
      BY <2>1, <2>3, <2>4, <2>5, <2>6, <2>7, <2>8, CacheMoves
  <1>12. ASSUME NEW r \in Role, FetchSucceeds(r)
         PROVE  DialogInv'
    <2> DEFINE c == [present |-> TRUE, codes |-> fetch[r].codes, stale |-> FALSE, failed |-> FALSE]
    <2>1. /\ UNCHANGED <<callerVars, serverVars, put, dialogEvents>> /\ fetch[r].pc = "read"
          /\ fetch' = [fetch EXCEPT ![r] = NoFetch] /\ cached' = [cached EXCEPT ![r] = c]
          /\ dialog' = Synced(dialog, cached')
      BY <1>12 DEF FetchSucceeds
    <2>2. c \in CacheState /\ c.present /\ c.codes \in had[r]
      BY <1>0, <1>h, <1>12, <2>1 DEF CacheState, FetchState, FetchRead
    <2> HIDE DEF c
    <2>3. /\ cached' \in [Role -> CacheState] /\ fetch' \in [Role -> FetchState]
          /\ \A q \in Role : /\ cached'[q] = IF q = r THEN c ELSE cached[q]
                             /\ fetch'[q] = IF q = r THEN NoFetch ELSE fetch[q]
      BY <1>p, <2>1, <2>2
    <2>4. FetchRead'
      BY <1>h, <2>1, <2>3 DEF FetchRead, NoFetch, serverVars
    <2>5. \A q \in Role : cached'[q].present => cached'[q].codes \in had[q]
      BY <1>h, <2>2, <2>3 DEF CacheHeld
    <2>6. CacheHeld'
      BY <2>1, <2>5 DEF CacheHeld, serverVars
    <2>7. /\ dialog.role # NoRole /\ dialog.ready => Starts(dialog.role, dialog.codes, dialog.touched)
          /\ dialog.role # NoRole /\ ~dialog.ready => dialog.codes \subseteq dialog.touched
      BY <1>h DEF Ready, Waiting
    <2>8. /\ dialog' \in DialogState /\ dialog'.role = dialog.role
          /\ dialog'.role # NoRole /\ dialog'.ready => Starts(dialog'.role, dialog'.codes, dialog'.touched)
          /\ dialog'.role # NoRole /\ ~dialog'.ready =>
               ~cached'[dialog'.role].present /\ dialog'.codes \subseteq dialog'.touched
      BY <2>1, <2>3, <2>5, <2>7, SyncedIsReady
    <2>9. Ready'
      BY <2>1, <2>8 DEF Ready, Starts, serverVars
    <2>10. dialog'.role # NoRole /\ ~dialog'.ready => dialog.role # r /\ ~dialog.ready
      BY <2>1, <2>2, <2>3, <2>8 DEF Synced
    <2>11. Waiting'
      BY <1>0, <1>h, <2>1, <2>3, <2>8, <2>10 DEF Waiting, callerVars
    <2>12. canViewPerms' \in BOOLEAN /\ allPermissions' \in {"none", "asked", "here"}
      BY <2>1 DEF callerVars
    <2>13. QED
      BY <2>1, <2>3, <2>4, <2>6, <2>8, <2>9, <2>11, <2>12, CacheMoves
  <1>13. ASSUME NEW r \in Role, FetchFails(r)
         PROVE  DialogInv'
    <2>1. /\ UNCHANGED <<callerVars, serverVars, dialog, put>> /\ Counted
          /\ fetch' = [fetch EXCEPT ![r] = NoFetch] /\ cached' = [cached EXCEPT ![r].failed = TRUE]
      BY <1>13 DEF FetchFails
    <2>2. /\ cached' \in [Role -> CacheState] /\ fetch' \in [Role -> FetchState]
          /\ \A q \in Role : /\ cached'[q].present = cached[q].present /\ cached'[q].codes = cached[q].codes
                             /\ cached'[q].failed = IF q = r THEN TRUE ELSE cached[q].failed
                             /\ fetch'[q] = IF q = r THEN NoFetch ELSE fetch[q]
      BY <1>0, <1>p, <2>1 DEF CacheState
    <2>3. FetchRead' /\ CacheHeld'
      BY <1>h, <2>1, <2>2 DEF FetchRead, CacheHeld, NoFetch, serverVars
    <2>4. Ready'
      BY <1>h, <2>1 DEF Ready, Starts, serverVars
    <2>5. Waiting'
      BY <1>0, <1>h, <2>1, <2>2 DEF Waiting, callerVars
    <2>6. dialogEvents' \in 0..MaxDialogs
      BY <2>1, CountedTypes
    <2>7. canViewPerms' \in BOOLEAN /\ allPermissions' \in {"none", "asked", "here"}
      BY <2>1 DEF callerVars
    <2>8. QED
      BY <2>1, <2>2, <2>3, <2>4, <2>5, <2>6, <2>7, CacheMoves
  <1>14. ASSUME NEW r \in Role, GoesStale(r)
         PROVE  DialogInv'
    <2>1. /\ UNCHANGED <<callerVars, serverVars, fetch, dialog, put, dialogEvents>>
          /\ cached' = [cached EXCEPT ![r].stale = TRUE]
      BY <1>14 DEF GoesStale
    <2>2. /\ cached' \in [Role -> CacheState]
          /\ \A q \in Role : /\ cached'[q].present = cached[q].present /\ cached'[q].codes = cached[q].codes
                             /\ cached'[q].failed = cached[q].failed
      BY <1>0, <2>1 DEF CacheState
    <2>3. FetchRead' /\ CacheHeld'
      BY <1>h, <2>1, <2>2 DEF FetchRead, CacheHeld, serverVars
    <2>4. Ready'
      BY <1>h, <2>1 DEF Ready, Starts, serverVars
    <2>5. Waiting'
      BY <1>0, <1>h, <2>1, <2>2 DEF Waiting, callerVars
    <2>6. canViewPerms' \in BOOLEAN /\ allPermissions' \in {"none", "asked", "here"}
      BY <2>1 DEF callerVars
    <2>7. QED
      BY <2>1, <2>2, <2>3, <2>4, <2>5, <2>6, CacheMoves
  <1>a. ASSUME NEW r \in Role \cup {NoRole}, NEW enabled \in BOOLEAN, Asks(r, enabled)
        PROVE  /\ cached' \in [Role -> CacheState] /\ fetch' \in [Role -> FetchState]
               /\ \A q \in Role :
                    /\ cached'[q].present = cached[q].present /\ cached'[q].codes = cached[q].codes
                    /\ fetch'[q].pc = "read" => fetch'[q] = fetch[q]
                    /\ enabled /\ q = r /\ ~cached[q].present => fetch'[q].pc # "none"
    <2> DEFINE asks == /\ enabled /\ r # NoRole
                       /\ fetch[r].pc = "none" /\ (~cached[r].present \/ cached[r].stale)
    <2>1. /\ fetch' = IF asks THEN [fetch EXCEPT ![r] = Sent] ELSE fetch
          /\ cached' = IF asks /\ ~cached[r].present THEN [cached EXCEPT ![r].failed = FALSE] ELSE cached
      BY <1>a DEF Asks
    <2>2. CASE asks
      <3>1. r \in Role
        BY <1>a, <2>2
      <3>2. fetch' = [fetch EXCEPT ![r] = Sent] /\ Sent.pc = "sent"
        BY <2>1, <2>2 DEF Sent
      <3>3. fetch' \in [Role -> FetchState] /\ \A q \in Role : fetch'[q] = IF q = r THEN Sent ELSE fetch[q]
        BY <1>p, <3>1, <3>2
      <3>4. cached' = [cached EXCEPT ![r].failed = FALSE] \/ cached' = cached
        BY <2>1
      <3>5. /\ cached' \in [Role -> CacheState]
            /\ \A q \in Role : cached'[q].present = cached[q].present /\ cached'[q].codes = cached[q].codes
        <4>1. CASE cached' = [cached EXCEPT ![r].failed = FALSE]
          BY <1>0, <3>1, <4>1 DEF CacheState
        <4>2. CASE cached' = cached
          BY <4>2
        <4>3. QED
          BY <3>4, <4>1, <4>2
      <3>6. QED
        BY <3>2, <3>3, <3>5
    <2>3. CASE ~asks
      <3>1. fetch' = fetch /\ cached' = cached
        BY <2>1, <2>3
      <3>2. \A q \in Role : enabled /\ q = r /\ ~cached[q].present => fetch[q].pc # "none"
        BY <1>0, <2>3
      <3>3. QED
        BY <3>1, <3>2
    <2>4. QED
      BY <2>2, <2>3
  <1>15. ASSUME NEW r \in Role, HandleOpenPermission(r)
         PROVE  DialogInv'
    <2> DEFINE opened == [NoDialog EXCEPT !.role = r]
    <2>1. /\ UNCHANGED <<callerVars, serverVars, put>> /\ Counted
          /\ dialog' = Synced(opened, cached) /\ Asks(r, canViewPerms)
      BY <1>15 DEF HandleOpenPermission
    <2>2. /\ cached' \in [Role -> CacheState] /\ fetch' \in [Role -> FetchState]
          /\ \A q \in Role : /\ cached'[q].present = cached[q].present /\ cached'[q].codes = cached[q].codes
                             /\ fetch'[q].pc = "read" => fetch'[q] = fetch[q]
          /\ canViewPerms /\ ~cached[r].present => fetch'[r].pc # "none"
      BY <1>a, <1>15, <2>1
    <2>4. FetchRead' /\ CacheHeld'
      BY <1>h, <2>1, <2>2 DEF FetchRead, CacheHeld, serverVars
    <2>5. opened \in DialogState /\ opened.role = r /\ ~opened.ready /\ opened.codes \subseteq opened.touched
      BY <1>15 DEF NoDialog, DialogState
    <2> HIDE DEF opened
    <2>6. \A q \in Role : cached[q].present => cached[q].codes \in had[q]
      BY <1>h DEF CacheHeld
    <2>7. /\ dialog' \in DialogState /\ dialog'.role = r
          /\ dialog'.role # NoRole /\ dialog'.ready => Starts(dialog'.role, dialog'.codes, dialog'.touched)
          /\ dialog'.role # NoRole /\ ~dialog'.ready =>
               ~cached[dialog'.role].present /\ dialog'.codes \subseteq dialog'.touched
      BY <2>1, <2>5, <2>6, SyncedIsReady
    <2>8. Ready'
      BY <2>1, <2>7 DEF Ready, Starts, serverVars
    <2>9. Waiting'
      BY <1>0, <1>15, <2>1, <2>2, <2>7 DEF Waiting, callerVars
    <2>10. dialogEvents' \in 0..MaxDialogs
      BY <2>1, CountedTypes
    <2>11. canViewPerms' \in BOOLEAN /\ allPermissions' \in {"none", "asked", "here"}
      BY <2>1 DEF callerVars
    <2>12. QED
      BY <2>1, <2>2, <2>4, <2>7, <2>8, <2>9, <2>10, <2>11, CacheMoves
  <1>16. CASE CanChanges
    <2>1. /\ UNCHANGED <<serverVars, dialog, put>> /\ Counted
          /\ canViewPerms' = ~canViewPerms /\ Asks(dialog.role, canViewPerms')
          /\ allPermissions' \in {allPermissions, "asked"}
      BY <1>16 DEF CanChanges
    <2>2. canViewPerms' \in BOOLEAN /\ allPermissions' \in {"none", "asked", "here"}
      BY <2>1
    <2>3. /\ cached' \in [Role -> CacheState] /\ fetch' \in [Role -> FetchState]
          /\ \A q \in Role :
               /\ cached'[q].present = cached[q].present /\ cached'[q].codes = cached[q].codes
               /\ fetch'[q].pc = "read" => fetch'[q] = fetch[q]
               /\ canViewPerms' /\ q = dialog.role /\ ~cached[q].present => fetch'[q].pc # "none"
      BY <1>0, <1>a, <2>1, <2>2
    <2>4. FetchRead' /\ CacheHeld'
      BY <1>h, <2>1, <2>3 DEF FetchRead, CacheHeld, serverVars
    <2>5. Ready'
      BY <1>h, <2>1 DEF Ready, Starts, serverVars
    <2>6. Waiting'
      BY <1>0, <1>h, <2>1, <2>3 DEF Waiting
    <2>7. dialogEvents' \in 0..MaxDialogs
      BY <2>1, CountedTypes
    <2>8. QED
      BY <2>1, <2>2, <2>3, <2>4, <2>5, <2>6, <2>7, CacheMoves
  <1>17. CASE ListArrives
    <2>1. /\ UNCHANGED <<canViewPerms, serverVars, cached, fetch, dialog, put, dialogEvents>>
          /\ allPermissions' = "here"
      BY <1>17 DEF ListArrives
    <2>2. FetchRead' /\ CacheHeld' /\ Ready' /\ Waiting'
      BY <1>h, <2>1 DEF FetchRead, CacheHeld, Ready, Waiting, Starts, serverVars
    <2>3. QED
      BY <2>1, <2>2, CacheMoves
  <1>18. QED
    BY <1>1, <1>3, <1>4, <1>5, <1>6, <1>7, <1>8, <1>9, <1>10, <1>11, <1>12, <1>13, <1>14, <1>15,
       <1>16, <1>17
       DEF DialogNext

LEMMA DialogAlways == DialogSpec => []DialogInv
  <1>1. ASSUME DialogInit PROVE DialogInv
    <2>1. /\ canViewPerms \in BOOLEAN /\ allPermissions \in {"none", "asked", "here"}
          /\ dialog = NoDialog /\ put = NoPut /\ dialogEvents = 0
          /\ granted \in [Role -> SUBSET Code] /\ had = [r \in Role |-> {granted[r]}]
          /\ cached = [r \in Role |-> [present |-> FALSE, codes |-> {}, stale |-> FALSE, failed |-> FALSE]]
          /\ fetch = [r \in Role |-> NoFetch]
      BY <1>1 DEF DialogInit
    <2>2. \A r \in Role : /\ granted[r] \in had[r] /\ had[r] \in SUBSET SUBSET Code
                          /\ fetch[r] = NoFetch /\ ~cached[r].present
      BY <2>1
    <2>3. NoPut \in PutState /\ NoDialog \in DialogState /\ NoFetch \in FetchState
      BY DEF NoPut, PutState, NoDialog, DialogState, NoFetch, FetchState
    <2>4. cached \in [Role -> CacheState] /\ fetch \in [Role -> FetchState]
      BY <2>1, <2>3 DEF CacheState
    <2>5. had \in [Role -> SUBSET SUBSET Code] /\ dialogEvents \in 0..MaxDialogs
      BY <2>1, <2>2, DialogAssumption
    <2>6. DialogTypeOK
      BY <2>1, <2>3, <2>4, <2>5 DEF DialogTypeOK
    <2>7. FetchRead /\ CacheHeld /\ Ready /\ Waiting /\ PutStarts
      BY <2>1, <2>2 DEF FetchRead, CacheHeld, Ready, Waiting, PutStarts, NoFetch, NoDialog, NoPut
    <2>8. QED
      BY <2>2, <2>6, <2>7 DEF DialogInv
  <1>2. ASSUME DialogInv, UNCHANGED dialogVars PROVE DialogInv'
    BY <1>2 DEF dialogVars, DialogInv, DialogTypeOK, FetchRead, CacheHeld, Ready, Waiting, PutStarts, Starts
  <1>3. QED
    BY <1>1, <1>2, DialogSteps, PTL DEF DialogSpec

(* However dialogs of several roles, their fetches, a PUT and other administrators
   overlap and fail, and the caller's permission to see permissions comes and goes,
   what is sent for a role is a set it has had but for the boxes clicked, or was sent
   by a caller without that permission and holds only boxes clicked (roles.tsx:
   initializedForRoleId, permsSyncing, the refused submit; use-permissions.ts: enabled). *)
THEOREM OnlyTickedIsSent == DialogSpec => []OnlyWhatWasTicked
  <1>1. DialogInv => OnlyWhatWasTicked
    BY DEF DialogInv, PutStarts, Starts, OnlyWhatWasTicked, StartsFromTheRole
  <1>2. QED
    BY <1>1, DialogAlways, PTL

-----------------------------------------------------------------------------
USE PreviewAssumption, TransferAssumption

(* The preview: OneObjectUrl is inductive with the types. *)
PreviewInv == PreviewTypeOK /\ OneObjectUrl

LEMMA PreviewStep == PreviewInv /\ [PreviewNext]_previewVars => PreviewInv'
  <1> USE DEF PreviewInv, PreviewTypeOK, OneObjectUrl, ClickState
  <1> SUFFICES ASSUME PreviewInv, [PreviewNext]_previewVars PROVE PreviewInv'
    OBVIOUS
  <1>1. ASSUME NEW k \in Click, NEW i \in Image, HandlePreview(k, i) PROVE PreviewInv'
    BY <1>1 DEF HandlePreview
  <1>2. ASSUME NEW k \in Click, BlobArrives(k) PROVE PreviewInv'
    <2>1. click' \in [Click -> ClickState] /\ asked' \in Image \cup {NoImage} /\ mounted' = mounted
      BY <1>2 DEF BlobArrives, Answered, NoLongerAsked
    <2>2. CASE asked = click[k].row /\ mounted
      <3>1. live' = (live \ {kept}) \cup {k} /\ kept' = k /\ onScreen' = k
        BY <1>2, <2>2 DEF BlobArrives
      <3>2. live \ {kept} = {}
        OBVIOUS
      <3>3. QED
        BY <2>1, <3>1, <3>2
    <2>3. CASE ~(asked = click[k].row /\ mounted)
      BY <1>2, <2>1, <2>3 DEF BlobArrives
    <2>4. QED
      BY <2>2, <2>3
  <1>3. ASSUME NEW k \in Click, BlobFails(k) PROVE PreviewInv'
    BY <1>3 DEF BlobFails, Answered, NoLongerAsked
  <1>4. CASE ClosePreview
    BY <1>4 DEF ClosePreview
  <1>5. CASE LeavePage
    BY <1>5 DEF LeavePage
  <1>6. CASE UNCHANGED previewVars
    BY <1>6 DEF previewVars
  <1>7. QED
    BY <1>1, <1>2, <1>3, <1>4, <1>5, <1>6 DEF PreviewNext

(* However many previews are asked for, answered in any order, closed or left
   behind, the page has at most the object URL it shows: none leaks, and the one
   shown is not revoked (handlePreview and closePreview of the files page).   *)
THEOREM PreviewsDoNotLeak == PreviewSpec => []OneObjectUrl
  <1>1. PreviewInit => PreviewInv
    BY DEF PreviewInit, PreviewInv, PreviewTypeOK, OneObjectUrl, ClickState
  <1>2. PreviewInv => OneObjectUrl
    BY DEF PreviewInv
  <1>3. QED
    BY <1>1, <1>2, PreviewStep, PTL DEF PreviewSpec

-----------------------------------------------------------------------------
(* What ParseRange makes of a header. *)
LEMMA MaxOfTwo ==
  ASSUME NEW a \in Int, NEW b \in Int
  PROVE  Max({a, b}) = IF a >= b THEN a ELSE b
  BY DEF Max

LEMMA MinOfTwo ==
  ASSUME NEW a \in Int, NEW b \in Int
  PROVE  Min({a, b}) = IF a <= b THEN a ELSE b
  BY DEF Min

Wanted(header, size) == Meant(header, size) \cap 0..(size - 1)

\* A header is heeded exactly when it means a range, and then its part of the file is taken.
LEMMA ParseRangeMeans ==
  ASSUME NEW header \in Header, NEW size \in 0..MaxSize
  PROVE  /\ ParseRange(header, size).is \in {"ignore", "unsatisfiable", "part"}
         /\ ParseRange(header, size).is = "ignore" => ~MeansARange(header)
         /\ ParseRange(header, size).is = "unsatisfiable" =>
              MeansARange(header) /\ Wanted(header, size) = {}
         /\ ParseRange(header, size).is = "part" =>
              /\ MeansARange(header) /\ Wanted(header, size) # {}
              /\ ParseRange(header, size).start \in 0..MaxNumber
              /\ ParseRange(header, size).end \in -1..MaxNumber
              /\ Wanted(header, size) = ParseRange(header, size).start..ParseRange(header, size).end
  <1> DEFINE a == header.first
             b == header.last
             R == ParseRange(header, size)
  <1>0. /\ a \in Int /\ b \in Int /\ size \in Int /\ a \in Number /\ b \in Number
        /\ header.form \in {"absent", "garbled", "several", "one"}
        /\ 0 <= size /\ size <= MaxSize /\ MaxSize <= MaxNumber /\ MaxSize \in Int /\ MaxNumber \in Int
        /\ NoNumber = -1
    BY DEF Header, Number, NoNumber
  <1>1. CASE header.form # "one" \/ (a = NoNumber /\ b = NoNumber)
    <2>1. R.is = "ignore"
      BY <1>1 DEF ParseRange, Ignore
    <2>2. ~MeansARange(header)
      BY <1>0, <1>1 DEF MeansARange
    <2>3. QED
      BY <2>1, <2>2
  <1>2. CASE header.form = "one" /\ a = NoNumber /\ b # NoNumber
    <2>0. R = ParseSuffix(b, size)
      BY <1>2 DEF ParseRange
    <2>1. CASE b <= 0
      <3>1. R.is = "ignore"
        BY <2>0, <2>1 DEF ParseSuffix, Ignore
      <3>2. ~MeansARange(header)
        BY <1>0, <1>2, <2>1 DEF MeansARange
      <3>3. QED
        BY <3>1, <3>2
    <2>2. b > 0 => MeansARange(header) /\ Wanted(header, size) = {p \in 0..(size - 1) : p >= size - b}
      BY <1>0, <1>2 DEF MeansARange, Wanted, Meant
    <2>3. CASE b > 0 /\ size = 0
      <3>1. R.is = "unsatisfiable"
        BY <1>0, <2>0, <2>3 DEF ParseSuffix, Unsatisfiable
      <3>2. QED
        BY <2>2, <2>3, <3>1
    <2>4. CASE b > 0 /\ size > 0
      <3> DEFINE s == IF 0 >= size - b THEN 0 ELSE size - b
      <3>1. Max({0, size - b}) = s
        BY <1>0, MaxOfTwo
      <3>2. R = [is |-> "part", start |-> s, end |-> size - 1]
        BY <1>0, <2>0, <2>4, <3>1 DEF ParseSuffix, Part
      <3>3. s \in 0..(size - 1) /\ \A p \in 0..(size - 1) : p >= size - b <=> p >= s
        BY <1>0, <2>4
      <3> HIDE DEF s
      <3>4. Wanted(header, size) = s..(size - 1)
        <4>1. \A p : p \in Wanted(header, size) <=> p \in 0..(size - 1) /\ p >= s
          BY <2>2, <2>4, <3>3
        <4>2. \A p : p \in 0..(size - 1) /\ p >= s <=> p \in s..(size - 1)
          BY <1>0, <3>3
        <4>3. QED
          BY <4>1, <4>2
      <3>5. R.is = "part" /\ R.start = s /\ R.end = size - 1
        BY <3>2
      <3>6. R.start \in 0..MaxNumber /\ R.end \in -1..MaxNumber /\ s \in s..(size - 1)
        BY <1>0, <3>3, <3>5
      <3> HIDE DEF R
      <3>7. QED
        BY <2>2, <2>4, <3>4, <3>5, <3>6 DEF R
    <2>5. QED
      BY <1>0, <2>1, <2>3, <2>4
  <1>3. CASE header.form = "one" /\ a # NoNumber
    <2>0. R = ParsePart(a, b, size) /\ a >= 0
      BY <1>0, <1>3 DEF ParseRange, Number
    <2>1. CASE b # NoNumber /\ b < a
      <3>1. R.is = "ignore"
        BY <2>0, <2>1 DEF ParsePart, Ignore
      <3>2. ~MeansARange(header)
        BY <1>0, <2>1 DEF MeansARange
      <3>3. QED
        BY <3>1, <3>2
    <2>2. CASE ~(b # NoNumber /\ b < a)
      <3>1. MeansARange(header)
        BY <1>0, <1>3, <2>2 DEF MeansARange
      <3> DEFINE t == IF b = NoNumber THEN size - 1 ELSE IF b <= size - 1 THEN b ELSE size - 1
      <3>2. \A p \in 0..(size - 1) : p \in Meant(header, size) <=> p >= a /\ p <= t
        BY <1>0, <1>3, <2>0, <2>2 DEF Meant
      <3>3. CASE a >= size
        <4>1. R.is = "unsatisfiable"
          BY <1>0, <2>0, <2>2, <3>3 DEF ParsePart, Unsatisfiable
        <4>2. Wanted(header, size) = {}
          BY <1>0, <3>2, <3>3 DEF Wanted
        <4>3. QED
          BY <3>1, <4>1, <4>2
      <3>4. CASE a < size
        <4>1. b # NoNumber => Min({b, size - 1}) = t
          BY <1>0, MinOfTwo
        <4>2. R = [is |-> "part", start |-> a, end |-> t]
          BY <1>0, <2>0, <2>2, <3>4, <4>1 DEF ParsePart, Part
        <4>3. t \in a..(size - 1)
          BY <1>0, <2>0, <2>2, <3>4
        <4> HIDE DEF t
        <4>4. Wanted(header, size) = a..t
          BY <1>0, <2>0, <3>2, <4>3 DEF Wanted
        <4>5. R.is = "part" /\ R.start = a /\ R.end = t
          BY <4>2
        <4>6. R.start \in 0..MaxNumber /\ R.end \in -1..MaxNumber /\ a \in a..t
          BY <1>0, <2>0, <3>4, <4>3, <4>5
        <4> HIDE DEF R
        <4>7. QED
          BY <3>1, <4>4, <4>5, <4>6 DEF R
      <3>5. QED
        BY <1>0, <3>3, <3>4
    <2>3. QED
      BY <2>1, <2>2
  <1>4. QED
    BY <1>0, <1>1, <1>2, <1>3

-----------------------------------------------------------------------------
(* The transfer: what was announced stays right, because neither the size nor
   what was asked changes, and before the headers nothing is announced.       *)
Heeded == transfer.kind = "preview" /\ MeansARange(transfer.header)
Whole == 0..(content.size - 1)
ToSend == Wanted(transfer.header, content.size)

TransferInv ==
  /\ content \in [size : 0..MaxSize, row : {"none", "live", "deleted"}, stored : BOOLEAN, inDir : BOOLEAN]
  /\ transfer \in [kind : {"preview", "download"}, header : Header, mayRead : BOOLEAN]
  /\ response \in [pc : {"row", "stat", "headers", "stream", "sent", "cut"},
                   status : {0, 200, 206, 403, 404, 416}, announced : Interval, body : SUBSET Int]
  /\ response.pc \in {"row", "stat", "headers"} => response.status = 0
  /\ response.pc = "stream" => response.status \in {200, 206}
  /\ response.status = 206 => Heeded /\ ToSend # {} /\ BytesOf(response.announced) = ToSend
  /\ response.status = 416 => Heeded /\ ToSend = {}
  /\ response.status = 200 => ~Heeded /\ BytesOf(response.announced) = Whole
  /\ response.pc = "sent" /\ response.status \in {200, 206} =>
       response.body = BytesOf(response.announced)

LEMMA TransferInitInv == TransferInit => TransferInv
  <1> SUFFICES ASSUME TransferInit PROVE TransferInv
    OBVIOUS
  <1>1. NoBytes \in Interval
    BY DEF NoBytes, Interval
  <1>2. /\ response = [pc |-> "row", status |-> 0, announced |-> NoBytes, body |-> {}]
        /\ transfer \in [kind : {"preview", "download"}, header : Header, mayRead : BOOLEAN]
    BY DEF TransferInit
  <1>3. content \in [size : 0..MaxSize, row : {"none", "live", "deleted"}, stored : BOOLEAN, inDir : BOOLEAN]
    BY DEF TransferInit
  <1>4. response.pc = "row" /\ response.status = 0
    BY <1>2
  <1>5. response \in [pc : {"row", "stat", "headers", "stream", "sent", "cut"},
                      status : {0, 200, 206, 403, 404, 416}, announced : Interval, body : SUBSET Int]
    <2>1. {} \in SUBSET Int
      OBVIOUS
    <2> HIDE DEF NoBytes
    <2>2. QED
      BY <1>1, <1>2, <2>1
  <1>6. QED
    BY <1>2, <1>3, <1>4, <1>5 DEF TransferInv

\* Only the answer moves on.
LEMMA AnswerMoves ==
  ASSUME TransferInv, UNCHANGED <<content, transfer>>,
         NEW pc \in {"row", "stat", "headers", "stream", "sent", "cut"},
         NEW status \in {0, 200, 206, 403, 404, 416},
         NEW announced \in Interval, NEW body \in SUBSET Int,
         response' = [pc |-> pc, status |-> status, announced |-> announced, body |-> body],
         pc \in {"row", "stat", "headers"} => status = 0,
         pc = "stream" => status \in {200, 206},
         status = 206 => Heeded /\ ToSend # {} /\ BytesOf(announced) = ToSend,
         status = 416 => Heeded /\ ToSend = {},
         status = 200 => ~Heeded /\ BytesOf(announced) = Whole,
         pc = "sent" /\ status \in {200, 206} => body = BytesOf(announced)
  PROVE  TransferInv'
  <1>1. /\ response'.pc = pc /\ response'.status = status /\ response'.announced = announced
        /\ response'.body = body
    OBVIOUS
  <1>2. response' \in [pc : {"row", "stat", "headers", "stream", "sent", "cut"},
                       status : {0, 200, 206, 403, 404, 416}, announced : Interval, body : SUBSET Int]
    OBVIOUS
  <1>3. Heeded' = Heeded /\ ToSend' = ToSend /\ Whole' = Whole
    BY DEF Heeded, ToSend, Whole
  <1>4. QED
    BY <1>1, <1>2, <1>3 DEF TransferInv

LEMMA TransferStepInv ==
  ASSUME TransferInv, TransferStep
  PROVE  TransferInv'
  <1> DEFINE a == response.announced
             b == response.body
  <1>0. /\ UNCHANGED <<content, transfer>> /\ a \in Interval /\ b \in SUBSET Int
        /\ response = [pc |-> response.pc, status |-> response.status, announced |-> a, body |-> b]
        /\ content.size \in 0..MaxSize /\ transfer.header \in Header
        /\ response.pc \in {"row", "stat", "headers"} => response.status = 0
    BY DEF TransferStep, TransferInv
  <1>a. ASSUME NEW status \in {403, 404, 416}, Replies(status), status = 416 => Heeded /\ ToSend = {}
        PROVE  TransferInv'
    <2>1. response' = [pc |-> "sent", status |-> status, announced |-> a, body |-> b]
      BY <1>a, <1>0 DEF Replies
    <2>2. QED
      BY <1>0, <1>a, <2>1, AnswerMoves
  <1>b. ASSUME NEW pc \in {"stat", "headers"}, ReplyGoes(pc), response.status = 0
        PROVE  TransferInv'
    <2>1. response' = [pc |-> pc, status |-> 0, announced |-> a, body |-> b]
      BY <1>b, <1>0 DEF ReplyGoes
    <2>2. QED
      BY <1>0, <1>b, <2>1, AnswerMoves
  <1>1. CASE FindByIdRaw
    BY <1>0, <1>1, <1>a, <1>b DEF FindByIdRaw
  <1>2. CASE StatFile
    BY <1>0, <1>2, <1>a, <1>b DEF StatFile
  <1>3. CASE SetHeaders
    <2> DEFINE parsed == IF transfer.kind = "preview" THEN ParseRange(transfer.header, content.size) ELSE Ignore
    <2>1. /\ parsed.is = "ignore" => ~Heeded
          /\ parsed.is = "unsatisfiable" => Heeded /\ ToSend = {}
          /\ parsed.is = "part" => /\ Heeded /\ ToSend # {}
                                  /\ parsed.start \in 0..MaxNumber /\ parsed.end \in -1..MaxNumber
                                  /\ ToSend = parsed.start..parsed.end
          /\ parsed.is \in {"ignore", "unsatisfiable", "part"}
      BY <1>0, ParseRangeMeans DEF Heeded, ToSend, Ignore
    <2>2. CASE parsed.is = "part" \/ parsed.is = "unsatisfiable" \/ parsed.is = "ignore"
      <3>1. \/ parsed.is = "part" /\ Announces(206, parsed.start, parsed.end)
            \/ parsed.is = "unsatisfiable" /\ Replies(416)
            \/ parsed.is = "ignore" /\ Announces(200, 0, content.size - 1)
        BY <1>3, <2>2, ZenonT(40) DEF SetHeaders
      <3> HIDE DEF parsed
      <3>2. ASSUME NEW status \in {200, 206}, NEW s \in 0..MaxNumber, NEW e \in -1..MaxNumber,
                   Announces(status, s, e),
                   status = 206 => Heeded /\ ToSend # {} /\ s..e = ToSend,
                   status = 200 => ~Heeded /\ s..e = Whole
            PROVE  TransferInv'
        <4> DEFINE i == [start |-> s, end |-> e]
        <4>1. i \in Interval /\ BytesOf(i) = s..e
          BY DEF Interval, BytesOf
        <4>2. response' = [pc |-> "stream", status |-> status, announced |-> i, body |-> b]
          BY <1>0, <3>2 DEF Announces
        <4> HIDE DEF i
        <4>3. QED
          BY <1>0, <3>2, <4>1, <4>2, AnswerMoves
      <3>3. CASE parsed.is = "part" /\ Announces(206, parsed.start, parsed.end)
        BY <2>1, <3>2, <3>3
      <3>4. CASE parsed.is = "unsatisfiable" /\ Replies(416)
        BY <1>a, <2>1, <3>4
      <3>5. CASE parsed.is = "ignore" /\ Announces(200, 0, content.size - 1)
        <4>1. 0 \in 0..MaxNumber /\ content.size - 1 \in -1..MaxNumber
          BY <1>0
        <4>2. QED
          BY <2>1, <3>2, <3>5, <4>1 DEF Whole
      <3>6. QED
        BY <3>1, <3>3, <3>4, <3>5
    <2>3. QED
      BY <2>1, <2>2
  <1>4. CASE StreamEnds
    <2> DEFINE body == BytesOf(a) \cap 0..(content.size - 1)
    <2>1. response' = [pc |-> "sent", status |-> response.status, announced |-> a, body |-> body]
      BY <1>0, <1>4 DEF StreamEnds
    <2>2. /\ response.status \in {200, 206}
          /\ response.status = 206 => Heeded /\ ToSend # {} /\ BytesOf(a) = ToSend
          /\ response.status = 200 => ~Heeded /\ BytesOf(a) = Whole
      BY <1>4 DEF StreamEnds, TransferInv
    <2>3. body = BytesOf(a) /\ body \in SUBSET Int
      BY <1>0, <2>2 DEF ToSend, Wanted, Whole
    <2> HIDE DEF body
    <2>4. QED
      BY <1>0, <2>1, <2>2, <2>3, AnswerMoves
  <1>5. CASE StreamBreaks
    <2>1. PICK short \in a.start..a.end :
            response' = [response EXCEPT !.pc = "cut", !.body = a.start..(short - 1)]
      BY <1>5 DEF StreamBreaks
    <2> DEFINE body == a.start..(short - 1)
    <2>2. response' = [pc |-> "cut", status |-> response.status, announced |-> a, body |-> body]
      BY <1>0, <2>1
    <2>3. /\ response.status \in {200, 206}
          /\ response.status = 206 => Heeded /\ ToSend # {} /\ BytesOf(a) = ToSend
          /\ response.status = 200 => ~Heeded /\ BytesOf(a) = Whole
      BY <1>5 DEF StreamBreaks, TransferInv
    <2>4. body \in SUBSET Int
      OBVIOUS
    <2> HIDE DEF body
    <2>5. QED
      BY <1>0, <2>2, <2>3, <2>4, AnswerMoves
  <1>6. QED
    BY <1>1, <1>2, <1>3, <1>4, <1>5 DEF TransferStep

LEMMA TransferAlways == TransferSpec => []TransferInv
  <1>1. ASSUME TransferInv, [TransferNext]_transferVars PROVE TransferInv'
    <2>1. CASE RowTurns \/ FileMoves
      <3>1. /\ UNCHANGED <<transfer, response>> /\ content'.size = content.size
            /\ content' \in [size : 0..MaxSize, row : {"none", "live", "deleted"}, stored : BOOLEAN, inDir : BOOLEAN]
        <4>1. content \in [size : 0..MaxSize, row : {"none", "live", "deleted"}, stored : BOOLEAN, inDir : BOOLEAN]
          BY <1>1 DEF TransferInv
        <4>2. ASSUME NEW r \in {"none", "live", "deleted"}, content' = [content EXCEPT !.row = r]
              PROVE  /\ content'.size = content.size
                     /\ content' \in [size : 0..MaxSize, row : {"none", "live", "deleted"}, stored : BOOLEAN, inDir : BOOLEAN]
          BY <4>1, <4>2
        <4>3. ASSUME NEW v \in BOOLEAN, content' = [content EXCEPT !.stored = v]
              PROVE  /\ content'.size = content.size
                     /\ content' \in [size : 0..MaxSize, row : {"none", "live", "deleted"}, stored : BOOLEAN, inDir : BOOLEAN]
          BY <4>1, <4>3
        <4>4. CASE RowTurns
          <5>1. UNCHANGED <<transfer, response>>
            BY <4>4 DEF RowTurns
          <5>2. \E r \in {"none", "live", "deleted"} : content' = [content EXCEPT !.row = r]
            BY <4>4 DEF RowTurns
          <5>3. QED
            BY <4>2, <5>1, <5>2
        <4>5. CASE FileMoves
          <5>1. UNCHANGED <<transfer, response>> /\ content' = [content EXCEPT !.stored = ~content.stored]
            BY <4>5 DEF FileMoves
          <5>2. PICK v : v = ~content.stored
            OBVIOUS
          <5>3. v \in BOOLEAN
            BY <5>2, Zenon
          <5>4. content' = [content EXCEPT !.stored = v]
            BY <5>1, <5>2, Zenon
          <5>5. QED
            BY <4>3, <5>1, <5>3, <5>4
        <4>6. QED
          BY <2>1, <4>4, <4>5
      <3>2. Heeded' = Heeded /\ ToSend' = ToSend /\ Whole' = Whole
        BY <3>1 DEF Heeded, ToSend, Whole
      <3>3. QED
        BY <1>1, <3>1, <3>2 DEF TransferInv
    <2>2. CASE UNCHANGED transferVars
      BY <1>1, <2>2 DEF transferVars, TransferInv, Heeded, ToSend, Whole
    <2>3. QED
      BY <1>1, <2>1, <2>2, TransferStepInv DEF TransferNext
  <1>2. QED
    BY <1>1, TransferInitInv, PTL DEF TransferSpec

(* Whatever header a preview carries and however the file is moved away or put
   back meanwhile: a 206 announces exactly the bytes of the file that were asked
   for, a 416 is given only when there are none, a 200 announces the whole file,
   and an answer that is not cut short sends what it announced (parseRange).   *)
THEOREM RangesAreAnswered == TransferSpec => []AnswersTheRange
  <1>1. TransferInv => AnswersTheRange
    BY DEF TransferInv, AnswersTheRange, Heeded, ToSend, Wanted, Whole
  <1>2. QED
    BY <1>1, TransferAlways, PTL

-----------------------------------------------------------------------------
(* Types.  What the invariants above do not say of the variables, so that each
   component keeps its type.                                                   *)
CodeRest ==
  /\ cooling \in BOOLEAN /\ guesses \in 0..GuessLimit
  /\ owner \in {"nobody", "code", "other"} /\ codeFaults \in 0..MaxCodeFaults

LEMMA CodeTypes == CodeSpec => []CodeTypeOK
  <1> USE RegistrationAssumption
  <1>1. CodeInit => CodeRest
    <2> SUFFICES ASSUME CodeInit PROVE CodeRest
      OBVIOUS
    <2>1. cooling \in BOOLEAN
      BY Zenon DEF CodeInit
    <2> QED
      BY <2>1 DEF CodeInit, CodeRest
  <1>2. CodeRest /\ [CodeNext]_codeVars => CodeRest'
    <2> SUFFICES ASSUME CodeRest, [CodeNext]_codeVars PROVE CodeRest'
      OBVIOUS
    <2>1. codeFaults' = codeFaults \/ CodeFault
      BY Zenon DEF CodeNext, codeVars, SendCode, SendCodeFails, Ask, Take, PutWrongBack, Count,
        DropCode, ClearGuesses, Precheck, InsertUser, InsertUserFails, PutBack, Broken,
        OtherAccount, AccountGoes, TimePasses
    <2>2. guesses' = guesses \/ guesses' = 0 \/ guesses' = IF guesses < GuessLimit THEN guesses + 1 ELSE guesses
      BY Zenon DEF CodeNext, codeVars, SendCode, SendCodeFails, Ask, Take, PutWrongBack, Count,
        DropCode, ClearGuesses, Precheck, InsertUser, InsertUserFails, PutBack, Broken,
        OtherAccount, AccountGoes, TimePasses
    <2>3. cooling' = cooling \/ cooling' = TRUE \/ cooling' = FALSE
      BY Zenon DEF CodeNext, codeVars, SendCode, SendCodeFails, Ask, Take, PutWrongBack, Count,
        DropCode, ClearGuesses, Precheck, InsertUser, InsertUserFails, PutBack, Broken,
        OtherAccount, AccountGoes, TimePasses
    <2>4. owner' \in {owner, "code", "other", "nobody"}
      BY DEF CodeNext, codeVars, SendCode, SendCodeFails, Ask, Take, PutWrongBack, Count,
        DropCode, ClearGuesses, Precheck, InsertUser, InsertUserFails, PutBack, Broken,
        OtherAccount, AccountGoes, TimePasses
    <2>5. cooling' \in BOOLEAN
      BY <2>3, Zenon DEF CodeRest
    <2>6. codeFaults' \in 0..MaxCodeFaults
      BY <2>1 DEF CodeRest, CodeFault
    <2>7. guesses' \in 0..GuessLimit
      BY <2>2 DEF CodeRest
    <2> QED
      BY <2>4, <2>5, <2>6, <2>7 DEF CodeRest
  <1>3. CodeInv /\ CodeRest => CodeTypeOK
    BY DEF CodeInv, RequestsTyped, CodesTyped, CodeRest, CodeTypeOK
  <1> QED
    BY <1>1, <1>2, <1>3, CodeInductive, PTL DEF CodeSpec

LEMMA MailTypes == MailSpec => []MailTypeOK
  <1> USE MailAssumption
  <1>1. MailInit => MailTypeOK
    <2> SUFFICES ASSUME MailInit PROVE MailTypeOK
      OBVIOUS
    <2>1. mailLock \in BOOLEAN /\ overrun \in BOOLEAN
      BY Zenon DEF MailInit
    <2> QED
      BY <2>1 DEF MailInit, MailTypeOK
  <1>2. MailTypeOK /\ [MailNext]_mailVars => MailTypeOK'
    <2> SUFFICES ASSUME MailTypeOK, [MailNext]_mailVars PROVE MailTypeOK'
      OBVIOUS
    <2>1. letter' \in [Letter -> {"none", "lock", "send", "release"}]
      BY DEF MailNext, mailVars, Post, TakeMailLock, MailLockFails, Deliver, DeliverFails,
        ReleaseMailLock, MailLockEnds, LetterGoes, MailTypeOK
    <2>2. mailFaults' = mailFaults \/ MailFault
      BY Zenon DEF MailNext, mailVars, Post, TakeMailLock, MailLockFails, Deliver, DeliverFails,
        ReleaseMailLock, MailLockEnds
    <2>3. mailLock' \in {mailLock, TRUE, FALSE}
      BY Zenon DEF MailNext, mailVars, Post, TakeMailLock, MailLockFails, Deliver, DeliverFails,
        ReleaseMailLock, MailLockEnds
    <2>4. overrun' \in {overrun, overrun \/ UnderDelivery # {}}
      BY Zenon DEF MailNext, mailVars, Post, TakeMailLock, MailLockFails, Deliver, DeliverFails,
        ReleaseMailLock, MailLockEnds
    <2>5. mailLock' \in BOOLEAN /\ overrun' \in BOOLEAN
      BY <2>3, <2>4, Zenon DEF MailTypeOK
    <2>6. mailFaults' \in 0..MaxMailFaults
      BY <2>2 DEF MailFault, MailTypeOK
    <2> QED
      BY <2>1, <2>5, <2>6 DEF MailTypeOK
  <1> QED
    BY <1>1, <1>2, PTL DEF MailSpec

SignInRest ==
  /\ wechatUser \in {"none", "live", "disabled", "deleted"}
  /\ signInFaults \in 0..MaxSignInFaults

LEMMA SignInTypes == SignInSpec => []SignInTypeOK
  <1>1. SignInInit => SignInRest
    BY SignInAssumption DEF SignInInit, SignInRest
  <1>2. SignInRest /\ [SignInNext]_signInVars => SignInRest'
    <2> SUFFICES ASSUME SignInRest, [SignInNext]_signInVars PROVE SignInRest'
      OBVIOUS
    <2> USE SignInAssumption DEF SignInRest
    <2>1. signInFaults' \in 0..MaxSignInFaults
      BY DEF SignInNext, signInVars, SignInFault, Enforce, EnforceFails, VerifyWrong, VerifyRight,
        ClearFailures, Scan, FindUser, CreateUser, GetQrCode, QrExpires, CounterExpires, AdminChangesUser
    <2>2. wechatUser' \in {"none", "live", "disabled", "deleted"}
      BY DEF SignInNext, signInVars, wechatVars, Enforce, EnforceFails, VerifyWrong, VerifyRight,
        ClearFailures, Scan, FindUser, CreateUser, GetQrCode, QrExpires, CounterExpires, AdminChangesUser
    <2> QED
      BY <2>1, <2>2
  <1>3. SignInInv /\ SignInRest => SignInTypeOK
    BY DEF SignInInv, LoginsTyped, Throttled, ScannedOnce, SignInRest, SignInTypeOK
  <1> QED
    BY <1>1, <1>2, <1>3, SignInInductive, PTL DEF SignInSpec

\* The roles a transaction sees are numbered by the sequence or were there before.
LEMMA SetupTypes == SetupSpec => []SetupTypeOK
  <1>1. NoRow \in RoleRow /\ NoStarter \in StarterState
    BY SetupAssumption DEF NoRow, RoleRow, NoStarter, StarterState
  <1>2. SetupInit => SetupTypeOK
    <2> SUFFICES ASSUME SetupInit PROVE SetupTypeOK
      OBVIOUS
    <2>1. adminRow \in RoleRow /\ userRow \in RoleRow /\ nextRoleId \in 1..MaxRoleId
      BY <1>1, SetupAssumption DEF SetupInit, RoleRow
    <2>2. nameTaken \in BOOLEAN /\ setupCompleted \in BOOLEAN
      BY Zenon DEF SetupInit
    <2> QED
      BY <1>1, <2>1, <2>2, SetupAssumption DEF SetupInit, SetupTypeOK
  <1>3. SetupTypeOK /\ [SetupNext]_setupVars => SetupTypeOK'
    <2> SUFFICES ASSUME SetupTypeOK, [SetupNext]_setupVars PROVE SetupTypeOK'
      OBVIOUS
    <2> USE DEF SetupTypeOK
    <2>1. ASSUME NEW s \in Starter, NEW pc \in {"idle", "wait", "done", "refused", "failed", "mismatch"},
                 Becomes(s, pc)
          PROVE  starter' \in [Starter -> StarterState]
      BY <1>1, <2>1 DEF Becomes, StarterState, NoStarter
    <2>2. ASSUME NEW s \in Starter, Begin(s) \/ SetupFails(s) \/ TryAgain(s) PROVE SetupTypeOK'
      <3>1. starter' \in [Starter -> StarterState]
        BY <2>1, <2>2 DEF Begin, SetupFails, TryAgain
      <3>2. setupFaults' \in 0..MaxSetupFaults
        BY <2>2, SetupAssumption DEF Begin, SetupFails, TryAgain
      <3> QED
        BY <2>2, <3>1, <3>2 DEF Begin, SetupFails, TryAgain, rowVars
    <2>3. ASSUME NEW s \in Starter, TakeTheLock(s) PROVE SetupTypeOK'
      <3>1. CASE Becomes(s, "refused")
        BY <2>1, <2>3, <3>1 DEF TakeTheLock, rowVars
      <3>2. CASE starter' = [starter EXCEPT ![s] = [pc |-> "roles", admin |-> adminRow, user |-> userRow]]
        BY <2>3, <3>2 DEF TakeTheLock, rowVars, StarterState
      <3> QED
        BY <2>3, <3>1, <3>2 DEF TakeTheLock
    <2>4. ASSUME NEW s \in Starter, PrepareRoles(s) PROVE SetupTypeOK'
      <3> DEFINE admin == Settled(starter[s].admin, nextRoleId)
                 user == Settled(starter[s].user, nextRoleId + 1)
      <3>1. starter[s].admin \in RoleRow /\ starter[s].user \in RoleRow
        BY DEF StarterState
      <3>2. nextRoleId \in 0..MaxRoleId /\ nextRoleId + 1 \in 0..MaxRoleId /\ nextRoleId' \in 1..MaxRoleId
        BY <2>4, SetupAssumption DEF PrepareRoles
      <3>3. ASSUME NEW r \in RoleRow, NEW id \in 0..MaxRoleId PROVE Settled(r, id) \in RoleRow
        BY <3>3 DEF Settled, RoleRow
      <3>4. admin \in RoleRow /\ user \in RoleRow
        BY <3>1, <3>2, <3>3
      <3>5. \/ starter' = [starter EXCEPT ![s] = [pc |-> "admin", admin |-> admin, user |-> user]]
            \/ Becomes(s, "mismatch")
        BY <2>4 DEF PrepareRoles
      <3> HIDE DEF admin, user
      <3>6. [pc |-> "admin", admin |-> admin, user |-> user] \in StarterState
        BY <3>4 DEF StarterState
      <3>7. starter' \in [Starter -> StarterState]
        BY <2>1, <3>5, <3>6
      <3> QED
        BY <2>4, <3>2, <3>7 DEF PrepareRoles, rowVars
    <2>5. ASSUME NEW s \in Starter, InsertAdmin(s) PROVE SetupTypeOK'
      <3>1. starter[s].admin \in RoleRow /\ starter[s].user \in RoleRow
        BY DEF StarterState
      <3>2. ASSUME NEW made \in {0, 1}, Commit(s, made), setupCompleted' \in BOOLEAN PROVE SetupTypeOK'
        BY <2>1, <3>1, <3>2 DEF Commit
      <3>3. CASE Becomes(s, "refused") /\ UNCHANGED <<rowVars, nextRoleId, setupCompleted, setupFaults>>
        BY <2>1, <3>3 DEF rowVars
      <3> QED
        BY <2>5, <3>2, <3>3 DEF InsertAdmin
    <2>6. CASE NameChanges \/ Restart \/ UNCHANGED setupVars
      BY <2>6 DEF NameChanges, Restart, setupVars, rowVars
    <2> QED
      BY <2>2, <2>3, <2>4, <2>5, <2>6 DEF SetupNext
  <1> QED
    BY <1>2, <1>3, PTL DEF SetupSpec

LEMMA PreviewTypes == PreviewSpec => []PreviewTypeOK
  <1>1. PreviewInit => PreviewInv
    BY DEF PreviewInit, PreviewInv, PreviewTypeOK, OneObjectUrl, ClickState
  <1>2. PreviewInv => PreviewTypeOK
    BY DEF PreviewInv
  <1> QED
    BY <1>1, <1>2, PreviewStep, PTL DEF PreviewSpec

\* No byte is sent beyond the numbers a header may name.
BodyBound == response.body \subseteq 0..MaxNumber

LEMMA TransferTypes == TransferSpec => []TransferTypeOK
  <1>1. TransferInit => BodyBound
    BY DEF TransferInit, BodyBound
  <1>2. TransferInv /\ BodyBound /\ [TransferNext]_transferVars => BodyBound'
    <2> SUFFICES ASSUME TransferInv, BodyBound, [TransferNext]_transferVars PROVE BodyBound'
      OBVIOUS
    <2>1. response.announced.start \in Int /\ response.announced.end \in Int
          /\ BytesOf(response.announced) \subseteq 0..MaxNumber
      BY DEF TransferInv, Interval, BytesOf
    <2>2. CASE response'.body = response.body
      BY <2>2 DEF BodyBound
    <2>3. CASE StreamEnds
      BY <2>1, <2>3 DEF StreamEnds, BodyBound, TransferInv
    <2>4. CASE StreamBreaks
      BY <2>1, <2>4 DEF StreamBreaks, BodyBound, TransferInv, BytesOf
    <2>5. CASE FindByIdRaw \/ StatFile \/ SetHeaders
      <3>1. ASSUME NEW pc, NEW status, NEW announced,
                   response' = [response EXCEPT !.pc = pc, !.status = status, !.announced = announced]
            PROVE  response'.body = response.body
        BY <3>1 DEF TransferInv
      <3>2. ASSUME NEW status, Replies(status) \/ ReplyGoes(status) PROVE response'.body = response.body
        <4>1. Replies(status) => response' = [response EXCEPT !.pc = "sent", !.status = status]
          BY DEF Replies
        <4>2. ReplyGoes(status) => response' = [response EXCEPT !.pc = status]
          BY DEF ReplyGoes
        <4>3. \A pc : /\ [response EXCEPT !.pc = pc, !.status = status].body = response.body
                      /\ [response EXCEPT !.pc = pc].body = response.body
          BY DEF TransferInv
        <4>4. CASE Replies(status)
          BY <4>1, <4>3, <4>4, Zenon
        <4>5. CASE ReplyGoes(status)
          BY <4>2, <4>3, <4>5, Zenon
        <4> QED
          BY <3>2, <4>4, <4>5
      <3>3. ASSUME NEW status, NEW start, NEW end, Announces(status, start, end)
            PROVE  response'.body = response.body
        <4>1. response' = [response EXCEPT !.pc = "stream", !.status = status,
                             !.announced = [start |-> start, end |-> end]]
          BY <3>3 DEF Announces
        <4> QED
          BY <3>1, <4>1
      <3>4. CASE FindByIdRaw
        BY <2>2, <3>2, <3>4 DEF FindByIdRaw
      <3>5. CASE StatFile
        BY <2>2, <3>2, <3>5 DEF StatFile
      <3>6. CASE SetHeaders
        <4> DEFINE meant == IF transfer.kind = "preview" THEN ParseRange(transfer.header, content.size) ELSE Ignore
        <4>1. meant.is \in {"part", "unsatisfiable", "ignore"}
          <5>1. ASSUME NEW x, NEW y PROVE Part(x, y).is = "part"
            BY DEF Part
          <5>2. Ignore.is = "ignore" /\ Unsatisfiable.is = "unsatisfiable"
            BY DEF Ignore, Unsatisfiable
          <5> QED
            BY <5>1, <5>2, Zenon DEF ParseRange, ParseSuffix, ParsePart
        <4>2. CASE meant.is = "part"
          BY <2>2, <3>3, <3>6, <4>2 DEF SetHeaders
        <4>3. CASE meant.is = "unsatisfiable"
          BY <2>2, <3>2, <3>6, <4>3 DEF SetHeaders
        <4>4. CASE meant.is = "ignore"
          BY <2>2, <3>3, <3>6, <4>4 DEF SetHeaders
        <4> QED
          BY <4>1, <4>2, <4>3, <4>4
      <3> QED
        BY <2>5, <3>4, <3>5, <3>6
    <2> QED
      BY <2>2, <2>3, <2>4, <2>5 DEF TransferNext, TransferStep, RowTurns, FileMoves, transferVars
  <1>3. TransferInv /\ BodyBound => TransferTypeOK
    BY DEF TransferInv, BodyBound, TransferTypeOK
  <1> QED
    BY <1>1, <1>2, <1>3, TransferAlways, PTL DEF TransferSpec

-----------------------------------------------------------------------------
(* The composition of MCOverlaps is a behaviour of each component: when another
   one acts, this one's variables rest.                                       *)
LEMMA CodeRests == OverlapsSpec => CodeSpec
  <1>1. OverlapsInit => CodeInit
    BY DEF OverlapsInit
  <1>2. [OverlapsNext]_<<acting, backupVars, quotaVars, logVars, codeVars, setupVars, signInVars, dialogVars, previewVars, presenceVars, transferVars, mailVars>>
          => [CodeNext]_codeVars
    BY DEF OverlapsNext, BackupActs, QuotaActs, LogActs, CodeActs, SetupActs, SignInActs,
      DialogActs, PreviewActs, PresenceActs, TransferActs, MailActs
  <1>3. QED
    BY <1>1, <1>2, PTL DEF OverlapsSpec, CodeSpec

LEMMA MailRests == OverlapsSpec => MailSpec
  <1>1. OverlapsInit => MailInit
    BY DEF OverlapsInit
  <1>2. [OverlapsNext]_<<acting, backupVars, quotaVars, logVars, codeVars, setupVars, signInVars, dialogVars, previewVars, presenceVars, transferVars, mailVars>>
          => [MailNext]_mailVars
    BY DEF OverlapsNext, BackupActs, QuotaActs, LogActs, CodeActs, SetupActs, SignInActs,
      DialogActs, PreviewActs, PresenceActs, TransferActs, MailActs
  <1>3. QED
    BY <1>1, <1>2, PTL DEF OverlapsSpec, MailSpec

LEMMA BackupRests == OverlapsSpec => BackupSpec
  <1>1. OverlapsInit => BackupInit
    BY DEF OverlapsInit
  <1>2. [OverlapsNext]_<<acting, backupVars, quotaVars, logVars, codeVars, setupVars, signInVars, dialogVars, previewVars, presenceVars, transferVars, mailVars>>
          => [BackupNext]_backupVars
    BY DEF OverlapsNext, BackupActs, QuotaActs, LogActs, CodeActs, SetupActs, SignInActs,
      DialogActs, PreviewActs, PresenceActs, TransferActs, MailActs
  <1>3. QED
    BY <1>1, <1>2, PTL DEF OverlapsSpec, BackupSpec

LEMMA QuotaRests == OverlapsSpec => QuotaSpec
  <1>1. OverlapsInit => QuotaInit
    BY DEF OverlapsInit
  <1>2. [OverlapsNext]_<<acting, backupVars, quotaVars, logVars, codeVars, setupVars, signInVars, dialogVars, previewVars, presenceVars, transferVars, mailVars>>
          => [QuotaNext]_quotaVars
    BY DEF OverlapsNext, BackupActs, QuotaActs, LogActs, CodeActs, SetupActs, SignInActs,
      DialogActs, PreviewActs, PresenceActs, TransferActs, MailActs
  <1>3. QED
    BY <1>1, <1>2, PTL DEF OverlapsSpec, QuotaSpec

LEMMA LogRests == OverlapsSpec => LogSpec
  <1>1. OverlapsInit => LogInit
    BY DEF OverlapsInit
  <1>2. [OverlapsNext]_<<acting, backupVars, quotaVars, logVars, codeVars, setupVars, signInVars, dialogVars, previewVars, presenceVars, transferVars, mailVars>>
          => [LogNext]_logVars
    BY DEF OverlapsNext, BackupActs, QuotaActs, LogActs, CodeActs, SetupActs, SignInActs,
      DialogActs, PreviewActs, PresenceActs, TransferActs, MailActs
  <1>3. QED
    BY <1>1, <1>2, PTL DEF OverlapsSpec, LogSpec

LEMMA SetupRests == OverlapsSpec => SetupSpec
  <1>1. OverlapsInit => SetupInit
    BY DEF OverlapsInit
  <1>2. [OverlapsNext]_<<acting, backupVars, quotaVars, logVars, codeVars, setupVars, signInVars, dialogVars, previewVars, presenceVars, transferVars, mailVars>>
          => [SetupNext]_setupVars
    BY DEF OverlapsNext, BackupActs, QuotaActs, LogActs, CodeActs, SetupActs, SignInActs,
      DialogActs, PreviewActs, PresenceActs, TransferActs, MailActs
  <1>3. QED
    BY <1>1, <1>2, PTL DEF OverlapsSpec, SetupSpec

LEMMA SignInRests == OverlapsSpec => SignInSpec
  <1>1. OverlapsInit => SignInInit
    BY DEF OverlapsInit
  <1>2. [OverlapsNext]_<<acting, backupVars, quotaVars, logVars, codeVars, setupVars, signInVars, dialogVars, previewVars, presenceVars, transferVars, mailVars>>
          => [SignInNext]_signInVars
    BY DEF OverlapsNext, BackupActs, QuotaActs, LogActs, CodeActs, SetupActs, SignInActs,
      DialogActs, PreviewActs, PresenceActs, TransferActs, MailActs
  <1>3. QED
    BY <1>1, <1>2, PTL DEF OverlapsSpec, SignInSpec

LEMMA DialogRests == OverlapsSpec => DialogSpec
  <1>1. OverlapsInit => DialogInit
    BY DEF OverlapsInit
  <1>2. [OverlapsNext]_<<acting, backupVars, quotaVars, logVars, codeVars, setupVars, signInVars, dialogVars, previewVars, presenceVars, transferVars, mailVars>>
          => [DialogNext]_dialogVars
    BY DEF OverlapsNext, BackupActs, QuotaActs, LogActs, CodeActs, SetupActs, SignInActs,
      DialogActs, PreviewActs, PresenceActs, TransferActs, MailActs
  <1>3. QED
    BY <1>1, <1>2, PTL DEF OverlapsSpec, DialogSpec

LEMMA PreviewRests == OverlapsSpec => PreviewSpec
  <1>1. OverlapsInit => PreviewInit
    BY DEF OverlapsInit
  <1>2. [OverlapsNext]_<<acting, backupVars, quotaVars, logVars, codeVars, setupVars, signInVars, dialogVars, previewVars, presenceVars, transferVars, mailVars>>
          => [PreviewNext]_previewVars
    BY DEF OverlapsNext, BackupActs, QuotaActs, LogActs, CodeActs, SetupActs, SignInActs,
      DialogActs, PreviewActs, PresenceActs, TransferActs, MailActs
  <1>3. QED
    BY <1>1, <1>2, PTL DEF OverlapsSpec, PreviewSpec

LEMMA PresenceRests == OverlapsSpec => PresenceSpec
  <1>1. OverlapsInit => PresenceInit
    BY DEF OverlapsInit
  <1>2. [OverlapsNext]_<<acting, backupVars, quotaVars, logVars, codeVars, setupVars, signInVars, dialogVars, previewVars, presenceVars, transferVars, mailVars>>
          => [PresenceNext]_presenceVars
    BY DEF OverlapsNext, BackupActs, QuotaActs, LogActs, CodeActs, SetupActs, SignInActs,
      DialogActs, PreviewActs, PresenceActs, TransferActs, MailActs
  <1>3. QED
    BY <1>1, <1>2, PTL DEF OverlapsSpec, PresenceSpec

LEMMA TransferRests == OverlapsSpec => TransferSpec
  <1>1. OverlapsInit => TransferInit
    BY DEF OverlapsInit
  <1>2. [OverlapsNext]_<<acting, backupVars, quotaVars, logVars, codeVars, setupVars, signInVars, dialogVars, previewVars, presenceVars, transferVars, mailVars>>
          => [TransferNext]_transferVars
    BY DEF OverlapsNext, BackupActs, QuotaActs, LogActs, CodeActs, SetupActs, SignInActs,
      DialogActs, PreviewActs, PresenceActs, TransferActs, MailActs
  <1>3. QED
    BY <1>1, <1>2, PTL DEF OverlapsSpec, TransferSpec

(* Of what is sent to an address nothing is there twice, in the composition that TLC
   checks: a code is in one place or used, and one mail at a time is under way.  *)
THEOREM NothingTwice == OverlapsSpec => []OnceOnly
  <1>1. CodeOnce /\ MailOnce => OnceOnly
    BY DEF OnceOnly
  <1>2. QED
    BY <1>1, CodeRests, MailRests, CodesServeOnce, MailsGoOneByOne, PTL

(* In the composition every variable keeps its type, for all the parameters. *)
THEOREM OverlapsTypeCorrect == OverlapsSpec => []OverlapsTypeOK
  <1>1. LogInv => LogTypeOK
    BY DEF LogInv
  <1>2. DialogInv => DialogTypeOK
    BY DEF DialogInv
  <1>3. BackupTypeOK /\ QuotaTypeOK /\ LogTypeOK /\ CodeTypeOK /\ SetupTypeOK /\ SignInTypeOK
          /\ DialogTypeOK /\ PreviewTypeOK /\ PresenceTypeOK /\ TransferTypeOK /\ MailTypeOK
        => OverlapsTypeOK
    BY DEF OverlapsTypeOK
  <1> QED
    BY <1>1, <1>2, <1>3, BackupRests, BackupTypeCorrect, QuotaRests, QuotaIsCovered, LogRests, LogAlways,
      CodeRests, CodeTypes, SetupRests, SetupTypes, SignInRests, SignInTypes, DialogRests, DialogAlways,
      PreviewRests, PreviewTypes, PresenceRests, PresenceTypeCorrect, TransferRests, TransferTypes,
      MailRests, MailTypes, PTL
=============================================================================
