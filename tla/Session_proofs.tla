--------------------------- MODULE Session_proofs ---------------------------
(***************************************************************************)
(* Proofs about Session, for any number of requests, pairs and failures.   *)
(***************************************************************************)
EXTENDS Session, TLAPS

USE SessionAssumption DEF SigningPc, RefreshPc, RevokingPc, OutcomePc

-----------------------------------------------------------------------------
(* Type correctness.  A request that is about to use the token it presented,
   or the pair it signed, has one: this makes the type invariant inductive. *)
TokensKnown(s) ==
  /\ s.pc \in RefreshPc => s.op = "refresh" /\ s.rt \in Jti
  /\ s.pc \in SigningPc => \/ s.op = "refresh" /\ s.rt \in Jti
                           \/ s.op = "login" /\ s.rt = None
  /\ s.pc \in {"register", "store", "recheck"} => s.new \in Jti

WellFormed(s) == s \in ReqState /\ TokensKnown(s)

TypeInv == TypeOK /\ \A r \in Request : WellFormed(req[r])

ReqTyped == req \in [Request -> ReqState] /\ \A r \in Request : WellFormed(req[r])

Cred == [mustChange : BOOLEAN, pw : Nat]

LEMMA IdleTyped == Idle \in ReqState /\ WellFormed(Idle)
  BY DEF Idle, ReqState, CredOf, WellFormed, TokensKnown, Pc, Op

LEMMA CredTyped ==
  ASSUME NEW m \in BOOLEAN, NEW p \in Nat
  PROVE  CredOf(m, p) \in Cred
  BY DEF CredOf, Cred

LEMMA BecomeTyped ==
  ASSUME TypeInv, NEW r \in Request, NEW s, WellFormed(s), Become(r, s)
  PROVE  ReqTyped'
  <1>1. s \in ReqState /\ req \in [Request -> ReqState]
    BY DEF WellFormed, TypeInv, TypeOK
  <1>2. req' \in [Request -> ReqState]
    BY <1>1 DEF Become
  <1>3. \A q \in Request : req'[q] = IF q = r THEN s ELSE req[q]
    BY <1>1 DEF Become
  <1>4. \A q \in Request : WellFormed(req'[q])
    BY <1>3 DEF TypeInv
  <1>5. QED
    BY <1>2, <1>4 DEF ReqTyped, WellFormed, TokensKnown

LEMMA GotoTyped ==
  ASSUME TypeInv, NEW r \in Request,
         NEW pc \in SigningPc \cup RefreshPc \cup RevokingPc \cup OutcomePc,
         TokensKnown([req[r] EXCEPT !.pc = pc]), Goto(r, pc)
  PROVE  ReqTyped'
  <1>1. req[r] \in ReqState
    BY DEF TypeInv, TypeOK
  <1>2. [req[r] EXCEPT !.pc = pc] \in ReqState
    BY <1>1 DEF ReqState, Pc
  <1>3. QED
    BY <1>2, BecomeTyped DEF Goto, WellFormed

LEMMA FinishTyped ==
  ASSUME TypeInv, NEW r \in Request, NEW o \in OutcomePc, Finish(r, o)
  PROVE  ReqTyped'
  <1> DEFINE t == IF o = "unavailable" THEN req[r].rt ELSE None
             s == [Idle EXCEPT !.pc = o, !.rt = t]
  <1>1. t \in Jti \cup {None}
    BY DEF TypeInv, TypeOK, ReqState
  <1>2. WellFormed(s)
    <2> HIDE DEF t
    <2> QED BY <1>1, IdleTyped DEF Idle, ReqState, WellFormed, TokensKnown, Pc
  <1>3. QED
    BY <1>2, BecomeTyped DEF Finish

LEMMA UnrestoredTyped ==
  ASSUME TypeInv, NEW r \in Request, AnswerUnrestored(r)
  PROVE  ReqTyped'
  <1> DEFINE s == [Idle EXCEPT !.pc = "unavailable", !.rt = req[r].rt, !.clean = FALSE]
  <1>1. req[r].rt \in Jti \cup {None}
    BY DEF TypeInv, TypeOK, ReqState
  <1>2. WellFormed(s)
    BY <1>1, IdleTyped DEF Idle, ReqState, WellFormed, TokensKnown, Pc, OutcomePc
  <1>3. QED
    BY <1>2, BecomeTyped DEF AnswerUnrestored

LEMMA InitTyped == Init => TypeInv
  <1> SUFFICES ASSUME Init PROVE TypeInv
    OBVIOUS
  <1>1. PICK j \in Jti :
          /\ refreshKeys = {j} /\ activeKeys = {j} /\ issued = {j} /\ returned = {j}
          /\ pair = [k \in Jti |-> IF k = j THEN [Blank EXCEPT !.pw = 1] ELSE Blank]
    BY DEF Init
  <1>2. Blank \in Pair /\ [Blank EXCEPT !.pw = 1] \in Pair
    BY DEF Blank, Pair
  <1>3. pair \in [Jti -> Pair]
    BY <1>1, <1>2
  <1>4. req \in [Request -> ReqState] /\ \A r \in Request : WellFormed(req[r])
    BY IdleTyped DEF Init
  <1>5. row \in Row
    BY DEF Init, Row
  <1>6. QED
    BY <1>1, <1>3, <1>4, <1>5 DEF Init, TypeOK, TypeInv

LEMMA SigningTyped ==
  ASSUME TypeInv, NEW r \in Request, LoginStep(r)
  PROVE  TypeInv'
  <1> USE DEF redis, pairs, At
  <1>0. TypeOK /\ WellFormed(req[r]) /\ req[r] \in ReqState
    BY DEF TypeInv, WellFormed
  <1>1. CASE Login(r)
    <2> DEFINE c == CredOf(row.mustChange, row.pw)
               s == [Idle EXCEPT !.pc = "sign", !.op = "login", !.cred = c]
    <2>1. c \in Cred
      BY <1>0, CredTyped DEF TypeOK, Row
    <2>2. WellFormed(s)
      <3> HIDE DEF c
      <3> QED BY <2>1, IdleTyped DEF Idle, ReqState, Pc, Op, Cred, WellFormed, TokensKnown
    <2>3. ReqTyped'
      BY <1>1, <2>2, BecomeTyped DEF Login
    <2>4. QED
      BY <1>0, <1>1, <2>3 DEF Login, TypeInv, TypeOK, ReqTyped
  <1>2. CASE Sign(r)
    <2>1. PICK j \in Jti \ issued :
            /\ issued' = issued \cup {j}
            /\ pair' = [pair EXCEPT ![j] =
                 [iat |-> now \div TicksPerSecond, mustChange |-> req[r].cred.mustChange,
                  pw |-> req[r].cred.pw, parent |-> req[r].rt]]
            /\ Become(r, [req[r] EXCEPT !.pc = "register", !.new = j])
      BY <1>2 DEF Sign
    <2>2. now \div TicksPerSecond \in Nat
      BY <1>0 DEF TypeOK
    <2>3. [iat |-> now \div TicksPerSecond, mustChange |-> req[r].cred.mustChange,
           pw |-> req[r].cred.pw, parent |-> req[r].rt] \in Pair
      BY <1>0, <2>2 DEF ReqState, Pair
    <2>4. WellFormed([req[r] EXCEPT !.pc = "register", !.new = j])
      BY <1>0, <1>2 DEF ReqState, Pc, Op, WellFormed, TokensKnown, Sign
    <2>5. ReqTyped'
      BY <2>1, <2>4, BecomeTyped
    <2>6. QED
      BY <1>0, <1>2, <2>1, <2>3, <2>5 DEF Sign, TypeInv, TypeOK, ReqTyped
  <1>3. CASE RegisterActive(r)
    <2>1. TokensKnown([req[r] EXCEPT !.pc = "store"]) /\ req[r].new \in Jti
      BY <1>0, <1>3 DEF RegisterActive, WellFormed, TokensKnown, ReqState
    <2>2. ReqTyped'
      BY <1>3, <2>1, GotoTyped DEF RegisterActive
    <2>3. QED
      BY <1>0, <1>3, <2>1, <2>2 DEF RegisterActive, TypeInv, TypeOK, ReqTyped
  <1>4. CASE StoreRefreshKey(r)
    <2>1. TokensKnown([req[r] EXCEPT !.pc = "recheck"]) \/ req[r].op = "login"
      BY <1>0, <1>4 DEF StoreRefreshKey, WellFormed, TokensKnown, ReqState
    <2>2. req[r].new \in Jti
      BY <1>0, <1>4 DEF StoreRefreshKey, WellFormed, TokensKnown
    <2>3. ReqTyped'
      BY <1>4, <2>1, GotoTyped, FinishTyped DEF StoreRefreshKey
    <2>4. QED
      BY <1>0, <1>4, <2>2, <2>3 DEF StoreRefreshKey, TypeInv, TypeOK, ReqTyped
  <1>5. CASE RegisterFails(r)
    <2>1. TokensKnown([req[r] EXCEPT !.pc = "putBack"]) \/ req[r].op # "refresh"
      BY <1>0, <1>5 DEF RegisterFails, WellFormed, TokensKnown, ReqState
    <2>2. req[r].new \in Jti
      BY <1>0, <1>5 DEF RegisterFails, WellFormed, TokensKnown
    <2>3. ReqTyped'
      BY <1>5, <2>1, GotoTyped, FinishTyped DEF RegisterFails, AfterSigningFailed
    <2>4. QED
      BY <1>0, <1>5, <2>2, <2>3
         DEF RegisterFails, Fault, MayBe, TypeInv, TypeOK, ReqTyped
  <1>6. CASE StoreFails(r)
    <2>1. TokensKnown([req[r] EXCEPT !.pc = "putBack"]) \/ req[r].op # "refresh"
      BY <1>0, <1>6 DEF StoreFails, WellFormed, TokensKnown, ReqState
    <2>2. req[r].new \in Jti
      BY <1>0, <1>6 DEF StoreFails, WellFormed, TokensKnown
    <2>3. ReqTyped'
      BY <1>6, <2>1, GotoTyped, FinishTyped DEF StoreFails, AfterSigningFailed
    <2>4. QED
      BY <1>0, <1>6, <2>2, <2>3
         DEF StoreFails, Fault, MayBe, TypeInv, TypeOK, ReqTyped
  <1> QED
    BY <1>1, <1>2, <1>3, <1>4, <1>5, <1>6 DEF LoginStep

LEMMA RefreshTyped ==
  ASSUME TypeInv, NEW r \in Request, RefreshStep(r)
  PROVE  TypeInv'
  <1> USE DEF redis, pairs, At
  <1>0. TypeOK /\ WellFormed(req[r]) /\ req[r] \in ReqState
    BY DEF TypeInv, WellFormed
  <1>1. ASSUME NEW j \in Jti, PresentRefreshToken(r, j) PROVE TypeInv'
    <2> DEFINE s == [Idle EXCEPT !.pc = "early", !.op = "refresh", !.rt = j]
    <2>1. WellFormed(s)
      BY IdleTyped DEF Idle, ReqState, Pc, Op, WellFormed, TokensKnown
    <2>2. ReqTyped'
      BY <1>1, <2>1, BecomeTyped DEF PresentRefreshToken
    <2>3. QED
      BY <1>0, <1>1, <2>2 DEF PresentRefreshToken, TypeInv, TypeOK, ReqTyped
  <1>2. CASE CheckLogoutAt(r)
    <2>1. TokensKnown([req[r] EXCEPT !.pc = "peek"])
      BY <1>0, <1>2 DEF CheckLogoutAt, WellFormed, TokensKnown, ReqState
    <2>3. ReqTyped'
      BY <1>2, <2>1, GotoTyped, FinishTyped DEF CheckLogoutAt
    <2>4. QED
      BY <1>0, <1>2, <2>3 DEF CheckLogoutAt, TypeInv, TypeOK, ReqTyped
  <1>3. CASE PeekRefreshKey(r)
    <2>1. TokensKnown([req[r] EXCEPT !.pc = "user"])
      BY <1>0, <1>3 DEF PeekRefreshKey, WellFormed, TokensKnown, ReqState
    <2>3. ReqTyped'
      BY <1>3, <2>1, GotoTyped, FinishTyped DEF PeekRefreshKey
    <2>4. QED
      BY <1>0, <1>3, <2>3 DEF PeekRefreshKey, TypeInv, TypeOK, ReqTyped
  <1>4. CASE ReadUser(r)
    <2> DEFINE c == CredOf(row.mustChange, pair[req[r].rt].pw)
               s == [req[r] EXCEPT !.pc = "claim", !.cred = c]
    <2>1. req[r].rt \in Jti
      BY <1>0, <1>4 DEF ReadUser, WellFormed, TokensKnown
    <2>2. c \in Cred
      BY <1>0, <2>1, CredTyped DEF TypeOK, Row, Pair
    <2>3. WellFormed(s)
      <3> HIDE DEF c
      <3>1. req[r] \in ReqState /\ req[r].op = "refresh"
        BY <1>0, <1>4 DEF ReadUser, WellFormed, TokensKnown
      <3>2. s \in ReqState
        BY <2>2, <3>1 DEF ReqState, Pc, Cred
      <3>3. s.pc = "claim" /\ s.op = req[r].op /\ s.rt = req[r].rt
        BY <3>1 DEF ReqState
      <3>4. QED
        BY <2>1, <3>1, <3>2, <3>3 DEF WellFormed, TokensKnown
    <2>4. ReqTyped'
      BY <1>4, <2>3, BecomeTyped, FinishTyped DEF ReadUser
    <2>5. QED
      BY <1>0, <1>4, <2>4 DEF ReadUser, TypeInv, TypeOK, ReqTyped
  <1>5. CASE ClaimRefreshKey(r)
    <2>1. TokensKnown([req[r] EXCEPT !.pc = "sign"])
      BY <1>0, <1>5 DEF ClaimRefreshKey, WellFormed, TokensKnown, ReqState
    <2>2. req[r].rt \in Jti
      BY <1>0, <1>5 DEF ClaimRefreshKey, WellFormed, TokensKnown
    <2>3. ReqTyped'
      BY <1>5, <2>1, GotoTyped, FinishTyped DEF ClaimRefreshKey
    <2>4. QED
      BY <1>0, <1>5, <2>2, <2>3 DEF ClaimRefreshKey, TypeInv, TypeOK, ReqTyped
  <1>6. CASE RecheckLogoutAt(r)
    <2>2. req[r].new \in Jti
      BY <1>0, <1>6 DEF RecheckLogoutAt, WellFormed, TokensKnown
    <2>3. ReqTyped'
      BY <1>6, FinishTyped DEF RecheckLogoutAt
    <2>4. QED
      BY <1>0, <1>6, <2>2, <2>3 DEF RecheckLogoutAt, TypeInv, TypeOK, ReqTyped
  <1>7. CASE PutBackRefreshKey(r)
    <2>2. req[r].rt \in Jti
      BY <1>0, <1>7 DEF PutBackRefreshKey, WellFormed, TokensKnown
    <2>3. ReqTyped'
      BY <1>7, FinishTyped DEF PutBackRefreshKey
    <2>4. QED
      BY <1>0, <1>7, <2>2, <2>3 DEF PutBackRefreshKey, TypeInv, TypeOK, ReqTyped
  <1>8. CASE ReadFails(r)
    <2>3. ReqTyped'
      BY <1>8, FinishTyped DEF ReadFails
    <2>4. QED
      BY <1>0, <1>8, <2>3 DEF ReadFails, Fault, TypeInv, TypeOK, ReqTyped
  <1>9. CASE ClaimFails(r)
    <2>2. req[r].rt \in Jti
      BY <1>0, <1>9 DEF ClaimFails, WellFormed, TokensKnown
    <2>3. ReqTyped'
      BY <1>9, FinishTyped DEF ClaimFails
    <2>4. QED
      BY <1>0, <1>9, <2>2, <2>3 DEF ClaimFails, Fault, MayBe, TypeInv, TypeOK, ReqTyped
  <1>10. CASE PutBackFails(r)
    <2>2. req[r].rt \in Jti
      BY <1>0, <1>10 DEF PutBackFails, WellFormed, TokensKnown
    <2>3. ReqTyped'
      BY <1>10, UnrestoredTyped DEF PutBackFails
    <2>4. QED
      BY <1>0, <1>10, <2>2, <2>3 DEF PutBackFails, Fault, MayBe, TypeInv, TypeOK, ReqTyped
  <1> QED
    BY <1>1, <1>2, <1>3, <1>4, <1>5, <1>6, <1>7, <1>8, <1>9, <1>10 DEF RefreshStep

\* What the revoking steps write into a request keeps it well formed.
LEMMA RevokingTyped ==
  ASSUME NEW s \in ReqState, NEW p \in RevokingPc \cup OutcomePc,
         NEW n \in Nat, NEW S \in SUBSET Jti
  PROVE  /\ WellFormed([s EXCEPT !.pc = p])
         /\ WellFormed([s EXCEPT !.pc = p, !.at = n])
         /\ WellFormed([s EXCEPT !.pc = p, !.retried = FALSE])
         /\ WellFormed([s EXCEPT !.pc = p, !.scanned = S])
         /\ WellFormed([s EXCEPT !.scanned = S, !.pc = p])
         /\ WellFormed([s EXCEPT !.pc = p, !.retried = TRUE, !.scanned = S])
         /\ WellFormed([s EXCEPT !.pc = p, !.retried = FALSE, !.clean = FALSE, !.scanned = S])
  <1>0. ASSUME NEW t \in ReqState, t.pc = p PROVE WellFormed(t)
    BY <1>0 DEF WellFormed, TokensKnown
  <1>p. p \in Pc
    BY DEF Pc
  <1>1. WellFormed([s EXCEPT !.pc = p])
    BY <1>0, <1>p DEF ReqState
  <1>2. WellFormed([s EXCEPT !.pc = p, !.at = n])
    BY <1>0, <1>p DEF ReqState
  <1>3. WellFormed([s EXCEPT !.pc = p, !.retried = FALSE])
    BY <1>0, <1>p DEF ReqState
  <1>4. WellFormed([s EXCEPT !.pc = p, !.scanned = S])
    BY <1>0, <1>p DEF ReqState
  <1>5. WellFormed([s EXCEPT !.scanned = S, !.pc = p])
    BY <1>0, <1>p DEF ReqState
  <1>6. WellFormed([s EXCEPT !.pc = p, !.retried = TRUE, !.scanned = S])
    BY <1>0, <1>p DEF ReqState
  <1>7. WellFormed([s EXCEPT !.pc = p, !.retried = FALSE, !.clean = FALSE, !.scanned = S])
    BY <1>0, <1>p DEF ReqState
  <1> QED
    BY <1>1, <1>2, <1>3, <1>4, <1>5, <1>6, <1>7

LEMMA RevokerTyped ==
  ASSUME TypeInv, NEW r \in Request, RevokerStep(r)
  PROVE  TypeInv'
  <1> USE DEF redis, pairs, At
  <1>0. TypeOK
    BY DEF TypeInv
  <1>t. req[r] \in ReqState
    BY DEF TypeInv, TypeOK
  <1>1. CASE StartLogout(r)
    <2>1. WellFormed([Idle EXCEPT !.pc = "clock", !.op = "logout", !.prior = returned])
      BY <1>0, IdleTyped
         DEF Idle, ReqState, Pc, Op, WellFormed, TokensKnown, TypeOK, AllRevokerOps
    <2>2. ReqTyped'
      BY <1>1, <2>1, BecomeTyped DEF StartLogout
    <2>3. QED
      BY <1>0, <1>1, <2>2 DEF StartLogout, TypeInv, TypeOK, ReqTyped
  <1>2. CASE StartChangePassword(r)
    <2> DEFINE c == CredOf(row.mustChange, row.pw)
               s == [Idle EXCEPT !.pc = "commit", !.op = "changePassword", !.cred = c]
    <2>1. c \in Cred
      BY <1>0, CredTyped DEF TypeOK, Row
    <2>2. WellFormed(s)
      <3> HIDE DEF c
      <3> QED BY <2>1, IdleTyped
                 DEF Idle, ReqState, Pc, Op, Cred, WellFormed, TokensKnown, AllRevokerOps
    <2>3. ReqTyped'
      BY <1>2, <2>2, BecomeTyped DEF StartChangePassword
    <2>4. QED
      BY <1>0, <1>2, <2>3 DEF StartChangePassword, TypeInv, TypeOK, ReqTyped
  <1>3. CASE CommitPassword(r)
    <2> DEFINE c == CredOf(FALSE, row.pw + 1)
               s == [req[r] EXCEPT !.pc = "clock", !.prior = returned, !.cred = c]
    <2>0. row \in Row /\ returned \in SUBSET Jti
      BY <1>0 DEF TypeOK
    <2>1. c \in Cred
      BY <2>0 DEF CredOf, Cred, Row
    <2>2. WellFormed(s)
      <3> HIDE DEF c
      <3> QED BY <1>t, <2>0, <2>1 DEF ReqState, Pc, Op, Cred, WellFormed, TokensKnown
    <2>3. ReqTyped'
      BY <1>3, <2>2, BecomeTyped, FinishTyped DEF CommitPassword
    <2>4. row' \in Row
      <3> DEFINE n == row.pw + 1
      <3>1. n \in Nat
        BY <2>0 DEF Row
      <3>2. [row EXCEPT !.pw = n, !.mustChange = FALSE] \in Row
        <4> HIDE DEF n
        <4> QED BY <2>0, <3>1 DEF Row
      <3>3. QED
        BY <1>3, <2>0, <3>2 DEF CommitPassword
    <2>5. QED
      BY <1>0, <1>3, <2>3, <2>4 DEF CommitPassword, TypeInv, TypeOK, ReqTyped
  <1>4. ASSUME NEW op \in AllRevokerOps, AdminEdit(r, op) PROVE TypeInv'
    <2> DEFINE c == CredOf(row'.mustChange, row'.pw)
               p == AdminRevokes(op)
               s == [Idle EXCEPT !.pc = p, !.op = op, !.prior = returned, !.cred = c]
    <2>1. row' \in Row
      <3>1. op \in AllRevokerOps \ {"logout", "changePassword"}
        BY <1>4 DEF AdminEdit
      <3>2. row \in Row
        BY <1>0 DEF TypeOK
      <3> DEFINE n == row.pw + 1
      <3>3. n \in Nat /\ [row EXCEPT !.pw = n, !.mustChange = TRUE] \in Row
        <4>1. n \in Nat
          BY <3>2 DEF Row
        <4> HIDE DEF n
        <4>2. [row EXCEPT !.pw = n, !.mustChange = TRUE] \in Row
          BY <4>1, <3>2 DEF Row
        <4>3. QED
          BY <4>1, <4>2
      <3>4. \A b \in BOOLEAN : /\ [row EXCEPT !.status = b] \in Row
                              /\ [row EXCEPT !.mustChange = b] \in Row
                              /\ [row EXCEPT !.deleted = b] \in Row
        BY <3>2 DEF Row
      <3>5. AdminEffect(op) \in Row
        BY <3>1, <3>2, <3>3, <3>4 DEF AdminEffect, AllRevokerOps
      <3> QED BY <1>4, <3>5 DEF AdminEdit
    <2>2. c \in Cred
      BY <2>1, CredTyped DEF Row
    <2>3. p \in {"drop", "scan", "ok"}
      BY DEF AdminRevokes
    <2>4. WellFormed(s)
      <3> HIDE DEF c, p
      <3>1. returned \in SUBSET Jti
        BY <1>0 DEF TypeOK
      <3>2. s \in ReqState
        BY <3>1, <2>2, <2>3, IdleTyped DEF ReqState, Pc, Op, Cred, Idle
      <3>3. QED
        BY <3>2, <2>3 DEF WellFormed, TokensKnown, Idle
    <2>5. ReqTyped'
      BY <1>4, <2>4, BecomeTyped DEF AdminEdit
    <2>6. QED
      BY <1>0, <1>4, <2>1, <2>5 DEF AdminEdit, TypeInv, TypeOK, ReqTyped
  <1>5. CASE TakeStamp(r)
    <2>0. now \in Nat
      BY <1>0 DEF TypeOK
    <2>1. WellFormed([req[r] EXCEPT !.pc = "stamp", !.at = now])
      BY <1>t, <2>0, RevokingTyped
    <2>2. ReqTyped'
      BY <1>5, <2>1, BecomeTyped DEF TakeStamp
    <2>3. QED
      BY <1>0, <1>5, <2>2 DEF TakeStamp, TypeInv, TypeOK, ReqTyped
  <1>6. CASE WriteStamp(r)
    <2>1. WellFormed([req[r] EXCEPT !.pc = "drop", !.retried = FALSE])
      BY <1>t, RevokingTyped
    <2>2. ReqTyped'
      BY <1>6, <2>1, BecomeTyped DEF WriteStamp
    <2>3. req[r].at \in Nat
      BY <1>t DEF ReqState
    <2>4. QED
      BY <1>0, <1>6, <2>2, <2>3 DEF WriteStamp, TypeInv, TypeOK, ReqTyped
  <1>7. CASE DropRefreshKeys(r)
    <2>1. WellFormed([req[r] EXCEPT !.pc = "scan", !.retried = FALSE])
      BY <1>t, RevokingTyped
    <2>2. ReqTyped'
      BY <1>7, <2>1, BecomeTyped DEF DropRefreshKeys
    <2>3. QED
      BY <1>0, <1>7, <2>2 DEF DropRefreshKeys, TypeInv, TypeOK, ReqTyped
  <1>8. CASE ScanActive(r)
    <2>0. activeKeys \in SUBSET Jti
      BY <1>0 DEF TypeOK
    <2> DEFINE p == IF activeKeys = {} THEN "ok" ELSE "blacklist"
    <2>1. WellFormed([req[r] EXCEPT !.pc = p, !.scanned = activeKeys])
      <3>1. p \in RevokingPc \cup OutcomePc
        OBVIOUS
      <3> HIDE DEF p
      <3> QED BY <1>t, <2>0, <3>1, RevokingTyped
    <2>2. ReqTyped'
      BY <1>8, <2>1, BecomeTyped DEF ScanActive
    <2>3. QED
      BY <1>0, <1>8, <2>2 DEF ScanActive, TypeInv, TypeOK, ReqTyped
  <1>9. CASE Blacklist(r)
    <2>1. PICK j \in req[r].scanned :
            /\ blacklist' = blacklist \cup {j}
            /\ Become(r, [req[r] EXCEPT !.scanned = req[r].scanned \ {j},
                     !.pc = IF req[r].scanned = {j} THEN "purge" ELSE "blacklist"])
      BY <1>9 DEF Blacklist
    <2>2. req[r].scanned \in SUBSET Jti
      BY <1>t DEF ReqState
    <2> DEFINE rest == req[r].scanned \ {j}
               p == IF req[r].scanned = {j} THEN "purge" ELSE "blacklist"
    <2>3. WellFormed([req[r] EXCEPT !.scanned = rest, !.pc = p])
      <3>1. rest \in SUBSET Jti /\ p \in RevokingPc \cup OutcomePc
        BY <2>2
      <3> HIDE DEF rest, p
      <3> QED BY <1>t, <3>1, RevokingTyped
    <2>4. ReqTyped'
      BY <2>1, <2>3, BecomeTyped
    <2>5. QED
      BY <1>0, <1>9, <2>1, <2>2, <2>4 DEF Blacklist, TypeInv, TypeOK, ReqTyped
  <1>10. CASE PurgeActive(r)
    <2>1. TokensKnown([req[r] EXCEPT !.pc = "ok"])
      BY <1>t, RevokingTyped DEF WellFormed
    <2>2. ReqTyped'
      BY <1>10, <2>1, GotoTyped DEF PurgeActive
    <2>3. QED
      BY <1>0, <1>10, <2>2 DEF PurgeActive, TypeInv, TypeOK, ReqTyped
  <1>11. CASE RevocationFails(r)
    <2>1. ReqTyped'
      <3> DEFINE p == After(req[r].pc)
                 q == FirstOf(req[r].pc)
      <3>1. p \in RevokingPc \cup OutcomePc /\ q \in RevokingPc \cup OutcomePc
        BY DEF After, FirstOf
      <3>2. \/ Become(r, [req[r] EXCEPT !.pc = p, !.retried = FALSE, !.clean = FALSE,
                                       !.scanned = {}])
            \/ Become(r, [req[r] EXCEPT !.pc = q, !.retried = TRUE, !.scanned = {}])
        BY <1>11 DEF RevocationFails, StepFails
      <3> HIDE DEF p, q
      <3>3. QED
        BY <1>t, <3>1, <3>2, RevokingTyped, BecomeTyped
    <2>2. /\ logoutAt' \in Nat /\ refreshKeys' \subseteq Jti
          /\ activeKeys' \subseteq Jti /\ blacklist' \subseteq Jti
      BY <1>0, <1>t, <1>11 DEF RevocationFails, ReqState, TypeOK
    <2>3. QED
      BY <1>0, <1>11, <2>1, <2>2
         DEF RevocationFails, Fault, TypeInv, TypeOK, ReqTyped
  <1> QED
    BY <1>1, <1>2, <1>3, <1>4, <1>5, <1>6, <1>7, <1>8, <1>9, <1>10, <1>11 DEF RevokerStep

LEMMA TypeStep == TypeInv /\ [Next]_vars => TypeInv'
  <1> SUFFICES ASSUME TypeInv, [Next]_vars PROVE TypeInv'
    OBVIOUS
  <1>1. ASSUME NEW r \in Request, Abandoned(r) PROVE TypeInv'
    BY <1>1, FinishTyped DEF Abandoned, Fault, TypeInv, TypeOK, ReqTyped, redis, pairs
  <1>2. CASE Tick
    BY <1>2 DEF Tick, TypeInv, TypeOK, redis, pairs
  <1>3. CASE UNCHANGED vars
    BY <1>3 DEF TypeInv, TypeOK, vars, redis, pairs
  <1>4. QED
    BY <1>1, <1>2, <1>3, SigningTyped, RefreshTyped, RevokerTyped DEF Next, AllServed

(* Every request, Redis key, pair and clock value keeps its type whatever the
   interleaving, for any number of requests and any number of failures.     *)
THEOREM TypeCorrect == Spec => []TypeOK
  <1>1. Spec => []TypeInv
    BY InitTyped, TypeStep, PTL DEF Spec
  <1>2. TypeInv => TypeOK
    BY DEF TypeInv
  <1>3. QED
    BY <1>1, <1>2, PTL

-----------------------------------------------------------------------------
(* Ownership of refresh tokens.  SingleRotation is not inductive by itself: a
   step that stores or returns a pair must know that nobody else has it yet. *)
UnreturnedPc == {"register", "store", "recheck"}

Signing(r) == req[r].pc \in UnreturnedPc

Presented(r) == req[r].rt # None => req[r].rt \in returned

\* The pair being signed is unknown to clients and has the presented token as parent.
NewPairOK(r) ==
  Signing(r) =>
    /\ req[r].new \in issued /\ req[r].new \notin returned
    /\ pair[req[r].new].parent = req[r].rt
    /\ req[r].pc # "recheck" => req[r].new \notin refreshKeys

DistinctNew ==
  \A r1, r2 \in Request : Signing(r1) /\ Signing(r2) /\ req[r1].new = req[r2].new => r1 = r2

PairsOK ==
  /\ refreshKeys \subseteq issued
  /\ returned \subseteq issued
  /\ \A k \in Jti : pair[k].parent # None => pair[k].parent \in returned

Ownership ==
  /\ PairsOK
  /\ \A r \in Request : Presented(r) /\ NewPairOK(r)
  /\ DistinctNew
  /\ SingleRotation

Inv == TypeInv /\ Ownership

LEMMA InitOwned == Init => Ownership
  <1> SUFFICES ASSUME Init PROVE Ownership
    OBVIOUS
  <1>1. PICK j \in Jti :
          /\ refreshKeys = {j} /\ activeKeys = {j} /\ issued = {j} /\ returned = {j}
          /\ pair = [k \in Jti |-> IF k = j THEN [Blank EXCEPT !.pw = 1] ELSE Blank]
    BY DEF Init
  <1>2. \A k \in Jti : pair[k].parent = None
    BY <1>1 DEF Blank
  <1>3. \A r \in Request : req[r].pc = "idle" /\ req[r].rt = None
    BY DEF Init, Idle
  <1>4. SingleRotation
    BY <1>2, <1>3 DEF SingleRotation, OneHolder, OneSuccessor, OneOwner, Holds, HoldingPc,
                      Held, Exchanged, Succeeds
  <1>5. QED
    BY <1>1, <1>2, <1>3, <1>4 DEF Ownership, PairsOK, Presented, NewPairOK, DistinctNew,
                                  Signing, UnreturnedPc

\* The state of the other requests and of r itself after Become.
LEMMA Becomes ==
  ASSUME TypeInv, NEW r \in Request, NEW s, Become(r, s)
  PROVE  /\ req'[r] = s
         /\ \A q \in Request : q # r => req'[q] = req[q]
  BY DEF Become, TypeInv, TypeOK

(* Most steps add no refresh key and give r no token it did not have: they
   cannot disturb ownership.                                                *)
LEMMA Frame ==
  ASSUME Inv, NEW r \in Request, NEW s, Become(r, s),
         refreshKeys' \subseteq refreshKeys, UNCHANGED pairs,
         s.rt # None => s.rt \in returned,
         s.pc \in HoldingPc =>
           s.rt = None \/ (req[r].pc \in HoldingPc /\ s.rt = req[r].rt),
         s.pc \in UnreturnedPc =>
           /\ Signing(r) /\ s.new = req[r].new /\ s.rt = req[r].rt
           /\ s.pc # "recheck" => req[r].pc # "recheck"
  PROVE  Ownership'
  <1>0. TypeInv /\ Ownership /\ issued' = issued /\ returned' = returned /\ pair' = pair
    BY DEF Inv, pairs
  <1>1. req'[r] = s /\ \A q \in Request : q # r => req'[q] = req[q]
    BY <1>0, Becomes
  <1>2. PairsOK'
    BY <1>0 DEF Ownership, PairsOK
  <1>3. ASSUME NEW q \in Request PROVE Presented(q)' /\ NewPairOK(q)'
    <2>1. CASE q = r
      BY <1>0, <1>1, <2>1 DEF Ownership, Presented, NewPairOK, Signing, UnreturnedPc
    <2>2. CASE q # r
      BY <1>0, <1>1, <2>2 DEF Ownership, Presented, NewPairOK, Signing, UnreturnedPc
    <2>3. QED
      BY <2>1, <2>2
  <1>4. DistinctNew'
    BY <1>0, <1>1 DEF Ownership, DistinctNew, Signing
  <1>5. SingleRotation'
    <2>1. \A q \in Request, j \in Jti : Holds(q, j)' => Holds(q, j)
      BY <1>0, <1>1 DEF Holds
    <2>2. \A k, j \in Jti : Succeeds(k, j)' <=> Succeeds(k, j)
      BY <1>0 DEF Succeeds
    <2>3. QED
      BY <1>0, <2>1, <2>2 DEF Ownership, SingleRotation, OneHolder, OneSuccessor, OneOwner,
                              Held, Exchanged
  <1>6. QED
    BY <1>2, <1>3, <1>4, <1>5 DEF Ownership

\* Answering gives up whatever the request held.
LEMMA FinishOwned ==
  ASSUME Inv, NEW r \in Request, NEW o \in OutcomePc, Finish(r, o),
         refreshKeys' \subseteq refreshKeys, UNCHANGED pairs
  PROVE  Ownership'
  <1> DEFINE t == IF o = "unavailable" THEN req[r].rt ELSE None
             s == [Idle EXCEPT !.pc = o, !.rt = t]
  <1>1. s.pc = o /\ s.rt = t
    BY DEF Idle
  <1>2. t # None => t \in returned
    BY DEF Inv, Ownership, Presented
  <1>3. Become(r, s)
    BY DEF Finish
  <1> HIDE DEF s
  <1>4. QED
    BY <1>1, <1>2, <1>3, Frame DEF HoldingPc, UnreturnedPc

\* Moving on with the same tokens, without starting to hold or to sign one.
LEMMA GotoOwned ==
  ASSUME Inv, NEW r \in Request, NEW p \in Pc, Goto(r, p),
         refreshKeys' \subseteq refreshKeys, UNCHANGED pairs,
         p \in HoldingPc => req[r].pc \in HoldingPc,
         p \in UnreturnedPc => Signing(r) /\ (p # "recheck" => req[r].pc # "recheck")
  PROVE  Ownership'
  <1> DEFINE s == [req[r] EXCEPT !.pc = p]
  <1>1. s.pc = p /\ s.rt = req[r].rt /\ s.new = req[r].new
    BY DEF Inv, TypeInv, TypeOK, ReqState
  <1>2. req[r].rt # None => req[r].rt \in returned
    BY DEF Inv, Ownership, Presented
  <1>3. Become(r, s)
    BY DEF Goto
  <1> HIDE DEF s
  <1>4. QED
    BY <1>1, <1>2, <1>3, Frame

\* A revoking operation has no token and takes none.
LEMMA RevokerOwned ==
  ASSUME Inv, NEW r \in Request, RevokerStep(r)
  PROVE  Ownership'
  <1> USE DEF At, redis
  <1>0. req[r] \in ReqState /\ (req[r].rt # None => req[r].rt \in returned)
    BY DEF Inv, TypeInv, TypeOK, Ownership, Presented
  <1>1. ASSUME NEW s, Become(r, s), s.pc \in RevokingPc \cup OutcomePc,
               s.rt \in {None, req[r].rt},
               refreshKeys' \subseteq refreshKeys, UNCHANGED pairs
        PROVE  Ownership'
    BY <1>0, <1>1, Frame DEF HoldingPc, UnreturnedPc
  <1>2. CASE StartLogout(r)
    BY <1>1, <1>2 DEF StartLogout, Idle
  <1>3. CASE StartChangePassword(r)
    BY <1>1, <1>3 DEF StartChangePassword, Idle
  <1>4. CASE CommitPassword(r)
    BY <1>0, <1>1, <1>4, FinishOwned DEF CommitPassword, ReqState
  <1>5. ASSUME NEW op \in AllRevokerOps, AdminEdit(r, op) PROVE Ownership'
    BY <1>1, <1>5 DEF AdminEdit, Idle, AdminRevokes
  <1>6. CASE TakeStamp(r)
    BY <1>0, <1>1, <1>6 DEF TakeStamp, ReqState
  <1>7. CASE WriteStamp(r)
    BY <1>0, <1>1, <1>7 DEF WriteStamp, ReqState
  <1>8. CASE DropRefreshKeys(r)
    BY <1>0, <1>1, <1>8 DEF DropRefreshKeys, ReqState
  <1>9. CASE ScanActive(r)
    BY <1>0, <1>1, <1>9 DEF ScanActive, ReqState
  <1>10. CASE Blacklist(r)
    BY <1>0, <1>1, <1>10 DEF Blacklist, ReqState
  <1>11. CASE PurgeActive(r)
    BY <1>0, <1>1, <1>11 DEF PurgeActive, Goto, ReqState
  <1>12. CASE RevocationFails(r)
    BY <1>0, <1>1, <1>12 DEF RevocationFails, StepFails, After, FirstOf, ReqState
  <1> QED
    BY <1>2, <1>3, <1>4, <1>5, <1>6, <1>7, <1>8, <1>9, <1>10, <1>11, <1>12 DEF RevokerStep

\* Nobody holds or has exchanged a pair that no client has received.
LEMMA UnreturnedFree ==
  ASSUME Inv, NEW k \in Jti, k \notin returned
  PROVE  ~Held(k) /\ ~Exchanged(k)
  BY DEF Inv, Ownership, Presented, PairsOK, Held, Holds, Exchanged, Succeeds

LEMMA SignOwned ==
  ASSUME Inv, NEW r \in Request, Sign(r)
  PROVE  Ownership'
  <1>0. TypeInv /\ Ownership /\ req[r] \in ReqState
    BY DEF Inv, TypeInv, TypeOK
  <1>1. PICK j \in Jti \ issued :
          /\ issued' = issued \cup {j}
          /\ pair' = [pair EXCEPT ![j] =
               [iat |-> now \div TicksPerSecond, mustChange |-> req[r].cred.mustChange,
                pw |-> req[r].cred.pw, parent |-> req[r].rt]]
          /\ Become(r, [req[r] EXCEPT !.pc = "register", !.new = j])
    BY DEF Sign
  <1> DEFINE s == [req[r] EXCEPT !.pc = "register", !.new = j]
  <1>2. s.pc = "register" /\ s.new = j /\ s.rt = req[r].rt /\ req[r].pc = "sign"
    BY <1>0 DEF ReqState, Sign, At
  <1> HIDE DEF s
  <1>3. req'[r] = s /\ \A q \in Request : q # r => req'[q] = req[q]
    BY <1>0, <1>1, Becomes DEF s
  <1>4. refreshKeys' = refreshKeys /\ returned' = returned
    BY DEF Sign, redis
  <1>5. /\ pair'[j].parent = req[r].rt
        /\ \A k \in Jti : k # j => pair'[k] = pair[k]
    BY <1>0, <1>1 DEF TypeInv, TypeOK
  <1>6. j \notin returned /\ j \notin refreshKeys
    BY <1>0 DEF Ownership, PairsOK
  <1>7. PairsOK'
    BY <1>0, <1>1, <1>4, <1>5 DEF Ownership, PairsOK, Presented
  <1>8. ASSUME NEW q \in Request PROVE Presented(q)' /\ NewPairOK(q)'
    <2>1. CASE q = r
      BY <1>0, <1>1, <1>2, <1>3, <1>4, <1>5, <1>6, <2>1
         DEF Ownership, Presented, NewPairOK, Signing, UnreturnedPc
    <2>2. CASE q # r
      <3>1. Signing(q) => req[q].new \in Jti /\ req[q].new # j
        BY <1>0 DEF Ownership, NewPairOK, TypeInv, TypeOK
      <3>2. QED
        BY <1>0, <1>1, <1>3, <1>4, <1>5, <2>2, <3>1
           DEF Ownership, Presented, NewPairOK, Signing
    <2>3. QED
      BY <2>1, <2>2
  <1>9. DistinctNew'
    <2>1. \A q \in Request : Signing(q) => req[q].new # j
      BY <1>0 DEF Ownership, NewPairOK
    <2>2. QED
      BY <1>0, <1>2, <1>3, <2>1 DEF Ownership, DistinctNew, Signing
  <1>10. SingleRotation'
    <2>1. \A q \in Request, k \in Jti : Holds(q, k)' => Holds(q, k)
      BY <1>2, <1>3 DEF Holds, HoldingPc
    <2>2. \A k, i \in Jti : Succeeds(k, i)' => Succeeds(k, i)
      BY <1>4, <1>5, <1>6 DEF Succeeds
    <2>3. QED
      BY <1>0, <1>4, <2>1, <2>2
         DEF Ownership, SingleRotation, OneHolder, OneSuccessor, OneOwner, Held, Exchanged
  <1>11. QED
    BY <1>7, <1>8, <1>9, <1>10 DEF Ownership

(* A pair's refresh key reaches Redis: nobody can hold it or have exchanged it
   before, and the request keeps the token it presented or gives it up.      *)
LEMMA StoreOwned ==
  ASSUME Inv, NEW r \in Request, At(r, "store"), NEW s, Become(r, s),
         s.rt = req[r].rt \/ (s.rt = None /\ s.pc \notin HoldingPc),
         s.pc \in UnreturnedPc => s.pc = "recheck" /\ s.rt = req[r].rt /\ s.new = req[r].new,
         refreshKeys' \in {refreshKeys, refreshKeys \cup {req[r].new}}, UNCHANGED pairs
  PROVE  Ownership'
  <1> DEFINE k == req[r].new
  <1>0. /\ TypeInv /\ Ownership /\ req[r] \in ReqState
        /\ issued' = issued /\ returned' = returned /\ pair' = pair
    BY DEF Inv, TypeInv, TypeOK, pairs
  <1>2. req'[r] = s /\ \A q \in Request : q # r => req'[q] = req[q]
    BY <1>0, Becomes
  <1>3. /\ Signing(r) /\ k \in Jti /\ k \in issued /\ k \notin returned
        /\ pair[k].parent = req[r].rt
    BY <1>0 DEF At, Signing, UnreturnedPc, Ownership, NewPairOK, TypeInv, WellFormed,
               TokensKnown
  <1>4. ~Held(k) /\ ~Exchanged(k)
    BY <1>3, UnreturnedFree
  <1>5. PairsOK'
    BY <1>0, <1>3 DEF Ownership, PairsOK
  <1>6. ASSUME NEW q \in Request PROVE Presented(q)' /\ NewPairOK(q)'
    <2>1. CASE q = r
      BY <1>0, <1>2, <1>3, <2>1 DEF Ownership, Presented, NewPairOK, Signing
    <2>2. CASE q # r
      <3>1. Signing(q) => req[q].new # k
        BY <1>0, <1>3, <2>2 DEF Ownership, DistinctNew
      <3>2. QED
        BY <1>0, <1>2, <2>2, <3>1 DEF Ownership, Presented, NewPairOK, Signing
    <2>3. QED
      BY <2>1, <2>2
  <1>7. DistinctNew'
    BY <1>0, <1>2, <1>3 DEF Ownership, DistinctNew, Signing
  <1>8. SingleRotation'
    <2>1. \A q \in Request, i \in Jti : Holds(q, i)' => Holds(q, i)
      BY <1>2 DEF Holds, HoldingPc, At
    <2>2. \A x, i \in Jti : Succeeds(x, i)' <=> Succeeds(x, i)
      BY <1>0 DEF Succeeds
    <2>3. \A i \in Jti : i \in refreshKeys' => i \in refreshKeys \/ i = k
      OBVIOUS
    <2>4. QED
      BY <1>0, <1>4, <2>1, <2>2, <2>3
         DEF Ownership, SingleRotation, OneHolder, OneSuccessor, OneOwner, Held, Exchanged
  <1>9. QED
    BY <1>5, <1>6, <1>7, <1>8 DEF Ownership

(* A client receives a pair.  A login's pair has no parent; a refresh's parent
   was held by the request, which holds it no longer.                        *)
LEMMA ReturnOwned ==
  ASSUME Inv, NEW r \in Request, Signing(r), Finish(r, "ok"),
         req[r].pc = "recheck" \/ (req[r].pc = "store" /\ req[r].op = "login"),
         refreshKeys' \in {refreshKeys, refreshKeys \cup {req[r].new}},
         req[r].pc = "recheck" => refreshKeys' = refreshKeys,
         returned' = returned \cup {req[r].new}, UNCHANGED <<issued, pair>>
  PROVE  Ownership'
  <1> DEFINE s == [Idle EXCEPT !.pc = "ok",
                     !.rt = IF "ok" = "unavailable" THEN req[r].rt ELSE None]
             k == req[r].new
  <1>0. TypeInv /\ Ownership /\ req[r] \in ReqState
    BY DEF Inv, TypeInv, TypeOK
  <1>1. s.pc = "ok" /\ s.rt = None
    BY DEF Idle
  <1>2. req'[r] = s /\ \A q \in Request : q # r => req'[q] = req[q]
    BY <1>0, Becomes DEF Finish
  <1> HIDE DEF s
  <1>3. /\ k \in Jti /\ k \in issued /\ k \notin returned
        /\ pair[k].parent = req[r].rt
    BY <1>0 DEF Signing, UnreturnedPc, Ownership, NewPairOK, TypeInv, WellFormed,
               TokensKnown
  <1>4. ~Held(k) /\ ~Exchanged(k)
    BY <1>3, UnreturnedFree
  <1>5. req[r].rt = None \/ (req[r].rt \in Jti /\ Holds(r, req[r].rt))
    BY <1>0 DEF TypeInv, WellFormed, TokensKnown, Holds, HoldingPc
  <1>6. PairsOK'
    BY <1>0, <1>3 DEF Ownership, PairsOK
  <1>7. ASSUME NEW q \in Request PROVE Presented(q)' /\ NewPairOK(q)'
    <2>1. CASE q = r
      BY <1>1, <1>2, <2>1 DEF Presented, NewPairOK, Signing, UnreturnedPc
    <2>2. CASE q # r
      <3>1. Signing(q) => req[q].new # k
        BY <1>0, <2>2 DEF Ownership, DistinctNew
      <3>2. QED
        BY <1>0, <1>2, <2>2, <3>1 DEF Ownership, Presented, NewPairOK, Signing
    <2>3. QED
      BY <2>1, <2>2
  <1>8. DistinctNew'
    BY <1>0, <1>1, <1>2 DEF Ownership, DistinctNew, Signing, UnreturnedPc
  <1>9. SingleRotation'
    <2>1. \A q \in Request, i \in Jti : Holds(q, i)' => Holds(q, i) /\ q # r
      BY <1>1, <1>2 DEF Holds, HoldingPc
    <2>2. \A x, i \in Jti : Succeeds(x, i)' <=> Succeeds(x, i) \/ (x = k /\ i = req[r].rt)
      BY <1>3 DEF Succeeds
    <2>3. ASSUME NEW i \in Jti PROVE (OneHolder(i) /\ OneSuccessor(i) /\ OneOwner(i))'
      <3>1. OneHolder(i) /\ OneSuccessor(i) /\ OneOwner(i)
        BY <1>0 DEF Ownership, SingleRotation
      <3>2. CASE i # req[r].rt /\ i # k
        BY <2>1, <2>2, <3>1, <3>2 DEF OneHolder, OneSuccessor, OneOwner, Held, Exchanged
      <3>3. CASE i = k /\ i # req[r].rt
        BY <1>4, <2>1, <2>2, <3>1, <3>3 DEF OneHolder, OneSuccessor, OneOwner, Held, Exchanged
      <3>4. CASE i = req[r].rt
        <4>1. Holds(r, i)
          BY <1>5, <3>4
        <4>2. i \notin refreshKeys' /\ ~Exchanged(i) /\ \A q \in Request : Holds(q, i) => q = r
          <5>1. i # k /\ i \notin refreshKeys /\ ~Exchanged(i)
            BY <1>4, <3>1, <4>1 DEF OneOwner, Held
          <5>2. QED
            BY <3>1, <4>1, <5>1 DEF OneHolder
        <4>3. QED
          BY <2>1, <2>2, <3>1, <4>2 DEF OneHolder, OneSuccessor, OneOwner, Held, Exchanged
      <3>5. QED
        BY <3>2, <3>3, <3>4
    <2>4. QED
      BY <2>3 DEF SingleRotation
  <1>10. QED
    BY <1>6, <1>7, <1>8, <1>9 DEF Ownership

(* GETDEL found the key: it leaves Redis as the request starts to hold it.   *)
LEMMA ClaimOwned ==
  ASSUME Inv, NEW r \in Request, At(r, "claim"), req[r].rt \in refreshKeys,
         refreshKeys' = refreshKeys \ {req[r].rt}, Goto(r, "sign"), UNCHANGED pairs
  PROVE  Ownership'
  <1> DEFINE s == [req[r] EXCEPT !.pc = "sign"]
             j == req[r].rt
  <1>0. /\ TypeInv /\ Ownership /\ req[r] \in ReqState
        /\ issued' = issued /\ returned' = returned /\ pair' = pair
    BY DEF Inv, TypeInv, TypeOK, pairs
  <1>1. s.pc = "sign" /\ s.rt = j /\ s.new = req[r].new
    BY <1>0 DEF ReqState
  <1>2. req'[r] = s /\ \A q \in Request : q # r => req'[q] = req[q]
    BY <1>0, Becomes DEF Goto
  <1> HIDE DEF s
  <1>3. j \in Jti /\ ~Held(j) /\ ~Exchanged(j)
    BY <1>0 DEF TypeInv, TypeOK, Ownership, SingleRotation, OneOwner
  <1>4. PairsOK'
    BY <1>0 DEF Ownership, PairsOK
  <1>5. ASSUME NEW q \in Request PROVE Presented(q)' /\ NewPairOK(q)'
    BY <1>0, <1>1, <1>2 DEF Ownership, Presented, NewPairOK, Signing, UnreturnedPc
  <1>6. DistinctNew'
    BY <1>0, <1>1, <1>2 DEF Ownership, DistinctNew, Signing, UnreturnedPc
  <1>7. SingleRotation'
    <2>1. \A q \in Request, i \in Jti : Holds(q, i)' => Holds(q, i) \/ (q = r /\ i = j)
      BY <1>1, <1>2 DEF Holds
    <2>2. \A x, i \in Jti : Succeeds(x, i)' <=> Succeeds(x, i)
      BY <1>0 DEF Succeeds
    <2>3. QED
      BY <1>0, <1>3, <2>1, <2>2
         DEF Ownership, SingleRotation, OneHolder, OneSuccessor, OneOwner, Held, Exchanged
  <1>8. QED
    BY <1>4, <1>5, <1>6, <1>7 DEF Ownership

\* Whether the put-back fails or not, the answer remembers the token.
LEMMA PutBackAnswers ==
  ASSUME NEW r, Finish(r, "unavailable") \/ AnswerUnrestored(r)
  PROVE  \E s : Become(r, s) /\ s.pc = "unavailable" /\ s.rt = req[r].rt /\ s.op = "none"
  <1>1. CASE Finish(r, "unavailable")
    <2> DEFINE s == [Idle EXCEPT !.pc = "unavailable",
                       !.rt = IF "unavailable" = "unavailable" THEN req[r].rt ELSE None]
    <2>1. Become(r, s) /\ s.pc = "unavailable" /\ s.rt = req[r].rt /\ s.op = "none"
      BY <1>1 DEF Finish, Idle
    <2>2. QED
      BY <2>1
  <1>2. CASE AnswerUnrestored(r)
    <2> DEFINE s == [Idle EXCEPT !.pc = "unavailable", !.rt = req[r].rt, !.clean = FALSE]
    <2>1. Become(r, s) /\ s.pc = "unavailable" /\ s.rt = req[r].rt /\ s.op = "none"
      BY <1>2 DEF AnswerUnrestored, Idle
    <2>2. QED
      BY <2>1
  <1>3. QED
    BY <1>1, <1>2

(* The key put back is the one the request held: it stops holding it.        *)
LEMMA PutBackOwned ==
  ASSUME Inv, NEW r \in Request, At(r, "putBack"), Finish(r, "unavailable") \/ AnswerUnrestored(r),
         refreshKeys' \in {refreshKeys, refreshKeys \cup {req[r].rt}}, UNCHANGED pairs
  PROVE  Ownership'
  <1>a. PICK s : Become(r, s) /\ s.pc = "unavailable" /\ s.rt = req[r].rt
    BY PutBackAnswers
  <1> DEFINE j == req[r].rt
  <1>0. /\ TypeInv /\ Ownership /\ req[r] \in ReqState
        /\ issued' = issued /\ returned' = returned /\ pair' = pair
    BY DEF Inv, TypeInv, TypeOK, pairs
  <1>1. s.pc = "unavailable" /\ s.rt = j
    BY <1>a
  <1>2. req'[r] = s /\ \A q \in Request : q # r => req'[q] = req[q]
    BY <1>0, <1>a, Becomes
  <1>3. j \in Jti /\ j \in returned /\ Holds(r, j)
    BY <1>0 DEF At, TypeInv, WellFormed, TokensKnown, Ownership, Presented, Holds, HoldingPc
  <1>4. ~Exchanged(j) /\ \A q \in Request : Holds(q, j) => q = r
    BY <1>0, <1>3 DEF Ownership, SingleRotation, OneHolder, OneOwner, Held
  <1>5. PairsOK'
    BY <1>0, <1>3 DEF Ownership, PairsOK
  <1>6. ASSUME NEW q \in Request PROVE Presented(q)' /\ NewPairOK(q)'
    BY <1>0, <1>1, <1>2, <1>3 DEF Ownership, Presented, NewPairOK, Signing, UnreturnedPc
  <1>7. DistinctNew'
    BY <1>0, <1>1, <1>2 DEF Ownership, DistinctNew, Signing, UnreturnedPc
  <1>8. SingleRotation'
    <2>1. \A q \in Request, i \in Jti : Holds(q, i)' => Holds(q, i) /\ q # r
      BY <1>1, <1>2 DEF Holds, HoldingPc
    <2>2. \A x, i \in Jti : Succeeds(x, i)' <=> Succeeds(x, i)
      BY <1>0 DEF Succeeds
    <2>3. QED
      BY <1>0, <1>4, <2>1, <2>2
         DEF Ownership, SingleRotation, OneHolder, OneSuccessor, OneOwner, Held, Exchanged
  <1>9. QED
    BY <1>5, <1>6, <1>7, <1>8 DEF Ownership

LEMMA LoginOwned ==
  ASSUME Inv, NEW r \in Request, LoginStep(r)
  PROVE  Ownership'
  <1> USE DEF At, redis
  <1>0. TypeInv /\ Ownership /\ req[r] \in ReqState /\ WellFormed(req[r])
    BY DEF Inv, TypeInv, TypeOK
  <1>1. CASE Login(r)
    <2> DEFINE c == CredOf(row.mustChange, row.pw)
               s == [Idle EXCEPT !.pc = "sign", !.op = "login", !.cred = c]
    <2>1. s.pc = "sign" /\ s.rt = None
      <3> HIDE DEF c
      <3> QED BY DEF Idle
    <2>2. Become(r, s) /\ refreshKeys' = refreshKeys /\ UNCHANGED pairs
      BY <1>1 DEF Login
    <2> HIDE DEF s
    <2>3. QED
      BY <2>1, <2>2, Frame DEF UnreturnedPc
  <1>2. CASE Sign(r)
    BY <1>2, SignOwned
  <1>3. CASE RegisterActive(r)
    <2>1. Signing(r)
      BY <1>3 DEF RegisterActive, Signing, UnreturnedPc
    <2>2. Goto(r, "store") /\ refreshKeys' = refreshKeys /\ UNCHANGED pairs
      BY <1>3 DEF RegisterActive
    <2>3. QED
      BY <1>3, <2>1, <2>2, GotoOwned DEF RegisterActive, HoldingPc, Pc
  <1>4. CASE StoreRefreshKey(r)
    <2>1. Signing(r) /\ (req[r].op = "refresh" \/ req[r].op = "login")
      BY <1>0, <1>4 DEF StoreRefreshKey, Signing, UnreturnedPc, WellFormed, TokensKnown
    <2>2. CASE req[r].op = "login"
      BY <1>4, <2>1, <2>2, ReturnOwned DEF StoreRefreshKey
    <2>3. CASE req[r].op # "login"
      <3> DEFINE s == [req[r] EXCEPT !.pc = "recheck"]
      <3>1. s.pc = "recheck" /\ s.rt = req[r].rt /\ s.new = req[r].new
        BY <1>0 DEF ReqState
      <3>2. /\ Become(r, s) /\ req[r].pc = "store"
            /\ refreshKeys' = refreshKeys \cup {req[r].new} /\ UNCHANGED pairs
        BY <1>4, <2>3 DEF StoreRefreshKey, Goto, pairs
      <3> HIDE DEF s
      <3>3. QED
        BY <3>1, <3>2, StoreOwned
    <2>4. QED
      BY <2>2, <2>3
  <1>5. CASE RegisterFails(r)
    <2>1. refreshKeys' = refreshKeys /\ UNCHANGED pairs /\ req[r].pc \in HoldingPc
      BY <1>5 DEF RegisterFails, HoldingPc
    <2>2. Goto(r, "putBack") \/ Finish(r, "unavailable")
      BY <1>5 DEF RegisterFails, AfterSigningFailed
    <2>3. QED
      BY <2>1, <2>2, GotoOwned, FinishOwned DEF Pc, UnreturnedPc
  <1>6. CASE StoreFails(r)
    <2>1. /\ req[r].pc = "store" /\ UNCHANGED pairs
          /\ refreshKeys' \in {refreshKeys, refreshKeys \cup {req[r].new}}
      BY <1>6 DEF StoreFails, MayBe
    <2>2. CASE Goto(r, "putBack")
      <3> DEFINE s == [req[r] EXCEPT !.pc = "putBack"]
      <3>1. s.pc = "putBack" /\ s.rt = req[r].rt
        BY <1>0 DEF ReqState
      <3>2. Become(r, s)
        BY <2>2 DEF Goto
      <3> HIDE DEF s
      <3>3. QED
        BY <2>1, <3>1, <3>2, StoreOwned DEF UnreturnedPc
    <2>3. CASE Finish(r, "unavailable")
      <3> DEFINE s == [Idle EXCEPT !.pc = "unavailable",
                         !.rt = IF "unavailable" = "unavailable" THEN req[r].rt ELSE None]
      <3>1. s.pc = "unavailable" /\ s.rt = req[r].rt
        BY DEF Idle
      <3>2. Become(r, s)
        BY <2>3 DEF Finish
      <3> HIDE DEF s
      <3>3. QED
        BY <2>1, <3>1, <3>2, StoreOwned DEF UnreturnedPc
    <2>4. QED
      BY <1>6, <2>2, <2>3 DEF StoreFails, AfterSigningFailed
  <1> QED
    BY <1>1, <1>2, <1>3, <1>4, <1>5, <1>6 DEF LoginStep

LEMMA RefreshOwned ==
  ASSUME Inv, NEW r \in Request, RefreshStep(r)
  PROVE  Ownership'
  <1> USE DEF At, redis
  <1>0. TypeInv /\ Ownership /\ req[r] \in ReqState /\ WellFormed(req[r])
    BY DEF Inv, TypeInv, TypeOK
  <1>1. ASSUME NEW j \in Jti, PresentRefreshToken(r, j) PROVE Ownership'
    <2> DEFINE s == [Idle EXCEPT !.pc = "early", !.op = "refresh", !.rt = j]
    <2>1. s.pc = "early" /\ s.rt = j
      BY DEF Idle
    <2>2. Become(r, s) /\ refreshKeys' = refreshKeys /\ UNCHANGED pairs /\ j \in returned
      BY <1>1 DEF PresentRefreshToken
    <2> HIDE DEF s
    <2>3. QED
      BY <2>1, <2>2, Frame DEF UnreturnedPc, HoldingPc
  <1>2. CASE CheckLogoutAt(r)
    <2>1. refreshKeys' = refreshKeys /\ UNCHANGED pairs
      BY <1>2 DEF CheckLogoutAt
    <2>2. Goto(r, "peek") \/ Finish(r, "rejected")
      BY <1>2 DEF CheckLogoutAt
    <2>3. QED
      BY <2>1, <2>2, GotoOwned, FinishOwned DEF Pc, UnreturnedPc, HoldingPc
  <1>3. CASE PeekRefreshKey(r)
    <2>1. refreshKeys' = refreshKeys /\ UNCHANGED pairs
      BY <1>3 DEF PeekRefreshKey
    <2>2. Goto(r, "user") \/ Finish(r, "rejected")
      BY <1>3 DEF PeekRefreshKey
    <2>3. QED
      BY <2>1, <2>2, GotoOwned, FinishOwned DEF Pc, UnreturnedPc, HoldingPc
  <1>4. CASE ReadUser(r)
    <2> DEFINE c == CredOf(row.mustChange, pair[req[r].rt].pw)
               s == [req[r] EXCEPT !.pc = "claim", !.cred = c]
    <2>1. s.pc = "claim" /\ s.rt = req[r].rt
      <3> HIDE DEF c
      <3> QED BY <1>0 DEF ReqState
    <2>2. refreshKeys' = refreshKeys /\ UNCHANGED pairs
      BY <1>4 DEF ReadUser
    <2>3. Become(r, s) \/ Finish(r, "rejected")
      BY <1>4 DEF ReadUser
    <2>4. req[r].rt # None => req[r].rt \in returned
      BY <1>0 DEF Ownership, Presented
    <2> HIDE DEF s
    <2>5. QED
      BY <2>1, <2>2, <2>3, <2>4, Frame, FinishOwned DEF UnreturnedPc, HoldingPc
  <1>5. CASE ClaimRefreshKey(r)
    <2>1. UNCHANGED pairs /\ req[r].pc = "claim"
      BY <1>5 DEF ClaimRefreshKey
    <2>2. CASE req[r].rt \in refreshKeys
      BY <1>5, <2>1, <2>2, ClaimOwned DEF ClaimRefreshKey
    <2>3. CASE req[r].rt \notin refreshKeys
      BY <1>5, <2>1, <2>3, FinishOwned DEF ClaimRefreshKey
    <2>4. QED
      BY <2>2, <2>3
  <1>6. CASE RecheckLogoutAt(r)
    <2>1. /\ refreshKeys' = refreshKeys /\ issued' = issued /\ pair' = pair
          /\ req[r].pc = "recheck" /\ Signing(r)
      BY <1>6 DEF RecheckLogoutAt, Signing, UnreturnedPc
    <2>2. CASE Stale(pair[req[r].rt].iat, logoutAt)
      BY <1>6, <2>1, <2>2, FinishOwned DEF RecheckLogoutAt, pairs
    <2>3. CASE ~Stale(pair[req[r].rt].iat, logoutAt)
      BY <1>6, <2>1, <2>3, ReturnOwned DEF RecheckLogoutAt
    <2>4. QED
      BY <2>2, <2>3
  <1>7. CASE PutBackRefreshKey(r)
    BY <1>7, PutBackOwned DEF PutBackRefreshKey
  <1>8. CASE ReadFails(r)
    BY <1>8, FinishOwned DEF ReadFails
  <1>9. CASE ClaimFails(r)
    <2>1. refreshKeys' \subseteq refreshKeys
      BY <1>9 DEF ClaimFails, MayBe
    <2>2. QED
      BY <1>9, <2>1, FinishOwned DEF ClaimFails
  <1>10. CASE PutBackFails(r)
    <2>1. refreshKeys' \in {refreshKeys, refreshKeys \cup {req[r].rt}}
      BY <1>10 DEF PutBackFails, MayBe
    <2>2. QED
      BY <1>10, <2>1, PutBackOwned DEF PutBackFails
  <1> QED
    BY <1>1, <1>2, <1>3, <1>4, <1>5, <1>6, <1>7, <1>8, <1>9, <1>10 DEF RefreshStep

LEMMA InvStep == Inv /\ [Next]_vars => Inv'
  <1> SUFFICES ASSUME Inv, [Next]_vars PROVE Inv'
    OBVIOUS
  <1>0. TypeInv'
    BY TypeStep DEF Inv
  <1>1. ASSUME NEW r \in Request, Abandoned(r) PROVE Ownership'
    BY <1>1, FinishOwned DEF Abandoned, redis
  <1>2. ASSUME UNCHANGED <<redis, pairs, req>> PROVE Ownership'
    BY <1>2 DEF Inv, Ownership, PairsOK, Presented, NewPairOK, DistinctNew, Signing,
                SingleRotation, OneHolder, OneSuccessor, OneOwner, Held, Exchanged,
                Holds, Succeeds, redis, pairs
  <1>3. QED
    BY <1>0, <1>1, <1>2, LoginOwned, RefreshOwned, RevokerOwned
       DEF Next, Tick, AllServed, vars, Inv

(* A refresh token is exchanged at most once, and is never at the same time in
   Redis and held or exchanged, however many requests replay it, whichever of
   their Redis calls fail and whatever logouts, password changes and edits run
   beside them: GETDEL hands it to one request, and only that request can put
   it back.                                                                  *)
THEOREM RotationIsSingle == Spec => []SingleRotation
  <1>1. Init => Inv
    BY InitTyped, InitOwned DEF Inv
  <1>2. Spec => []Inv
    BY <1>1, InvStep, PTL DEF Spec
  <1>3. Inv => SingleRotation
    BY DEF Inv, Ownership
  <1>4. QED
    BY <1>2, <1>3, PTL

-----------------------------------------------------------------------------
(* Revocation.  A revoking operation dooms the pairs that clients held when it
   took effect and, once logout:at is written, the pairs refreshed from a token
   that is stale by it.  Each step takes every doomed pair one place further:
   from the active keys to the listed ones to the blacklist.                  *)
Revokes == AllRevokerOps \ {"enable", "unlock", "restore"}
EndsSessions == {"logout", "changePassword"}
ListingPc == {"scan", "blacklist", "purge"}

HasRevoked(r) == req[r].op \in Revokes \/ req[r].pc = "abandoned"

(* No two revoking operations, but any number of logins and refreshes, and of edits
   that revoke nothing.  The purge of one operation deletes active keys that it has
   not listed, and a second one no longer finds them.                            *)
OneRevocation == \A p, q \in Revoker : HasRevoked(p) /\ HasRevoked(q) => p = q

RoleOK(r) ==
  /\ r \notin Revoker \/ req[r].pc = "idle" => req[r].op \notin AllRevokerOps
  /\ req[r].pc \in RevokingPc => req[r].op \in Revokes
  /\ req[r].pc \in {"commit", "clock", "stamp"} => req[r].op \in EndsSessions

\* No revoking operation has begun to list the active keys.
NotListing(s) == s.pc \notin ListingPc \cup {"abandoned"} /\ (s.op \in Revokes => s.pc # "ok")
Unlisted == \A r \in Revoker : NotListing(req[r])

AllActive ==
  /\ returned \subseteq activeKeys
  /\ \A r \in Request : req[r].pc \in {"store", "recheck"} => req[r].new \in activeKeys

LateChild(j, at) == pair[j].parent # None /\ Stale(pair[pair[j].parent].iat, at)
Doomed(r) == req[r].prior \cup {j \in returned : LateChild(j, req[r].at)}

Cuts(r) ==
  /\ req[r].prior \subseteq returned
  /\ req[r].op \notin EndsSessions => req[r].at = 0
  /\ req[r].pc \in {"drop", "ok"} \cup ListingPc =>
       /\ req[r].op \in EndsSessions => logoutAt = req[r].at
       /\ \A j \in Doomed(r) :
            /\ req[r].pc \in {"drop", "scan", "blacklist"} => j \in activeKeys \cup blacklist
            /\ req[r].pc = "blacklist" => j \in req[r].scanned \cup blacklist
            /\ req[r].pc \in {"purge", "ok"} => j \in blacklist
            /\ req[r].pc # "drop" /\ req[r].op # "setRole" /\ j \in refreshKeys => PutBack(j)

RevInv ==
  /\ \A r \in Request : RoleOK(r)
  /\ Unlisted => AllActive
  /\ \A r \in Request : req[r].op \in Revokes /\ req[r].clean => Cuts(r)

\* A stamp of 0, the absent key, makes nothing stale.
LEMMA NeverStale == ASSUME NEW iat PROVE ~Stale(iat, 0)
  BY DEF Stale

\* A step of a request that revokes nothing, before it and after it.
LEMMA ClientStep ==
  ASSUME Inv, RevInv, NEW r \in Request, NEW s, Become(r, s),
         req[r].op \notin Revokes, req[r].pc \notin OutcomePc,
         s.op \notin Revokes, s.pc \notin RevokingPc \cup {"idle"},
         r \notin Revoker => s.op \notin AllRevokerOps,
         s.pc \in {"store", "recheck"} /\ AllActive => s.new \in activeKeys',
         blacklist' = blacklist, logoutAt' = logoutAt, activeKeys \subseteq activeKeys',
         \A k \in issued : pair'[k] = pair[k],
         returned \subseteq returned',
         \A j \in returned' \ returned :
           /\ AllActive => j \in activeKeys'
           /\ pair'[j].parent # None => ~Stale(pair'[pair'[j].parent].iat, logoutAt),
         \A j \in returned \cap refreshKeys' :
           j \in refreshKeys \/ (s.pc = "unavailable" /\ s.rt = j)
  PROVE  RevInv'
  <1>1. req'[r] = s /\ \A q \in Request : q # r => req'[q] = req[q]
    BY Becomes DEF Inv
  <1>2. \A q \in Request : RoleOK(q)'
    BY <1>1 DEF RevInv, RoleOK
  <1>3. Unlisted' => AllActive'
    <2> SUFFICES ASSUME Unlisted' PROVE AllActive'
      OBVIOUS
    <2>1. NotListing(req[r])
      BY DEF RevInv, RoleOK, NotListing, ListingPc
    <2>2. \A q \in Revoker : q # r => NotListing(req[q])
      BY <1>1 DEF Unlisted
    <2>3. AllActive
      BY <2>1, <2>2 DEF Unlisted, RevInv
    <2>4. returned' \subseteq activeKeys'
      BY <2>3 DEF AllActive
    <2>5. ASSUME NEW q \in Request, req'[q].pc \in {"store", "recheck"} PROVE req'[q].new \in activeKeys'
      BY <1>1, <2>3, <2>5 DEF AllActive
    <2>6. QED
      BY <2>4, <2>5 DEF AllActive
  <1>4. ASSUME NEW q \in Request, (req[q].op \in Revokes /\ req[q].clean)'
        PROVE  Cuts(q)'
    <2>1. q # r /\ req'[q] = req[q]
      BY <1>1, <1>4
    <2>2. Cuts(q)
      BY <1>4, <2>1 DEF RevInv
    <2>3. \A j \in returned : pair'[j] = pair[j] /\ (pair[j].parent # None => pair'[pair[j].parent] = pair[pair[j].parent])
      BY DEF Inv, Ownership, PairsOK, TypeInv, TypeOK
    <2>4. Doomed(q) \subseteq returned
      BY <2>2 DEF Cuts, Doomed
    <2>5. ASSUME req[q].pc \in {"drop", "ok"} \cup ListingPc, NEW j \in Doomed(q)'
          PROVE  j \in Doomed(q)
      <3>1. CASE j \in req[q].prior
        BY <3>1 DEF Doomed
      <3>2. CASE j \in returned /\ LateChild(j, req[q].at)'
        BY <2>1, <2>3, <3>2 DEF Doomed, LateChild
      <3>3. CASE j \in returned' \ returned /\ LateChild(j, req[q].at)'
        <4>1. req[q].at = logoutAt \/ req[q].at = 0
          BY <2>2, <2>5 DEF Cuts
        <4>2. QED
          BY <2>1, <3>3, <4>1, NeverStale DEF LateChild
      <3>4. QED
        BY <2>1, <2>5, <3>1, <3>2, <3>3 DEF Doomed
    <2>6. ASSUME NEW j, PutBack(j) PROVE PutBack(j)'
      BY <1>1, <2>6 DEF PutBack
    <2>7. \A j \in returned \cap refreshKeys' : j \in refreshKeys \/ PutBack(j)'
      BY <1>1 DEF PutBack
    <2>8. ASSUME req[q].pc \in {"drop", "ok"} \cup ListingPc, NEW j \in Doomed(q)'
          PROVE  /\ req[q].pc \in {"drop", "scan", "blacklist"} => j \in activeKeys' \cup blacklist
                 /\ req[q].pc = "blacklist" => j \in req[q].scanned \cup blacklist
                 /\ req[q].pc \in {"purge", "ok"} => j \in blacklist
                 /\ req[q].pc # "drop" /\ req[q].op # "setRole" /\ j \in refreshKeys' => PutBack(j)'
      <3>1. j \in Doomed(q) /\ j \in returned
        BY <2>4, <2>5, <2>8
      <3>2. /\ req[q].pc \in {"drop", "scan", "blacklist"} => j \in activeKeys \cup blacklist
            /\ req[q].pc = "blacklist" => j \in req[q].scanned \cup blacklist
            /\ req[q].pc \in {"purge", "ok"} => j \in blacklist
            /\ req[q].pc # "drop" /\ req[q].op # "setRole" /\ j \in refreshKeys => PutBack(j)
        BY <2>2, <2>8, <3>1 DEF Cuts
      <3>3. QED
        BY <2>6, <2>7, <3>1, <3>2
    <2>9. /\ req[q].prior \subseteq returned'
          /\ req[q].op \notin EndsSessions => req[q].at = 0
          /\ req[q].pc \in {"drop", "ok"} \cup ListingPc /\ req[q].op \in EndsSessions => logoutAt' = req[q].at
      BY <2>2 DEF Cuts
    <2>10. QED
      BY <2>1, <2>8, <2>9 DEF Cuts
  <1>5. QED
    BY <1>2, <1>3, <1>4 DEF RevInv

(* A step of the one revoking operation: what the others must keep is nothing. *)
LEMMA RevokingStep ==
  ASSUME Inv, RevInv, NEW r \in Revoker, NEW s, Become(r, s),
         \A q \in Revoker \ {r} : req[q].op \notin Revokes,
         UNCHANGED pairs,
         s.pc \in RevokingPc => s.op \in Revokes,
         s.pc \in {"commit", "clock", "stamp"} => s.op \in EndsSessions,
         s.pc \notin {"store", "recheck", "idle"},
         NotListing(s) => NotListing(req[r]) /\ activeKeys' = activeKeys,
         s.op \in Revokes /\ s.clean => Cuts(r)'
  PROVE  RevInv'
  <1>1. r \in Request /\ req'[r] = s /\ \A q \in Request : q # r => req'[q] = req[q]
    BY Becomes DEF Inv
  <1>2. \A q \in Request : RoleOK(q)'
    BY <1>1 DEF RevInv, RoleOK
  <1>3. Unlisted' => AllActive'
    <2> SUFFICES ASSUME Unlisted' PROVE AllActive'
      OBVIOUS
    <2>1. NotListing(req[r]) /\ activeKeys' = activeKeys
      BY <1>1 DEF Unlisted
    <2>2. \A q \in Revoker : q # r => NotListing(req[q])
      BY <1>1 DEF Unlisted
    <2>3. AllActive
      BY <2>1, <2>2 DEF Unlisted, RevInv
    <2>4. QED
      BY <1>1, <2>1, <2>3 DEF AllActive, pairs
  <1>4. ASSUME NEW q \in Request, (req[q].op \in Revokes /\ req[q].clean)'
        PROVE  Cuts(q)'
    <2>1. CASE q = r
      BY <1>1, <1>4, <2>1
    <2>2. CASE q # r
      BY <1>1, <1>4, <2>2 DEF RevInv, RoleOK, Revokes
    <2>3. QED
      BY <2>1, <2>2
  <1>5. QED
    BY <1>2, <1>3, <1>4 DEF RevInv

\* Answering leaves nothing of a revoking operation.
LEMMA FinishClient ==
  ASSUME Inv, RevInv, NEW r \in Request, NEW o \in OutcomePc, Finish(r, o),
         req[r].op \notin Revokes, req[r].pc \notin OutcomePc,
         blacklist' = blacklist, logoutAt' = logoutAt, activeKeys \subseteq activeKeys',
         UNCHANGED <<issued, pair>>, returned \subseteq returned',
         \A j \in returned' \ returned :
           /\ AllActive => j \in activeKeys'
           /\ pair[j].parent # None => ~Stale(pair[pair[j].parent].iat, logoutAt),
         \A j \in returned \cap refreshKeys' : j \in refreshKeys \/ (o = "unavailable" /\ req[r].rt = j)
  PROVE  RevInv'
  <1> DEFINE t == IF o = "unavailable" THEN req[r].rt ELSE None
             s == [Idle EXCEPT !.pc = o, !.rt = t]
  <1>1. s.pc = o /\ s.op = "none" /\ s.rt = t /\ (o = "unavailable" => t = req[r].rt)
    BY DEF Idle
  <1>2. Become(r, s)
    BY DEF Finish
  <1>3. "none" \notin Revokes /\ "none" \notin AllRevokerOps /\ o \notin {"store", "recheck"}
    BY DEF Revokes, AllRevokerOps
  <1> HIDE DEF s, t
  <1>4. QED
    BY <1>1, <1>2, <1>3, ClientStep

\* Moving on within a login or a refresh.
LEMMA GotoClient ==
  ASSUME Inv, RevInv, NEW r \in Request, NEW p \in SigningPc \cup RefreshPc, Goto(r, p),
         req[r].op \in {"login", "refresh"}, req[r].pc \notin OutcomePc,
         p \in {"store", "recheck"} /\ AllActive => req[r].new \in activeKeys',
         blacklist' = blacklist, logoutAt' = logoutAt, activeKeys \subseteq activeKeys',
         UNCHANGED pairs,
         \A j \in returned \cap refreshKeys' : j \in refreshKeys
  PROVE  RevInv'
  <1> DEFINE s == [req[r] EXCEPT !.pc = p]
  <1>1. s.pc = p /\ s.op = req[r].op /\ s.rt = req[r].rt /\ s.new = req[r].new
    BY DEF Inv, TypeInv, TypeOK, ReqState
  <1>2. Become(r, s)
    BY DEF Goto
  <1>3. req[r].op \notin AllRevokerOps /\ req[r].op \notin Revokes
    BY DEF Revokes, AllRevokerOps
  <1> HIDE DEF s
  <1>4. QED
    BY <1>1, <1>2, <1>3, ClientStep DEF pairs

LEMMA ClientOps ==
  ASSUME Inv, RevInv, NEW r \in Request
  PROVE  /\ req[r] \in ReqState
         /\ req[r].pc \in SigningPc \cup RefreshPc =>
              req[r].op \in {"login", "refresh"} /\ req[r].op \notin Revokes /\ req[r].op \notin AllRevokerOps
         /\ r \notin Revoker => req[r].op \notin Revokes
         /\ req[r].pc \in {"register", "store", "recheck"} =>
              /\ req[r].new \in Jti /\ req[r].new \notin returned
              /\ pair[req[r].new].parent = req[r].rt
         /\ req[r].pc = "recheck" => req[r].rt \in Jti
         /\ req[r].pc = "store" /\ req[r].op = "login" => req[r].rt = None
  BY DEF Inv, TypeInv, TypeOK, WellFormed, TokensKnown, RevInv, RoleOK, Revokes, AllRevokerOps,
         Ownership, NewPairOK, Signing, UnreturnedPc

LEMMA LoginRevokes ==
  ASSUME Inv, RevInv, NEW r \in Request, LoginStep(r)
  PROVE  RevInv'
  <1> USE DEF At, redis
  <1>0. /\ req[r] \in ReqState
        /\ req[r].pc \in SigningPc \cup RefreshPc =>
             req[r].op \in {"login", "refresh"} /\ req[r].op \notin Revokes /\ req[r].op \notin AllRevokerOps
    BY ClientOps
  <1>1. CASE Login(r)
    <2> DEFINE c == CredOf(row.mustChange, row.pw)
               s == [Idle EXCEPT !.pc = "sign", !.op = "login", !.cred = c]
    <2>1. s.pc = "sign" /\ s.op = "login"
      <3> HIDE DEF c
      <3> QED BY DEF Idle
    <2>2. Become(r, s) /\ UNCHANGED redis /\ UNCHANGED pairs /\ req[r].pc = "idle" /\ r \notin Revoker
      BY <1>1 DEF Login
    <2>3. req[r].op \notin Revokes /\ "login" \notin Revokes /\ "login" \notin AllRevokerOps
      BY <2>2, ClientOps DEF Revokes, AllRevokerOps
    <2> HIDE DEF s
    <2>4. QED
      BY <2>1, <2>2, <2>3, ClientStep DEF pairs
  <1>2. CASE Sign(r)
    <2>1. PICK j \in Jti \ issued :
            /\ issued' = issued \cup {j}
            /\ pair' = [pair EXCEPT ![j] =
                 [iat |-> now \div TicksPerSecond, mustChange |-> req[r].cred.mustChange,
                  pw |-> req[r].cred.pw, parent |-> req[r].rt]]
            /\ Become(r, [req[r] EXCEPT !.pc = "register", !.new = j])
      BY <1>2 DEF Sign
    <2> DEFINE s == [req[r] EXCEPT !.pc = "register", !.new = j]
    <2>2. s.pc = "register" /\ s.op = req[r].op
      BY <1>0 DEF ReqState
    <2>3. UNCHANGED redis /\ returned' = returned /\ req[r].pc = "sign"
      BY <1>2 DEF Sign
    <2>4. \A k \in issued : pair'[k] = pair[k]
      BY <2>1 DEF Inv, TypeInv, TypeOK
    <2>5. Become(r, s)
      BY <2>1
    <2> HIDE DEF s
    <2>6. QED
      BY <1>0, <2>2, <2>3, <2>4, <2>5, ClientStep
  <1>3. CASE RegisterActive(r)
    <2>1. /\ Goto(r, "store") /\ activeKeys' = activeKeys \cup {req[r].new} /\ refreshKeys' = refreshKeys
          /\ blacklist' = blacklist /\ logoutAt' = logoutAt /\ UNCHANGED pairs /\ req[r].pc = "register"
      BY <1>3 DEF RegisterActive
    <2>2. QED
      BY <1>0, <2>1, GotoClient
  <1>4. CASE StoreRefreshKey(r)
    <2>1. /\ req[r].pc = "store" /\ refreshKeys' = refreshKeys \cup {req[r].new}
          /\ activeKeys' = activeKeys /\ blacklist' = blacklist /\ logoutAt' = logoutAt
          /\ UNCHANGED <<issued, pair>>
      BY <1>4 DEF StoreRefreshKey
    <2>2. /\ req[r].new \notin returned /\ pair[req[r].new].parent = req[r].rt
          /\ req[r].op = "login" => req[r].rt = None
      BY <2>1, ClientOps
    <2>3. AllActive => req[r].new \in activeKeys
      BY <2>1 DEF AllActive
    <2>4. \A j \in returned \cap refreshKeys' : j \in refreshKeys
      BY <2>1, <2>2
    <2>5. CASE req[r].op = "login"
      <3>1. returned' = returned \cup {req[r].new} /\ Finish(r, "ok")
        BY <1>4, <2>5 DEF StoreRefreshKey
      <3>2. \A j \in returned' \ returned : (AllActive => j \in activeKeys') /\ pair[j].parent = None
        BY <2>1, <2>2, <2>3, <2>5, <3>1
      <3>3. QED
        BY <1>0, <2>1, <2>4, <3>1, <3>2, FinishClient
    <2>6. CASE req[r].op # "login"
      <3>1. returned' = returned /\ Goto(r, "recheck") /\ UNCHANGED pairs
        BY <1>4, <2>1, <2>6 DEF StoreRefreshKey, pairs
      <3>2. QED
        BY <1>0, <2>1, <2>3, <2>4, <3>1, GotoClient
    <2>7. QED
      BY <2>5, <2>6
  <1>5. CASE RegisterFails(r)
    <2>1. /\ req[r].pc = "register" /\ UNCHANGED pairs /\ refreshKeys' = refreshKeys
          /\ activeKeys \subseteq activeKeys' /\ blacklist' = blacklist /\ logoutAt' = logoutAt
      BY <1>5 DEF RegisterFails, MayBe
    <2>2. Goto(r, "putBack") \/ Finish(r, "unavailable")
      BY <1>5 DEF RegisterFails, AfterSigningFailed
    <2>3. QED
      BY <1>0, <2>1, <2>2, GotoClient, FinishClient DEF pairs
  <1>6. CASE StoreFails(r)
    <2>1. /\ req[r].pc = "store" /\ UNCHANGED pairs /\ refreshKeys' \subseteq refreshKeys \cup {req[r].new}
          /\ activeKeys' = activeKeys /\ blacklist' = blacklist /\ logoutAt' = logoutAt
      BY <1>6 DEF StoreFails, MayBe
    <2>2. req[r].new \notin returned
      BY <2>1, ClientOps
    <2>3. \A j \in returned \cap refreshKeys' : j \in refreshKeys
      BY <2>1, <2>2
    <2>4. Goto(r, "putBack") \/ Finish(r, "unavailable")
      BY <1>6 DEF StoreFails, AfterSigningFailed
    <2>5. QED
      BY <1>0, <2>1, <2>3, <2>4, GotoClient, FinishClient DEF pairs
  <1> QED
    BY <1>1, <1>2, <1>3, <1>4, <1>5, <1>6 DEF LoginStep

LEMMA RefreshRevokes ==
  ASSUME Inv, RevInv, NEW r \in Request, RefreshStep(r)
  PROVE  RevInv'
  <1> USE DEF At, redis
  <1>0. /\ req[r] \in ReqState
        /\ req[r].pc \in SigningPc \cup RefreshPc =>
             req[r].op \in {"login", "refresh"} /\ req[r].op \notin Revokes /\ req[r].op \notin AllRevokerOps
    BY ClientOps
  <1>1. ASSUME NEW j \in Jti, PresentRefreshToken(r, j) PROVE RevInv'
    <2> DEFINE s == [Idle EXCEPT !.pc = "early", !.op = "refresh", !.rt = j]
    <2>1. s.pc = "early" /\ s.op = "refresh"
      BY DEF Idle
    <2>2. Become(r, s) /\ UNCHANGED redis /\ UNCHANGED pairs /\ req[r].pc = "idle" /\ r \notin Revoker
      BY <1>1 DEF PresentRefreshToken
    <2>3. req[r].op \notin Revokes /\ "refresh" \notin Revokes /\ "refresh" \notin AllRevokerOps
      BY <2>2, ClientOps DEF Revokes, AllRevokerOps
    <2> HIDE DEF s
    <2>4. QED
      BY <2>1, <2>2, <2>3, ClientStep DEF pairs
  <1>2. CASE CheckLogoutAt(r) \/ PeekRefreshKey(r)
    <2>1. UNCHANGED redis /\ UNCHANGED pairs /\ req[r].pc \in {"early", "peek"}
      BY <1>2 DEF CheckLogoutAt, PeekRefreshKey
    <2>2. Goto(r, "peek") \/ Goto(r, "user") \/ Finish(r, "rejected")
      BY <1>2 DEF CheckLogoutAt, PeekRefreshKey
    <2>3. QED
      BY <1>0, <2>1, <2>2, GotoClient, FinishClient DEF pairs
  <1>4. CASE ReadUser(r)
    <2> DEFINE c == CredOf(row.mustChange, pair[req[r].rt].pw)
               s == [req[r] EXCEPT !.pc = "claim", !.cred = c]
    <2>1. s.pc = "claim" /\ s.op = req[r].op
      <3> HIDE DEF c
      <3> QED BY <1>0 DEF ReqState
    <2>2. UNCHANGED redis /\ UNCHANGED pairs /\ req[r].pc = "user"
      BY <1>4 DEF ReadUser
    <2>3. Become(r, s) \/ Finish(r, "rejected")
      BY <1>4 DEF ReadUser
    <2> HIDE DEF s
    <2>4. QED
      BY <1>0, <2>1, <2>2, <2>3, ClientStep, FinishClient DEF pairs
  <1>5. CASE ClaimRefreshKey(r) \/ ClaimFails(r)
    <2>1. /\ req[r].pc = "claim" /\ UNCHANGED pairs /\ refreshKeys' \subseteq refreshKeys
          /\ activeKeys' = activeKeys /\ blacklist' = blacklist /\ logoutAt' = logoutAt
      BY <1>5 DEF ClaimRefreshKey, ClaimFails, MayBe
    <2>2. Goto(r, "sign") \/ Finish(r, "rejected") \/ Finish(r, "unavailable")
      BY <1>5 DEF ClaimRefreshKey, ClaimFails
    <2>3. QED
      BY <1>0, <2>1, <2>2, GotoClient, FinishClient DEF pairs
  <1>6. CASE RecheckLogoutAt(r)
    <2>1. UNCHANGED redis /\ UNCHANGED <<issued, pair>> /\ req[r].pc = "recheck"
      BY <1>6 DEF RecheckLogoutAt
    <2>2. CASE Stale(pair[req[r].rt].iat, logoutAt)
      BY <1>0, <1>6, <2>1, <2>2, FinishClient DEF RecheckLogoutAt
    <2>3. CASE ~Stale(pair[req[r].rt].iat, logoutAt)
      <3>1. returned' = returned \cup {req[r].new} /\ Finish(r, "ok")
        BY <1>6, <2>3 DEF RecheckLogoutAt
      <3>2. pair[req[r].new].parent = req[r].rt
        BY <2>1, ClientOps
      <3>3. AllActive => req[r].new \in activeKeys
        BY <2>1 DEF AllActive
      <3>4. \A j \in returned' \ returned :
              (AllActive => j \in activeKeys') /\ ~Stale(pair[pair[j].parent].iat, logoutAt)
        BY <2>1, <2>3, <3>1, <3>2, <3>3
      <3>5. QED
        BY <1>0, <2>1, <3>1, <3>4, FinishClient
    <2>4. QED
      BY <2>2, <2>3
  <1>7. CASE PutBackRefreshKey(r) \/ PutBackFails(r)
    <2>1. /\ req[r].pc = "putBack" /\ UNCHANGED pairs /\ refreshKeys' \subseteq refreshKeys \cup {req[r].rt}
          /\ activeKeys' = activeKeys /\ blacklist' = blacklist /\ logoutAt' = logoutAt
          /\ Finish(r, "unavailable") \/ AnswerUnrestored(r)
      BY <1>7 DEF PutBackRefreshKey, PutBackFails, MayBe
    <2>2. \A j \in returned \cap refreshKeys' : j \in refreshKeys \/ req[r].rt = j
      BY <2>1
    <2>3. PICK s : Become(r, s) /\ s.pc = "unavailable" /\ s.rt = req[r].rt /\ s.op = "none"
      BY <2>1, PutBackAnswers
    <2>4. "none" \notin Revokes /\ "none" \notin AllRevokerOps
      BY DEF Revokes, AllRevokerOps
    <2>5. QED
      BY <1>0, <2>1, <2>2, <2>3, <2>4, ClientStep DEF pairs
  <1>8. CASE ReadFails(r)
    BY <1>0, <1>8, FinishClient DEF ReadFails, pairs
  <1> QED
    BY <1>1, <1>2, <1>4, <1>5, <1>6, <1>7, <1>8 DEF RefreshStep

\* While one operation revokes, the others have begun nothing.
LEMMA OthersIdle ==
  ASSUME RevInv, NEW r \in Revoker, OneRevocation, HasRevoked(r)
  PROVE  /\ \A q \in Revoker \ {r} : req[q].op \notin Revokes
         /\ NotListing(req[r]) => AllActive
  <1>1. \A q \in Revoker \ {r} : ~HasRevoked(q)
    BY DEF OneRevocation
  <1>2. \A q \in Revoker \ {r} : req[q].op \notin Revokes /\ NotListing(req[q])
    BY <1>1 DEF HasRevoked, RevInv, RoleOK, NotListing, ListingPc
  <1>3. QED
    BY <1>2 DEF RevInv, Unlisted

\* The operation begins: whatever clients hold is still active.
LEMMA EditBegins ==
  ASSUME Inv, RevInv, OneRevocation', NEW r \in Revoker, req[r].pc = "idle", NEW s, Become(r, s),
         s.op \in Revokes, s.at = 0, s.prior \in {{}, returned}, UNCHANGED <<redis, pairs>>,
         \/ s.pc \in {"commit", "clock"} /\ s.op \in EndsSessions
         \/ s.pc = "drop" /\ s.op \notin EndsSessions
         \/ s.pc = "scan" /\ s.op = "setRole"
  PROVE  RevInv'
  <1>1. r \in Request /\ req'[r] = s /\ \A q \in Request : q # r => req'[q] = req[q]
    BY Becomes DEF Inv
  <1>2. \A q \in Revoker \ {r} : ~HasRevoked(q)
    BY <1>1 DEF OneRevocation, HasRevoked
  <1>3. \A q \in Revoker \ {r} : req[q].op \notin Revokes /\ NotListing(req[q])
    BY <1>2 DEF HasRevoked, RevInv, RoleOK, NotListing, ListingPc
  <1>4. NotListing(req[r])
    BY DEF NotListing, ListingPc
  <1>5. returned \subseteq activeKeys
    BY <1>3, <1>4 DEF RevInv, Unlisted, AllActive
  <1>6. \A j : ~LateChild(j, 0)'
    BY NeverStale DEF LateChild
  <1>7. Doomed(r)' = s.prior
    BY <1>1, <1>6 DEF Doomed
  <1>8. "setRole" \notin EndsSessions
    BY DEF EndsSessions
  <1>9. Cuts(r)'
    BY <1>1, <1>5, <1>7, <1>8 DEF Cuts, ListingPc, redis, pairs
  <1>10. activeKeys' = activeKeys /\ UNCHANGED pairs
    BY DEF redis
  <1>11. s.pc \in {"commit", "clock", "stamp"} => s.op \in EndsSessions
    OBVIOUS
  <1>12. QED
    BY <1>3, <1>4, <1>9, <1>10, <1>11, RevokingStep

LEMMA RevokerStarts ==
  ASSUME Inv, RevInv, OneRevocation', NEW r \in Request,
         StartLogout(r) \/ StartChangePassword(r) \/ \E op \in AllRevokerOps : AdminEdit(r, op)
  PROVE  RevInv'
  <1> USE DEF At
  <1>1. CASE StartLogout(r)
    <2> DEFINE s == [Idle EXCEPT !.pc = "clock", !.op = "logout", !.prior = returned]
    <2>1. s.pc = "clock" /\ s.op = "logout" /\ s.prior = returned /\ s.at = 0
      BY DEF Idle
    <2>2. Become(r, s) /\ UNCHANGED <<redis, pairs>> /\ req[r].pc = "idle" /\ r \in Revoker
      BY <1>1 DEF StartLogout
    <2>3. "logout" \in Revokes /\ "logout" \in EndsSessions
      BY DEF Revokes, AllRevokerOps, EndsSessions
    <2> HIDE DEF s
    <2>4. QED
      BY <2>1, <2>2, <2>3, EditBegins
  <1>2. CASE StartChangePassword(r)
    <2> DEFINE c == CredOf(row.mustChange, row.pw)
               s == [Idle EXCEPT !.pc = "commit", !.op = "changePassword", !.cred = c]
    <2>1. s.pc = "commit" /\ s.op = "changePassword" /\ s.prior = {} /\ s.at = 0
      <3> HIDE DEF c
      <3> QED BY DEF Idle
    <2>2. Become(r, s) /\ UNCHANGED <<redis, pairs>> /\ req[r].pc = "idle" /\ r \in Revoker
      BY <1>2 DEF StartChangePassword
    <2>3. "changePassword" \in Revokes /\ "changePassword" \in EndsSessions
      BY DEF Revokes, AllRevokerOps, EndsSessions
    <2> HIDE DEF s
    <2>4. QED
      BY <2>1, <2>2, <2>3, EditBegins
  <1>3. ASSUME NEW op \in AllRevokerOps, AdminEdit(r, op) PROVE RevInv'
    <2> DEFINE c == CredOf(row'.mustChange, row'.pw)
               s == [Idle EXCEPT !.pc = AdminRevokes(op), !.op = op, !.prior = returned, !.cred = c]
    <2>1. s.pc = AdminRevokes(op) /\ s.op = op /\ s.prior = returned /\ s.at = 0
      <3> HIDE DEF c
      <3> QED BY DEF Idle
    <2>2. /\ Become(r, s) /\ UNCHANGED <<redis, pairs>> /\ req[r].pc = "idle" /\ r \in Revoker
          /\ op \notin {"logout", "changePassword"}
      BY <1>3 DEF AdminEdit
    <2> HIDE DEF s
    <2>3. CASE op \in {"enable", "unlock", "restore"}
      <3>1. s.pc = "ok" /\ s.op \notin Revokes
        BY <2>1, <2>3 DEF AdminRevokes, Revokes
      <3>2. req[r].op \notin Revokes
        BY <2>2 DEF RevInv, RoleOK, Revokes
      <3>3. QED
        BY <2>2, <3>1, <3>2, ClientStep DEF pairs, redis
    <2>4. CASE op \in Revokes
      <3>1. s.pc = "drop" \/ (s.pc = "scan" /\ op = "setRole")
        BY <2>1, <2>2, <2>4 DEF AdminRevokes, Revokes, AllRevokerOps
      <3>2. op \notin EndsSessions
        BY <2>2 DEF EndsSessions
      <3>3. QED
        BY <2>1, <2>2, <2>4, <3>1, <3>2, EditBegins
    <2>5. QED
      BY <2>3, <2>4 DEF Revokes
  <1>4. QED
    BY <1>1, <1>2, <1>3

LEMMA RevokerMoves ==
  ASSUME Inv, RevInv, OneRevocation, NEW r \in Request,
         \/ CommitPassword(r) \/ TakeStamp(r) \/ WriteStamp(r) \/ DropRefreshKeys(r)
         \/ ScanActive(r) \/ Blacklist(r) \/ PurgeActive(r) \/ RevocationFails(r)
  PROVE  RevInv'
  <1> USE DEF At
  <1>0. /\ req[r] \in ReqState /\ req[r].pc \in RevokingPc /\ UNCHANGED pairs
        /\ \A s : Become(r, s) => req'[r] = s
    BY Becomes DEF Inv, TypeInv, TypeOK, CommitPassword, TakeStamp, WriteStamp, DropRefreshKeys, ScanActive,
           Blacklist, PurgeActive, RevocationFails
  <1>1. r \in Revoker /\ req[r].op \in Revokes /\ (req[r].pc \in {"commit", "clock", "stamp"} => req[r].op \in EndsSessions)
    BY <1>0 DEF RevInv, RoleOK, Revokes
  <1>2. /\ \A q \in Revoker \ {r} : req[q].op \notin Revokes
        /\ NotListing(req[r]) => AllActive
    BY <1>1, OthersIdle DEF HasRevoked
  <1>3. req[r].clean => Cuts(r)
    BY <1>1 DEF RevInv
  <1>4. ASSUME NEW s, Become(r, s), s.op = req[r].op, s.pc \in (RevokingPc \cup {"ok"}) \ {"commit", "clock", "stamp"},
               s.pc = "drop" => req[r].pc \in {"stamp", "drop"} /\ activeKeys' = activeKeys,
               s.clean => Cuts(r)'
        PROVE  RevInv'
    <2>1. NotListing(s) => NotListing(req[r]) /\ activeKeys' = activeKeys
      <3>1. s.pc = "ok" => ~NotListing(s)
        BY <1>1, <1>4 DEF NotListing
      <3>2. NotListing(s) => s.pc = "drop"
        BY <1>4, <3>1 DEF NotListing, ListingPc
      <3>3. req[r].pc \in {"stamp", "drop"} => NotListing(req[r])
        BY DEF NotListing, ListingPc
      <3>4. QED
        BY <1>4, <3>2, <3>3
    <2>2. s.pc \notin {"store", "recheck", "idle"}
      BY <1>4
    <2>3. QED
      BY <1>0, <1>1, <1>2, <1>4, <2>1, <2>2, RevokingStep
  <1>5. CASE CommitPassword(r)
    <2>1. UNCHANGED redis /\ req[r].pc = "commit"
      BY <1>5 DEF CommitPassword
    <2>2. NotListing(req[r])
      BY <2>1 DEF NotListing, ListingPc
    <2>3. activeKeys' = activeKeys
      BY <2>1 DEF redis
    <2>4. CASE Finish(r, "rejected")
      <3> DEFINE s == [Idle EXCEPT !.pc = "rejected",
                         !.rt = IF "rejected" = "unavailable" THEN req[r].rt ELSE None]
      <3>1. s.pc = "rejected" /\ s.op = "none" /\ "none" \notin Revokes
        BY DEF Idle, Revokes, AllRevokerOps
      <3>2. Become(r, s)
        BY <2>4 DEF Finish
      <3> HIDE DEF s
      <3>3. QED
        BY <1>0, <1>1, <1>2, <2>2, <2>3, <3>1, <3>2, RevokingStep
    <2>5. CASE ~Finish(r, "rejected")
      <3> DEFINE c == CredOf(FALSE, row.pw + 1)
                 s == [req[r] EXCEPT !.pc = "clock", !.prior = returned, !.cred = c]
      <3>1. Become(r, s)
        BY <1>5, <2>5 DEF CommitPassword
      <3>2. /\ s.pc = "clock" /\ s.prior = returned /\ s.op = req[r].op /\ s.at = req[r].at
            /\ s.clean = req[r].clean
        <4> HIDE DEF c
        <4> QED BY <1>0 DEF ReqState
      <3> HIDE DEF s
      <3>3. s.clean => Cuts(r)'
        BY <1>0, <1>3, <3>1, <3>2 DEF Cuts, ListingPc, pairs
      <3>4. req[r].op \in EndsSessions
        BY <1>0, <2>1 DEF RevInv, RoleOK
      <3>5. QED
        BY <1>0, <1>1, <1>2, <2>2, <2>3, <3>1, <3>2, <3>3, <3>4, RevokingStep
    <2>6. QED
      BY <2>4, <2>5
  <1>6. CASE TakeStamp(r)
    <2> DEFINE s == [req[r] EXCEPT !.pc = "stamp", !.at = now]
    <2>1. Become(r, s) /\ UNCHANGED redis /\ req[r].pc = "clock"
      BY <1>6 DEF TakeStamp
    <2>2. s.pc = "stamp" /\ s.prior = req[r].prior /\ s.op = req[r].op /\ s.clean = req[r].clean
      BY <1>0 DEF ReqState
    <2> HIDE DEF s
    <2>3. NotListing(req[r]) /\ activeKeys' = activeKeys
      BY <2>1 DEF NotListing, ListingPc, redis
    <2>4. s.clean => Cuts(r)'
      BY <1>0, <1>1, <1>3, <2>1, <2>2 DEF Cuts, ListingPc, pairs
    <2>5. QED
      BY <1>0, <1>1, <1>2, <2>1, <2>2, <2>3, <2>4, RevokingStep
  <1>7. CASE WriteStamp(r)
    <2> DEFINE s == [req[r] EXCEPT !.pc = "drop", !.retried = FALSE]
    <2>1. /\ Become(r, s) /\ req[r].pc = "stamp" /\ logoutAt' = req[r].at /\ refreshKeys' = refreshKeys
          /\ activeKeys' = activeKeys /\ blacklist' = blacklist
      BY <1>7 DEF WriteStamp
    <2>2. /\ s.pc = "drop" /\ s.prior = req[r].prior /\ s.op = req[r].op /\ s.clean = req[r].clean
          /\ s.at = req[r].at
      BY <1>0 DEF ReqState
    <2> HIDE DEF s
    <2>3. returned \subseteq activeKeys
      BY <1>2, <2>1 DEF NotListing, ListingPc, AllActive
    <2>4. s.clean => Cuts(r)'
      <3>1. req[r].clean => Doomed(r)' \subseteq returned
        BY <1>0, <1>3, <2>1, <2>2 DEF Cuts, Doomed, pairs
      <3>2. QED
        BY <1>0, <1>1, <1>3, <2>1, <2>2, <2>3, <3>1 DEF Cuts, ListingPc, pairs
    <2>5. QED
      BY <1>4, <2>1, <2>2, <2>4
  <1>8. CASE DropRefreshKeys(r)
    <2> DEFINE s == [req[r] EXCEPT !.pc = "scan", !.retried = FALSE]
    <2>1. /\ Become(r, s) /\ req[r].pc = "drop" /\ logoutAt' = logoutAt /\ refreshKeys' = {}
          /\ activeKeys' = activeKeys /\ blacklist' = blacklist
      BY <1>8 DEF DropRefreshKeys
    <2>2. /\ s.pc = "scan" /\ s.prior = req[r].prior /\ s.op = req[r].op /\ s.clean = req[r].clean
          /\ s.at = req[r].at
      BY <1>0 DEF ReqState
    <2> HIDE DEF s
    <2>3. Doomed(r)' = Doomed(r)
      BY <1>0, <2>1, <2>2 DEF Doomed, LateChild, pairs
    <2>4. s.clean => Cuts(r)'
      BY <1>0, <1>3, <2>1, <2>2, <2>3 DEF Cuts, ListingPc, pairs
    <2>5. QED
      BY <1>4, <2>1, <2>2, <2>4
  <1>9. CASE ScanActive(r)
    <2> DEFINE p == IF activeKeys = {} THEN "ok" ELSE "blacklist"
               s == [req[r] EXCEPT !.pc = p, !.scanned = activeKeys]
    <2>1. Become(r, s) /\ req[r].pc = "scan" /\ UNCHANGED redis
      BY <1>9 DEF ScanActive
    <2>2. /\ s.pc = p /\ s.prior = req[r].prior /\ s.op = req[r].op /\ s.clean = req[r].clean
          /\ s.at = req[r].at /\ s.scanned = activeKeys
      <3> HIDE DEF p
      <3> QED BY <1>0 DEF ReqState
    <2> HIDE DEF s
    <2>3. Doomed(r)' = Doomed(r) /\ \A j : PutBack(j) => PutBack(j)'
      <3>1. \A q \in Request : q # r => req'[q] = req[q]
        BY <2>1, Becomes DEF Inv
      <3>2. QED
        BY <1>0, <2>1, <2>2, <3>1 DEF Doomed, LateChild, pairs, PutBack
    <2>4. s.clean => Cuts(r)'
      <3>1. CASE activeKeys = {}
        BY <1>0, <1>3, <2>1, <2>2, <2>3, <3>1 DEF Cuts, ListingPc, pairs, redis
      <3>2. CASE activeKeys # {}
        BY <1>0, <1>3, <2>1, <2>2, <2>3, <3>2 DEF Cuts, ListingPc, pairs, redis
      <3>3. QED
        BY <3>1, <3>2
    <2>5. QED
      BY <1>4, <2>1, <2>2, <2>4
  <1>10. CASE Blacklist(r)
    <2>1. PICK i \in req[r].scanned :
            /\ blacklist' = blacklist \cup {i}
            /\ Become(r, [req[r] EXCEPT !.scanned = req[r].scanned \ {i},
                           !.pc = IF req[r].scanned = {i} THEN "purge" ELSE "blacklist"])
      BY <1>10 DEF Blacklist
    <2> DEFINE p == IF req[r].scanned = {i} THEN "purge" ELSE "blacklist"
               s == [req[r] EXCEPT !.scanned = req[r].scanned \ {i}, !.pc = p]
    <2>2. Become(r, s) /\ req[r].pc = "blacklist"
      BY <1>10, <2>1 DEF Blacklist
    <2>3. activeKeys' = activeKeys /\ refreshKeys' = refreshKeys /\ logoutAt' = logoutAt
      BY <1>10 DEF Blacklist
    <2>4. /\ s.pc = p /\ s.prior = req[r].prior /\ s.op = req[r].op /\ s.clean = req[r].clean
          /\ s.at = req[r].at /\ s.scanned = req[r].scanned \ {i}
      <3> HIDE DEF p
      <3> QED BY <1>0 DEF ReqState
    <2> HIDE DEF s
    <2>5. Doomed(r)' = Doomed(r) /\ \A j : PutBack(j) => PutBack(j)'
      <3>1. \A q \in Request : q # r => req'[q] = req[q]
        BY <2>2, Becomes DEF Inv
      <3>2. QED
        BY <1>0, <2>2, <2>4, <3>1 DEF Doomed, LateChild, pairs, PutBack
    <2>6. s.clean => Cuts(r)'
      <3>1. CASE req[r].scanned = {i}
        BY <1>0, <1>3, <2>1, <2>2, <2>3, <2>4, <2>5, <3>1 DEF Cuts, ListingPc, pairs
      <3>2. CASE req[r].scanned # {i}
        BY <1>0, <1>3, <2>1, <2>2, <2>3, <2>4, <2>5, <3>2 DEF Cuts, ListingPc, pairs
      <3>3. QED
        BY <3>1, <3>2
    <2>7. QED
      BY <1>4, <2>2, <2>4, <2>6
  <1>11. CASE PurgeActive(r)
    <2> DEFINE s == [req[r] EXCEPT !.pc = "ok"]
    <2>1. /\ Become(r, s) /\ req[r].pc = "purge" /\ logoutAt' = logoutAt /\ refreshKeys' = refreshKeys
          /\ blacklist' = blacklist
      BY <1>11 DEF PurgeActive, Goto
    <2>2. /\ s.pc = "ok" /\ s.prior = req[r].prior /\ s.op = req[r].op /\ s.clean = req[r].clean
          /\ s.at = req[r].at
      BY <1>0 DEF ReqState
    <2> HIDE DEF s
    <2>3. Doomed(r)' = Doomed(r) /\ \A j : PutBack(j) => PutBack(j)'
      <3>1. \A q \in Request : q # r => req'[q] = req[q]
        BY <2>1, Becomes DEF Inv
      <3>2. QED
        BY <1>0, <2>1, <2>2, <3>1 DEF Doomed, LateChild, pairs, PutBack
    <2>4. s.clean => Cuts(r)'
      BY <1>0, <1>3, <2>1, <2>2, <2>3 DEF Cuts, ListingPc, pairs
    <2>5. QED
      BY <1>4, <2>1, <2>2, <2>4
  <1>12. CASE RevocationFails(r)
    <2>1. /\ req[r].pc \in {"stamp", "drop", "scan", "blacklist", "purge"} /\ StepFails(r)
          /\ blacklist \subseteq blacklist'
          /\ req[r].pc # "stamp" => logoutAt' = logoutAt
          /\ req[r].pc # "drop" => refreshKeys' = refreshKeys
          /\ req[r].pc # "purge" => activeKeys' = activeKeys
      BY <1>12 DEF RevocationFails, redis
    <2>2. CASE req[r].retried
      <3> DEFINE p == After(req[r].pc)
                 s == [req[r] EXCEPT !.pc = p, !.retried = FALSE, !.clean = FALSE, !.scanned = {}]
      <3>1. Become(r, s)
        BY <2>1, <2>2 DEF StepFails
      <3>2. s.pc = p /\ s.op = req[r].op /\ ~s.clean
        <4> HIDE DEF p
        <4> QED BY <1>0 DEF ReqState
      <3>3. /\ p \in {"drop", "scan", "ok"}
            /\ p = "drop" => req[r].pc = "stamp"
        BY <2>1 DEF After
      <3> HIDE DEF s, p
      <3>4. QED
        BY <1>4, <2>1, <3>1, <3>2, <3>3
    <2>3. CASE ~req[r].retried
      <3> DEFINE p == FirstOf(req[r].pc)
                 s == [req[r] EXCEPT !.pc = p, !.retried = TRUE, !.scanned = {}]
      <3>1. Become(r, s)
        BY <2>1, <2>3 DEF StepFails
      <3>2. /\ s.pc = p /\ s.prior = req[r].prior /\ s.op = req[r].op /\ s.clean = req[r].clean
            /\ s.at = req[r].at
        <4> HIDE DEF p
        <4> QED BY <1>0 DEF ReqState
      <3>3. /\ req[r].pc = "stamp" => p = "clock"
            /\ req[r].pc = "drop" => p = "drop"
            /\ req[r].pc \in ListingPc => p = "scan"
            /\ req[r].pc \in {"stamp", "drop"} \cup ListingPc
        BY <2>1 DEF FirstOf, ListingPc
      <3> HIDE DEF s, p
      <3>4. Doomed(r)' = Doomed(r) /\ \A j : PutBack(j) => PutBack(j)'
        <4>1. \A q \in Request : q # r => req'[q] = req[q]
          BY <3>1, Becomes DEF Inv
        <4>2. QED
          BY <1>0, <3>1, <3>2, <4>1 DEF Doomed, LateChild, pairs, PutBack
      <3>5. CASE req[r].pc = "stamp"
        <4>1. s.clean => Cuts(r)'
          BY <1>0, <1>1, <1>3, <3>1, <3>2, <3>3, <3>5 DEF Cuts, ListingPc, pairs
        <4>2. NotListing(req[r]) /\ activeKeys' = activeKeys
          BY <2>1, <3>5 DEF NotListing, ListingPc
        <4>3. QED
          BY <1>0, <1>1, <1>2, <3>1, <3>2, <3>3, <3>5, <4>1, <4>2, RevokingStep
      <3>6. CASE req[r].pc = "drop"
        <4>1. s.clean => Cuts(r)'
          BY <1>0, <1>3, <2>1, <3>1, <3>2, <3>3, <3>4, <3>6 DEF Cuts, ListingPc, pairs
        <4>2. QED
          BY <1>4, <2>1, <3>1, <3>2, <3>3, <3>6, <4>1
      <3>7. CASE req[r].pc \in ListingPc
        <4>1. s.clean => Cuts(r)'
          BY <1>0, <1>3, <2>1, <3>1, <3>2, <3>3, <3>4, <3>7 DEF Cuts, ListingPc, pairs
        <4>2. QED
          BY <1>4, <3>1, <3>2, <3>3, <3>7, <4>1
      <3>8. QED
        BY <3>3, <3>5, <3>6, <3>7
    <2>4. QED
      BY <2>2, <2>3
  <1> QED
    BY <1>5, <1>6, <1>7, <1>8, <1>9, <1>10, <1>11, <1>12

LEMMA RequestGone ==
  ASSUME Inv, RevInv, OneRevocation, OneRevocation', NEW r \in Request, Abandoned(r)
  PROVE  RevInv'
  <1> DEFINE s == [Idle EXCEPT !.pc = "abandoned",
                     !.rt = IF "abandoned" = "unavailable" THEN req[r].rt ELSE None]
  <1>1. s.pc = "abandoned" /\ s.op = "none" /\ "none" \notin Revokes /\ "none" \notin AllRevokerOps
    BY DEF Idle, Revokes, AllRevokerOps
  <1>2. Become(r, s) /\ UNCHANGED redis /\ UNCHANGED pairs /\ req[r].pc \notin {"idle"} \cup OutcomePc
    BY DEF Abandoned, Finish
  <1> HIDE DEF s
  <1>3. req'[r] = s /\ \A q \in Request : q # r => req'[q] = req[q]
    BY <1>2, Becomes DEF Inv
  <1>4. CASE req[r].op \in Revokes
    <2>1. r \in Revoker
      BY <1>4 DEF RevInv, RoleOK, Revokes
    <2>2. \A q \in Revoker \ {r} : req[q].op \notin Revokes
      BY <1>4, <2>1, OthersIdle DEF HasRevoked
    <2>3. ~NotListing(s)
      BY <1>1 DEF NotListing
    <2>4. QED
      BY <1>1, <1>2, <2>1, <2>2, <2>3, RevokingStep
  <1>5. CASE req[r].op \notin Revokes
    BY <1>1, <1>2, <1>5, ClientStep DEF pairs, redis
  <1>6. QED
    BY <1>4, <1>5

LEMMA RevStep == Inv /\ RevInv /\ OneRevocation /\ OneRevocation' /\ [Next]_vars => RevInv'
  <1> SUFFICES ASSUME Inv, RevInv, OneRevocation, OneRevocation', [Next]_vars PROVE RevInv'
    OBVIOUS
  <1>1. ASSUME UNCHANGED <<redis, pairs, req>> PROVE RevInv'
    BY <1>1 DEF RevInv, RoleOK, Unlisted, NotListing, AllActive, Cuts, Doomed, LateChild, PutBack, redis, pairs
  <1>2. QED
    BY <1>1, LoginRevokes, RefreshRevokes, RevokerStarts, RevokerMoves, RequestGone
       DEF Next, RevokerStep, Tick, AllServed, vars

LEMMA InitRevInv == Init => RevInv
  <1> SUFFICES ASSUME Init PROVE RevInv
    OBVIOUS
  <1>1. \A r \in Request : req[r].pc = "idle" /\ req[r].op = "none"
    BY DEF Init, Idle
  <1>2. "none" \notin Revokes /\ "none" \notin AllRevokerOps
    BY DEF Revokes, AllRevokerOps
  <1>3. returned \subseteq activeKeys
    BY DEF Init
  <1>4. QED
    BY <1>1, <1>2, <1>3 DEF RevInv, RoleOK, AllActive

LEMMA RevAlways == Spec /\ []OneRevocation => [](Inv /\ RevInv)
  <1>1. Init => Inv
    BY InitTyped, InitOwned DEF Inv
  <1>2. QED
    BY <1>1, InitRevInv, InvStep, RevStep, PTL DEF Spec

(* The guard and refresh look at what the completed operation has left behind. *)
LEMMA CutOff == Inv /\ RevInv => LogoutCutsOff /\ RevocationComplete
  <1> SUFFICES ASSUME Inv, RevInv PROVE LogoutCutsOff /\ RevocationComplete
    OBVIOUS
  <1>1. ASSUME NEW r \in Request, Completed(r, Revokes)
        PROVE  /\ req[r].prior \subseteq Doomed(r)
               /\ req[r].op \in EndsSessions => logoutAt = req[r].at
               /\ \A j \in Doomed(r) : ~GuardAccepts(j) /\ (RefreshUsable(j) => req[r].op = "setRole" \/ PutBack(j))
    <2>1. Cuts(r) /\ req[r].pc = "ok"
      BY <1>1 DEF Completed, RevInv
    <2>2. QED
      BY <2>1 DEF Cuts, Doomed, ListingPc, GuardAccepts, RefreshUsable
  <1>2. LogoutCutsOff
    <2> SUFFICES ASSUME NEW r \in Request, Completed(r, {"logout", "changePassword"}),
                        NEW j \in Jti, GuardAccepts(j) \/ RefreshUsable(j)
                 PROVE  /\ ~Stale(pair[j].iat, req[r].at)
                        /\ pair[j].parent # None =>
                             ~Stale(pair[pair[j].parent].iat, req[r].at) \/ PutBack(j)
      BY DEF LogoutCutsOff
    <2>1. Completed(r, Revokes) /\ req[r].op \in EndsSessions /\ req[r].op # "setRole"
      BY DEF Completed, Revokes, AllRevokerOps, EndsSessions
    <2>2. j \in returned /\ ~Stale(pair[j].iat, logoutAt)
      BY DEF GuardAccepts, RefreshUsable
    <2>3. CASE j \in Doomed(r)
      BY <1>1, <2>1, <2>2, <2>3
    <2>4. CASE j \notin Doomed(r)
      BY <1>1, <2>1, <2>2, <2>4 DEF Doomed, LateChild
    <2>5. QED
      BY <2>3, <2>4
  <1>3. RevocationComplete
    <2> SUFFICES ASSUME NEW r \in Request, Completed(r, AllRevokerOps \ {"enable", "unlock", "restore"}),
                        NEW j \in req[r].prior
                 PROVE  ~GuardAccepts(j) /\ (RefreshUsable(j) => req[r].op = "setRole" \/ PutBack(j))
      BY DEF RevocationComplete
    <2>1. Completed(r, Revokes)
      BY DEF Revokes
    <2>2. QED
      BY <1>1, <2>1
  <1>4. QED
    BY <1>2, <1>3

(* A logout or a password change that ended without a failed step has ended every
   session of an earlier second, a refresh that overlaps its three steps included, for
   any number of logins and refreshes, of failing calls and of requests that die.     *)
THEOREM LogoutEndsSessions == Spec /\ []OneRevocation => []LogoutCutsOff
  <1>1. QED
    BY RevAlways, CutOff, PTL

(* Every revoking operation that ended without a failed step has revoked the pairs that
   clients held when it took effect, unless another one's purge may have deleted their
   active keys.                                                                        *)
THEOREM RevocationsAreComplete == Spec /\ []OneRevocation => []RevocationComplete
  <1>1. QED
    BY RevAlways, CutOff, PTL

-----------------------------------------------------------------------------
(* Refinement.  The stage of a token is a function of the keys in Redis, of the
   requests and of the pairs; a step moves one token, or revokes the live ones,
   while tokens that were signed and never stored may fall away beside it.     *)
StoringPc == {"register", "store"}

LEMMA StageOf ==
  ASSUME Inv, NEW j \in Jti
  PROVE  /\ j \in refreshKeys => TokenStage[j] = "live"
         /\ Held(j) => TokenStage[j] = "claimed"
         /\ Exchanged(j) => TokenStage[j] = "spent"
         /\ j \notin refreshKeys /\ ~Held(j) /\ ~Exchanged(j) =>
              TokenStage[j] = IF Unstored(j) THEN "unissued" ELSE "void"
  BY DEF Inv, Ownership, SingleRotation, OneOwner, TokenStage

LEMMA NewStageOf ==
  ASSUME Inv', NEW j \in Jti
  PROVE  /\ j \in refreshKeys' => TokenStage'[j] = "live"
         /\ Held(j)' => TokenStage'[j] = "claimed"
         /\ Exchanged(j)' => TokenStage'[j] = "spent"
         /\ j \notin refreshKeys' /\ ~Held(j)' /\ ~Exchanged(j)' =>
              TokenStage'[j] = IF Unstored(j)' THEN "unissued" ELSE "void"
  BY DEF Inv, Ownership, SingleRotation, OneOwner, TokenStage

LEMMA StageKept ==
  ASSUME Inv, Inv', NEW j \in Jti,
         j \in refreshKeys' <=> j \in refreshKeys, Held(j)' <=> Held(j),
         Exchanged(j)' <=> Exchanged(j), Unstored(j)' => Unstored(j)
  PROVE  Rotation!Kept(j)
  BY StageOf, NewStageOf DEF Rotation!Kept

\* The moves a token makes; the first three as the request that holds it ends.
Moves == {<<"claimed", "spent">>, <<"claimed", "live">>, <<"claimed", "void">>,
          <<"live", "claimed">>, <<"live", "void">>, <<"unissued", "live">>, <<"unissued", "void">>}

LEMMA OneMoves ==
  ASSUME NEW x,
         \A k \in Jti \ {x} : Rotation!Kept(k),
         x \in Jti => \/ TokenStage'[x] = TokenStage[x]
                      \/ <<TokenStage[x], TokenStage'[x]>> \in Moves
  PROVE  [Rotation!TokenNext]_TokenStage
  <1>1. TokenStage' \in [Jti -> Rotation!Stage]
    BY DEF TokenStage, Rotation!Stage
  <1>2. CASE \E k \in Jti : <<TokenStage[k], TokenStage'[k]>> \in Moves /\ \A i \in Jti \ {k} : Rotation!Kept(i)
    <2>1. PICK k \in Jti : <<TokenStage[k], TokenStage'[k]>> \in Moves /\ \A i \in Jti \ {k} : Rotation!Kept(i)
      BY <1>2
    <2>2. \A from, to : TokenStage[k] = from /\ TokenStage'[k] = to => Rotation!Move(k, from, to)
      BY <1>1, <2>1 DEF Rotation!Move
    <2>3. \/ Rotation!Move(k, "claimed", "spent") \/ Rotation!Move(k, "claimed", "live")
          \/ Rotation!Move(k, "claimed", "void") \/ Rotation!Move(k, "live", "claimed")
          \/ Rotation!Move(k, "live", "void") \/ Rotation!Move(k, "unissued", "live")
          \/ Rotation!Move(k, "unissued", "void")
      BY <2>1, <2>2 DEF Moves
    <2>4. QED
      BY <2>3 DEF Rotation!TokenNext, Rotation!Issue, Rotation!Abandon, Rotation!Claim, Rotation!Exchange,
                  Rotation!GiveBack, Rotation!Lose, Rotation!Drop
  <1>3. CASE ~\E k \in Jti : <<TokenStage[k], TokenStage'[k]>> \in Moves /\ \A i \in Jti \ {k} : Rotation!Kept(i)
    <2>1. x \in Jti => TokenStage'[x] = TokenStage[x]
      BY <1>3
    <2>2. \A k \in Jti : Rotation!Kept(k)
      BY <2>1 DEF Rotation!Kept
    <2>3. \A k \in Jti : TokenStage'[k] = TokenStage[k]
      BY <1>3, <2>2 DEF Rotation!Kept, Moves
    <2>4. TokenStage' = TokenStage
      BY <2>3 DEF TokenStage
    <2>5. QED
      BY <2>4
  <1>4. QED
    BY <1>2, <1>3

\* A request acts on one token x; what it may do to another is sign it or let it go.
LEMMA RequestMoves ==
  ASSUME Inv, Inv', NEW r \in Request, NEW s, Become(r, s), NEW x,
         issued \subseteq issued',
         \A k \in Jti : s.new = k /\ s.pc \in StoringPc => Unstored(k),
         \A k \in Jti \ {x} : /\ s.rt = k /\ s.pc \in HoldingPc <=> Holds(r, k)
                              /\ k \in refreshKeys' <=> k \in refreshKeys
                              /\ Exchanged(k)' <=> Exchanged(k),
         x \in Jti => \/ TokenStage'[x] = TokenStage[x]
                      \/ <<TokenStage[x], TokenStage'[x]>> \in Moves
  PROVE  [Rotation!TokenNext]_TokenStage
  <1>1. req'[r] = s /\ \A q \in Request : q # r => req'[q] = req[q]
    BY Becomes DEF Inv
  <1>2. ASSUME NEW k \in Jti \ {x} PROVE Rotation!Kept(k)
    <2>1. Held(k)' <=> Held(k)
      BY <1>1 DEF Held, Holds
    <2>2. Unstored(k)' => Unstored(k)
      BY <1>1 DEF Unstored, StoringPc
    <2>3. QED
      BY <2>1, <2>2, StageKept
  <1>3. QED
    BY <1>2, OneMoves

\* The pair between signing and its refresh key is nobody's yet.
LEMMA StoringIsUnissued ==
  ASSUME Inv, NEW r \in Request, req[r].pc \in StoringPc
  PROVE  TokenStage[req[r].new] = "unissued"
  <1> DEFINE n == req[r].new
  <1>1. TypeInv /\ Ownership
    BY DEF Inv
  <1>2. n \in Jti
    BY <1>1 DEF TypeInv, WellFormed, TokensKnown, StoringPc
  <1>3. n \notin returned /\ n \notin refreshKeys
    BY <1>1 DEF Ownership, NewPairOK, Signing, UnreturnedPc, StoringPc
  <1>4. ~Held(n)
    BY <1>1, <1>2, <1>3 DEF Ownership, Presented, Held, Holds
  <1>5. ~Exchanged(n)
    BY <1>1, <1>2, <1>3 DEF Ownership, PairsOK, Exchanged, Succeeds
  <1>6. Unstored(n)
    BY <1>2 DEF Unstored, StoringPc
  <1>7. QED
    BY <1>2, <1>3, <1>4, <1>5, <1>6, StageOf

\* A token some client has received was stored before.
LEMMA ReturnedIsStored ==
  ASSUME Inv, NEW j \in returned
  PROVE  ~Unstored(j)
  BY DEF Inv, Ownership, PairsOK, NewPairOK, Signing, UnreturnedPc, Unstored

\* A step that takes no token, gives none up and stores none moves none.
LEMMA NothingMoves ==
  ASSUME Inv, Inv', NEW r \in Request, NEW s, Become(r, s),
         refreshKeys' = refreshKeys, issued \subseteq issued', returned' = returned,
         \A k \in returned : pair'[k] = pair[k],
         \/ s.pc \in HoldingPc /\ req[r].pc \in HoldingPc /\ s.rt = req[r].rt
         \/ s.pc \in HoldingPc /\ req[r].pc \notin HoldingPc /\ s.rt = None
         \/ s.pc \notin HoldingPc /\ req[r].pc \notin HoldingPc,
         s.pc \in StoringPc => \/ s.new \notin issued
                               \/ s.new = req[r].new /\ req[r].pc \in StoringPc
  PROVE  [Rotation!TokenNext]_TokenStage
  <1>1. \A k \in Jti : s.new = k /\ s.pc \in StoringPc => Unstored(k)
    BY DEF Unstored, StoringPc
  <1>2. \A k \in Jti : s.rt = k /\ s.pc \in HoldingPc <=> Holds(r, k)
    BY DEF Holds
  <1>3. \A k \in Jti : Exchanged(k)' <=> Exchanged(k)
    BY DEF Exchanged, Succeeds
  <1>4. QED
    BY <1>1, <1>2, <1>3, RequestMoves

\* A request that held a token answers: the key may or may not be back in Redis.
LEMMA HolderAnswers ==
  ASSUME Inv, Inv', NEW r \in Request, NEW s, Become(r, s),
         req[r].pc \in HoldingPc, s.pc \notin HoldingPc, UNCHANGED pairs,
         refreshKeys' \in {refreshKeys, refreshKeys \cup {req[r].rt}}
  PROVE  [Rotation!TokenNext]_TokenStage
  <1>x. PICK x : x = req[r].rt
    OBVIOUS
  <1>0. TypeInv /\ Ownership /\ returned' = returned /\ pair' = pair /\ issued' = issued
    BY DEF Inv, pairs
  <1>1. req'[r] = s /\ \A q \in Request : q # r => req'[q] = req[q]
    BY <1>0, Becomes
  <1>2. \A k \in Jti : s.new = k /\ s.pc \in StoringPc => Unstored(k)
    BY DEF StoringPc, HoldingPc
  <1>3. \A k \in Jti : Exchanged(k)' <=> Exchanged(k)
    BY <1>0 DEF Exchanged, Succeeds
  <1>4. \A k \in Jti \ {x} : (s.rt = k /\ s.pc \in HoldingPc <=> Holds(r, k))
                             /\ (k \in refreshKeys' <=> k \in refreshKeys)
    BY <1>x DEF Holds
  <1>5. ASSUME x \in Jti
        PROVE  <<TokenStage[x], TokenStage'[x]>> \in Moves
    <2>1. Holds(r, x) /\ Held(x) /\ ~Exchanged(x) /\ OneHolder(x)
      BY <1>x, <1>0, <1>5 DEF Holds, Held, Ownership, SingleRotation, OneOwner
    <2>2. TokenStage[x] = "claimed"
      BY <1>5, <2>1, StageOf
    <2>3. ~Held(x)'
      <3>1. \A q \in Request : q # r => ~Holds(q, x)
        BY <2>1 DEF OneHolder
      <3>2. QED
        BY <1>1, <3>1 DEF Held, Holds
    <2>4. x \in returned'
      BY <1>x, <1>0, <1>5 DEF Ownership, Presented
    <2>5. ~Unstored(x)'
      BY <2>4 DEF Inv, Ownership, PairsOK, NewPairOK, Signing, UnreturnedPc, Unstored
    <2>6. ~Exchanged(x)'
      BY <1>3, <1>5, <2>1
    <2>7. TokenStage'[x] \in {"live", "void"}
      BY <1>5, <2>3, <2>5, <2>6, NewStageOf
    <2>8. QED
      BY <2>2, <2>7 DEF Moves
  <1>6. QED
    BY <1>0, <1>2, <1>3, <1>4, <1>5, RequestMoves

\* The refresh key of a new pair reaches Redis; the presented token stays where it is.
LEMMA NewPairStored ==
  ASSUME Inv, Inv', NEW r \in Request, NEW s, Become(r, s), req[r].pc = "store",
         refreshKeys' = refreshKeys \cup {req[r].new}, issued' = issued,
         \A k \in Jti : Exchanged(k)' <=> Exchanged(k),
         s.pc \notin StoringPc,
         \/ s.pc \in HoldingPc /\ s.rt = req[r].rt
         \/ s.pc \notin HoldingPc /\ req[r].rt = None
  PROVE  [Rotation!TokenNext]_TokenStage
  <1>x. PICK x : x = req[r].new
    OBVIOUS
  <1>1. \A k \in Jti : s.rt = k /\ s.pc \in HoldingPc <=> Holds(r, k)
    BY DEF Holds, HoldingPc
  <1>2. \A k \in Jti \ {x} : k \in refreshKeys' <=> k \in refreshKeys
    BY <1>x
  <1>3. TokenStage[x] = "unissued"
    BY <1>x, StoringIsUnissued DEF StoringPc
  <1>4. x \in Jti => TokenStage'[x] = "live"
    BY <1>x, NewStageOf
  <1>5. x \in Jti => <<TokenStage[x], TokenStage'[x]>> \in Moves
    BY <1>3, <1>4 DEF Moves
  <1>6. QED
    BY <1>1, <1>2, <1>5, RequestMoves

\* GETDEL found the key: the token is in the hands of the request, and of no other.
LEMMA TokenClaimed ==
  ASSUME Inv, Inv', NEW r \in Request, NEW s, Become(r, s),
         req[r].pc = "claim", s.pc = "sign", s.rt = req[r].rt, req[r].rt \in refreshKeys,
         refreshKeys' = refreshKeys \ {req[r].rt}, UNCHANGED pairs
  PROVE  [Rotation!TokenNext]_TokenStage
  <1>x. PICK x : x = req[r].rt
    OBVIOUS
  <1>0. TypeInv /\ issued' = issued /\ returned' = returned /\ pair' = pair
    BY DEF Inv, pairs
  <1>1. req'[r] = s /\ x \in Jti
    BY <1>x, <1>0, Becomes DEF TypeInv, TypeOK
  <1>2. \A k \in Jti \ {x} : /\ s.rt = k /\ s.pc \in HoldingPc <=> Holds(r, k)
                             /\ k \in refreshKeys' <=> k \in refreshKeys
    BY <1>x DEF Holds, HoldingPc
  <1>3. \A k \in Jti : Exchanged(k)' <=> Exchanged(k)
    BY <1>0 DEF Exchanged, Succeeds
  <1>4. Held(x)'
    BY <1>x, <1>1 DEF Held, Holds, HoldingPc
  <1>5. TokenStage[x] = "live" /\ TokenStage'[x] = "claimed"
    BY <1>x, <1>1, <1>4, StageOf, NewStageOf
  <1>6. <<TokenStage[x], TokenStage'[x]>> \in Moves
    BY <1>5 DEF Moves
  <1>7. QED
    BY <1>0, <1>2, <1>3, <1>6, RequestMoves DEF StoringPc

\* GETDEL was executed and its answer lost: the token is void.
LEMMA ClaimLost ==
  ASSUME Inv, Inv', NEW r \in Request, NEW s, Become(r, s),
         req[r].pc = "claim", s.pc \notin HoldingPc,
         refreshKeys' = refreshKeys \ {req[r].rt}, UNCHANGED pairs
  PROVE  [Rotation!TokenNext]_TokenStage
  <1>x. PICK x : x = req[r].rt
    OBVIOUS
  <1>0. TypeInv /\ Ownership /\ issued' = issued /\ returned' = returned /\ pair' = pair
    BY DEF Inv, pairs
  <1>1. req'[r] = s /\ \A q \in Request : q # r => req'[q] = req[q]
    BY <1>0, Becomes
  <1>2. \A k \in Jti : s.rt = k /\ s.pc \in HoldingPc <=> Holds(r, k)
    BY DEF Holds, HoldingPc
  <1>3. \A k \in Jti : Exchanged(k)' <=> Exchanged(k)
    BY <1>0 DEF Exchanged, Succeeds
  <1>4. \A k \in Jti \ {x} : k \in refreshKeys' <=> k \in refreshKeys
    BY <1>x
  <1>5. ASSUME x \in Jti, x \in refreshKeys
        PROVE  <<TokenStage[x], TokenStage'[x]>> \in Moves
    <2>1. ~Held(x) /\ ~Exchanged(x)
      BY <1>0, <1>5 DEF Ownership, SingleRotation, OneOwner
    <2>2. ~Held(x)'
      BY <1>1, <2>1 DEF Held, Holds
    <2>3. x \in returned'
      BY <1>x, <1>0, <1>5 DEF Ownership, Presented
    <2>4. ~Unstored(x)'
      BY <2>3 DEF Inv, Ownership, PairsOK, NewPairOK, Signing, UnreturnedPc, Unstored
    <2>5. TokenStage[x] = "live" /\ TokenStage'[x] = "void"
      BY <1>x, <1>3, <1>5, <2>1, <2>2, <2>4, StageOf, NewStageOf
    <2>6. QED
      BY <2>5 DEF Moves
  <1>6. CASE x \in Jti /\ x \in refreshKeys
    BY <1>0, <1>2, <1>3, <1>4, <1>5, <1>6, RequestMoves DEF StoringPc, HoldingPc
  <1>7. CASE ~(x \in Jti /\ x \in refreshKeys)
    <2>1. refreshKeys' = refreshKeys
      BY <1>x, <1>7, <1>0 DEF TypeInv, TypeOK
    <2>2. req[r].pc \notin HoldingPc /\ s.pc \notin StoringPc
      BY DEF HoldingPc, StoringPc
    <2>3. QED
      BY <1>0, <2>1, <2>2, NothingMoves
  <1>8. QED
    BY <1>6, <1>7

\* A refresh answers with the new pair: the presented token is spent.
LEMMA PairExchanged ==
  ASSUME Inv, Inv', NEW r \in Request, NEW s, Become(r, s),
         req[r].pc = "recheck", s.pc \notin HoldingPc, refreshKeys' = refreshKeys,
         returned' = returned \cup {req[r].new}, issued' = issued, pair' = pair
  PROVE  [Rotation!TokenNext]_TokenStage
  <1>x. PICK x : x = req[r].rt
    OBVIOUS
  <1>0. TypeInv /\ Ownership
    BY DEF Inv
  <1>1. x \in Jti /\ req[r].new \in Jti /\ pair[req[r].new].parent = x
    BY <1>x, <1>0 DEF TypeInv, WellFormed, TokensKnown, Ownership, NewPairOK, Signing, UnreturnedPc
  <1>2. \A k \in Jti \ {x} : /\ s.rt = k /\ s.pc \in HoldingPc <=> Holds(r, k)
                             /\ Exchanged(k)' <=> Exchanged(k)
    BY <1>x, <1>1 DEF Holds, Exchanged, Succeeds
  <1>3. Held(x) /\ Exchanged(x)'
    <2>1. Held(x)
      BY <1>x DEF Held, Holds, HoldingPc
    <2>2. Exchanged(x)'
      BY <1>1 DEF Exchanged, Succeeds
    <2>3. QED
      BY <2>1, <2>2
  <1>4. TokenStage[x] = "claimed" /\ TokenStage'[x] = "spent"
    BY <1>1, <1>3, StageOf, NewStageOf
  <1>5. <<TokenStage[x], TokenStage'[x]>> \in Moves
    BY <1>4 DEF Moves
  <1>6. QED
    BY <1>1, <1>2, <1>5, RequestMoves DEF StoringPc, HoldingPc

\* All refresh keys are deleted: what was usable is void, the rest is untouched.
LEMMA KeysDropped ==
  ASSUME Inv, Inv', NEW r \in Request, NEW s, Become(r, s),
         req[r].pc \notin HoldingPc, s.pc \notin HoldingPc,
         refreshKeys' = {}, UNCHANGED pairs
  PROVE  [Rotation!TokenNext]_TokenStage
  <1>0. TypeInv /\ Ownership /\ issued' = issued /\ returned' = returned /\ pair' = pair
    BY DEF Inv, pairs
  <1>1. req'[r] = s /\ \A q \in Request : q # r => req'[q] = req[q]
    BY <1>0, Becomes
  <1>2. ASSUME NEW j \in Jti
        PROVE  TokenStage'[j] = IF TokenStage[j] = "live" THEN "void" ELSE TokenStage[j]
    <2>1. Held(j)' <=> Held(j)
      BY <1>1 DEF Held, Holds
    <2>2. Exchanged(j)' <=> Exchanged(j)
      BY <1>0 DEF Exchanged, Succeeds
    <2>3. Unstored(j)' <=> Unstored(j)
      BY <1>0, <1>1 DEF Unstored, HoldingPc, SigningPc
    <2>4. CASE j \in refreshKeys
      <3>1. j \in issued /\ ~Held(j) /\ ~Exchanged(j)
        BY <1>0, <2>4 DEF Ownership, PairsOK, SingleRotation, OneOwner
      <3>2. ~Unstored(j)
        BY <1>0, <2>4, <3>1 DEF Unstored, Ownership, NewPairOK, Signing, UnreturnedPc
      <3>3. TokenStage[j] = "live" /\ TokenStage'[j] = "void"
        BY <2>1, <2>2, <2>3, <2>4, <3>1, <3>2, StageOf, NewStageOf
      <3>4. QED
        BY <3>3
    <2>5. CASE j \notin refreshKeys
      <3>1. TokenStage'[j] = TokenStage[j]
        BY <2>1, <2>2, <2>3, <2>5, StageOf, NewStageOf
      <3>2. TokenStage[j] # "live"
        BY <2>5 DEF TokenStage
      <3>3. QED
        BY <3>1, <3>2
    <2>6. QED
      BY <2>4, <2>5
  <1>3. TokenStage' = [j \in Jti |-> IF TokenStage[j] = "live" THEN "void" ELSE TokenStage[j]]
    <2>1. TokenStage' = [j \in Jti |-> TokenStage'[j]]
      BY DEF TokenStage
    <2>2. QED
      BY <1>2, <2>1
  <1>4. QED
    BY <1>3 DEF Rotation!TokenNext, Rotation!Revoke

LEMMA FinishIs ==
  ASSUME NEW r, NEW o, Finish(r, o)
  PROVE  \E s : Become(r, s) /\ s.pc = o
  <1> DEFINE t == IF o = "unavailable" THEN req[r].rt ELSE None
             s == [Idle EXCEPT !.pc = o, !.rt = t]
  <1>1. s.pc = o
    BY DEF Idle
  <1>2. Become(r, s)
    BY DEF Finish
  <1> HIDE DEF s
  <1>3. QED
    BY <1>1, <1>2

LEMMA GotoIs ==
  ASSUME Inv, NEW r \in Request, NEW p, Goto(r, p)
  PROVE  \E s : Become(r, s) /\ s.pc = p /\ s.rt = req[r].rt /\ s.new = req[r].new
  <1> DEFINE s == [req[r] EXCEPT !.pc = p]
  <1>1. s.pc = p /\ s.rt = req[r].rt /\ s.new = req[r].new
    BY DEF Inv, TypeInv, TypeOK, ReqState
  <1>2. Become(r, s)
    BY DEF Goto
  <1> HIDE DEF s
  <1>3. QED
    BY <1>1, <1>2

LEMMA PairsSame ==
  ASSUME UNCHANGED pairs
  PROVE  /\ issued' = issued /\ returned' = returned /\ pair' = pair
         /\ \A k \in Jti : Exchanged(k)' <=> Exchanged(k)
  BY DEF pairs, Exchanged, Succeeds

LEMMA LoginMoves ==
  ASSUME Inv, Inv', NEW r \in Request, LoginStep(r)
  PROVE  [Rotation!TokenNext]_TokenStage
  <1> USE DEF At, redis
  <1>0. TypeInv /\ Ownership /\ req[r] \in ReqState /\ WellFormed(req[r])
    BY DEF Inv, TypeInv, TypeOK
  <1>1. CASE Login(r)
    <2> DEFINE c == CredOf(row.mustChange, row.pw)
               s == [Idle EXCEPT !.pc = "sign", !.op = "login", !.cred = c]
    <2>1. s.pc = "sign" /\ s.rt = None
      <3> HIDE DEF c
      <3> QED BY DEF Idle
    <2>2. Become(r, s) /\ refreshKeys' = refreshKeys /\ UNCHANGED pairs /\ req[r].pc = "idle"
      BY <1>1 DEF Login
    <2> HIDE DEF s
    <2>3. QED
      BY <2>1, <2>2, PairsSame, NothingMoves DEF StoringPc, HoldingPc
  <1>2. CASE Sign(r)
    <2>1. PICK j \in Jti \ issued :
            /\ issued' = issued \cup {j}
            /\ pair' = [pair EXCEPT ![j] =
                 [iat |-> now \div TicksPerSecond, mustChange |-> req[r].cred.mustChange,
                  pw |-> req[r].cred.pw, parent |-> req[r].rt]]
            /\ Become(r, [req[r] EXCEPT !.pc = "register", !.new = j])
      BY <1>2 DEF Sign
    <2> DEFINE s == [req[r] EXCEPT !.pc = "register", !.new = j]
    <2>2. s.pc = "register" /\ s.rt = req[r].rt /\ s.new = j
      BY <1>0 DEF ReqState
    <2>3. /\ Become(r, s) /\ refreshKeys' = refreshKeys /\ returned' = returned
          /\ req[r].pc = "sign"
      BY <1>2, <2>1 DEF Sign
    <2>4. \A k \in returned : pair'[k] = pair[k]
      BY <1>0, <2>1 DEF Ownership, PairsOK, TypeInv, TypeOK
    <2> HIDE DEF s
    <2>5. QED
      BY <2>1, <2>2, <2>3, <2>4, NothingMoves DEF HoldingPc
  <1>3. CASE RegisterActive(r)
    <2>1. refreshKeys' = refreshKeys /\ UNCHANGED pairs /\ req[r].pc = "register"
      BY <1>3 DEF RegisterActive
    <2>2. PICK s : Become(r, s) /\ s.pc = "store" /\ s.rt = req[r].rt /\ s.new = req[r].new
      BY <1>3, GotoIs DEF RegisterActive
    <2>3. QED
      BY <2>1, <2>2, PairsSame, NothingMoves DEF StoringPc, HoldingPc
  <1>4. CASE StoreRefreshKey(r)
    <2>1. /\ refreshKeys' = refreshKeys \cup {req[r].new} /\ issued' = issued /\ pair' = pair
          /\ req[r].pc = "store"
      BY <1>4 DEF StoreRefreshKey
    <2>2. CASE req[r].op = "login"
      <3>1. req[r].rt = None
        BY <1>0, <2>1, <2>2 DEF WellFormed, TokensKnown
      <3>2. pair[req[r].new].parent = None /\ returned' = returned \cup {req[r].new}
        BY <1>0, <1>4, <2>1, <2>2, <3>1 DEF StoreRefreshKey, Ownership, NewPairOK, Signing, UnreturnedPc
      <3>3. \A k \in Jti : Exchanged(k)' <=> Exchanged(k)
        BY <2>1, <3>2 DEF Exchanged, Succeeds
      <3>4. PICK s : Become(r, s) /\ s.pc = "ok"
        BY <1>4, <2>2, FinishIs DEF StoreRefreshKey
      <3>5. QED
        BY <2>1, <3>1, <3>3, <3>4, NewPairStored DEF StoringPc, HoldingPc
    <2>3. CASE req[r].op # "login"
      <3>1. UNCHANGED pairs
        BY <1>4, <2>3 DEF StoreRefreshKey, pairs
      <3>2. PICK s : Become(r, s) /\ s.pc = "recheck" /\ s.rt = req[r].rt
        BY <1>4, <2>3, GotoIs DEF StoreRefreshKey
      <3>3. QED
        BY <2>1, <3>1, <3>2, PairsSame, NewPairStored DEF StoringPc, HoldingPc
    <2>4. QED
      BY <2>2, <2>3
  <1>5. CASE RegisterFails(r)
    <2>1. refreshKeys' = refreshKeys /\ UNCHANGED pairs /\ req[r].pc = "register"
      BY <1>5 DEF RegisterFails
    <2>2. CASE Goto(r, "putBack")
      <3>1. PICK s : Become(r, s) /\ s.pc = "putBack" /\ s.rt = req[r].rt
        BY <2>2, GotoIs
      <3>2. QED
        BY <2>1, <3>1, PairsSame, NothingMoves DEF StoringPc, HoldingPc
    <2>3. CASE Finish(r, "unavailable")
      <3>1. PICK s : Become(r, s) /\ s.pc = "unavailable"
        BY <2>3, FinishIs
      <3>2. QED
        BY <2>1, <3>1, HolderAnswers DEF HoldingPc
    <2>4. QED
      BY <1>5, <2>2, <2>3 DEF RegisterFails, AfterSigningFailed
  <1>6. CASE StoreFails(r)
    <2>1. /\ req[r].pc = "store" /\ UNCHANGED pairs
          /\ refreshKeys' \in {refreshKeys, refreshKeys \cup {req[r].new}}
      BY <1>6 DEF StoreFails, MayBe
    <2>2. CASE Goto(r, "putBack")
      <3>1. PICK s : Become(r, s) /\ s.pc = "putBack" /\ s.rt = req[r].rt
        BY <2>2, GotoIs
      <3>2. QED
        BY <2>1, <3>1, PairsSame, NothingMoves, NewPairStored DEF StoringPc, HoldingPc
    <2>3. CASE req[r].op # "refresh" /\ Finish(r, "unavailable")
      <3>1. PICK s : Become(r, s) /\ s.pc = "unavailable"
        BY <2>3, FinishIs
      <3>2. req[r].rt = None
        BY <1>0, <2>1, <2>3 DEF WellFormed, TokensKnown
      <3>3. QED
        BY <2>1, <3>1, <3>2, PairsSame, HolderAnswers, NewPairStored DEF StoringPc, HoldingPc
    <2>4. QED
      BY <1>6, <2>2, <2>3 DEF StoreFails, AfterSigningFailed
  <1> QED
    BY <1>1, <1>2, <1>3, <1>4, <1>5, <1>6 DEF LoginStep

LEMMA RefreshMoves ==
  ASSUME Inv, Inv', NEW r \in Request, RefreshStep(r)
  PROVE  [Rotation!TokenNext]_TokenStage
  <1> USE DEF At, redis
  <1>0. TypeInv /\ req[r] \in ReqState /\ WellFormed(req[r])
    BY DEF Inv, TypeInv, TypeOK
  <1>a. ASSUME NEW s, Become(r, s), refreshKeys' = refreshKeys, UNCHANGED pairs,
               req[r].pc \notin HoldingPc, s.pc \notin HoldingPc
        PROVE  [Rotation!TokenNext]_TokenStage
    BY <1>a, PairsSame, NothingMoves DEF StoringPc, HoldingPc
  <1>b. ASSUME NEW o \in OutcomePc, Finish(r, o), refreshKeys' = refreshKeys, UNCHANGED pairs
        PROVE  [Rotation!TokenNext]_TokenStage
    <2>1. PICK s : Become(r, s) /\ s.pc = o
      BY <1>b, FinishIs
    <2>2. s.pc \notin HoldingPc
      BY <1>b, <2>1 DEF HoldingPc
    <2>3. CASE req[r].pc \in HoldingPc
      BY <1>b, <2>1, <2>2, <2>3, HolderAnswers
    <2>4. CASE req[r].pc \notin HoldingPc
      BY <1>b, <2>1, <2>2, <2>4, <1>a
    <2>5. QED
      BY <2>3, <2>4
  <1>c. ASSUME NEW p \in {"peek", "user"}, Goto(r, p), refreshKeys' = refreshKeys, UNCHANGED pairs,
               req[r].pc \notin HoldingPc
        PROVE  [Rotation!TokenNext]_TokenStage
    <2>1. PICK s : Become(r, s) /\ s.pc = p
      BY <1>c, GotoIs
    <2>2. QED
      BY <1>a, <1>c, <2>1 DEF HoldingPc
  <1>1. ASSUME NEW j \in Jti, PresentRefreshToken(r, j) PROVE [Rotation!TokenNext]_TokenStage
    <2> DEFINE s == [Idle EXCEPT !.pc = "early", !.op = "refresh", !.rt = j]
    <2>1. s.pc = "early"
      BY DEF Idle
    <2>2. Become(r, s) /\ refreshKeys' = refreshKeys /\ UNCHANGED pairs /\ req[r].pc = "idle"
      BY <1>1 DEF PresentRefreshToken
    <2> HIDE DEF s
    <2>3. QED
      BY <1>a, <2>1, <2>2 DEF HoldingPc
  <1>2. CASE CheckLogoutAt(r)
    BY <1>2, <1>b, <1>c DEF CheckLogoutAt, HoldingPc
  <1>3. CASE PeekRefreshKey(r)
    BY <1>3, <1>b, <1>c DEF PeekRefreshKey, HoldingPc
  <1>4. CASE ReadUser(r)
    <2> DEFINE c == CredOf(row.mustChange, pair[req[r].rt].pw)
               s == [req[r] EXCEPT !.pc = "claim", !.cred = c]
    <2>1. s.pc = "claim"
      <3> HIDE DEF c
      <3> QED BY <1>0 DEF ReqState
    <2>2. refreshKeys' = refreshKeys /\ UNCHANGED pairs /\ req[r].pc = "user"
      BY <1>4 DEF ReadUser
    <2>3. Become(r, s) \/ Finish(r, "rejected")
      BY <1>4 DEF ReadUser
    <2> HIDE DEF s
    <2>4. QED
      BY <1>a, <1>b, <2>1, <2>2, <2>3 DEF HoldingPc
  <1>5. CASE ClaimRefreshKey(r)
    <2>1. UNCHANGED pairs /\ req[r].pc = "claim"
      BY <1>5 DEF ClaimRefreshKey
    <2>2. CASE req[r].rt \in refreshKeys
      <3>1. PICK s : Become(r, s) /\ s.pc = "sign" /\ s.rt = req[r].rt
        BY <1>5, <2>2, GotoIs DEF ClaimRefreshKey
      <3>2. refreshKeys' = refreshKeys \ {req[r].rt}
        BY <1>5, <2>2 DEF ClaimRefreshKey
      <3>3. QED
        BY <2>1, <2>2, <3>1, <3>2, TokenClaimed
    <2>3. CASE req[r].rt \notin refreshKeys
      BY <1>5, <1>b, <2>1, <2>3 DEF ClaimRefreshKey
    <2>4. QED
      BY <2>2, <2>3
  <1>6. CASE RecheckLogoutAt(r)
    <2>1. refreshKeys' = refreshKeys /\ issued' = issued /\ pair' = pair /\ req[r].pc = "recheck"
      BY <1>6 DEF RecheckLogoutAt
    <2>2. CASE Stale(pair[req[r].rt].iat, logoutAt)
      BY <1>6, <1>b, <2>1, <2>2 DEF RecheckLogoutAt, pairs
    <2>3. CASE ~Stale(pair[req[r].rt].iat, logoutAt)
      <3>1. PICK s : Become(r, s) /\ s.pc = "ok"
        BY <1>6, <2>3, FinishIs DEF RecheckLogoutAt
      <3>2. returned' = returned \cup {req[r].new}
        BY <1>6, <2>3 DEF RecheckLogoutAt
      <3>3. QED
        BY <2>1, <3>1, <3>2, PairExchanged DEF HoldingPc
    <2>4. QED
      BY <2>2, <2>3
  <1>7. CASE PutBackRefreshKey(r) \/ PutBackFails(r)
    <2>1. /\ UNCHANGED pairs /\ req[r].pc = "putBack"
          /\ refreshKeys' \in {refreshKeys, refreshKeys \cup {req[r].rt}}
      BY <1>7 DEF PutBackRefreshKey, PutBackFails, MayBe
    <2>2. PICK s : Become(r, s) /\ s.pc = "unavailable"
      BY <1>7, PutBackAnswers DEF PutBackRefreshKey, PutBackFails
    <2>3. QED
      BY <2>1, <2>2, HolderAnswers DEF HoldingPc
  <1>8. CASE ReadFails(r)
    BY <1>8, <1>b DEF ReadFails
  <1>9. CASE ClaimFails(r)
    <2>1. /\ UNCHANGED pairs /\ req[r].pc = "claim"
          /\ refreshKeys' = refreshKeys \/ refreshKeys' = refreshKeys \ {req[r].rt}
      BY <1>9 DEF ClaimFails, MayBe
    <2>2. CASE refreshKeys' = refreshKeys
      BY <1>9, <1>b, <2>1, <2>2 DEF ClaimFails
    <2>3. CASE refreshKeys' = refreshKeys \ {req[r].rt}
      <3>1. PICK s : Become(r, s) /\ s.pc = "unavailable"
        BY <1>9, FinishIs DEF ClaimFails
      <3>2. QED
        BY <2>1, <2>3, <3>1, ClaimLost DEF HoldingPc
    <2>4. QED
      BY <2>1, <2>2, <2>3
  <1> QED
    BY <1>1, <1>2, <1>3, <1>4, <1>5, <1>6, <1>7, <1>8, <1>9 DEF RefreshStep

LEMMA RevokerVoids ==
  ASSUME Inv, Inv', NEW r \in Request, RevokerStep(r)
  PROVE  [Rotation!TokenNext]_TokenStage
  <1> USE DEF At, redis
  <1>0. TypeInv /\ req[r] \in ReqState
    BY DEF Inv, TypeInv, TypeOK
  <1>1. ASSUME NEW s, Become(r, s), s.pc \in RevokingPc \cup OutcomePc,
               req[r].pc \in {"idle"} \cup RevokingPc,
               refreshKeys' = refreshKeys \/ refreshKeys' = {}, UNCHANGED pairs
        PROVE  [Rotation!TokenNext]_TokenStage
    <2>1. s.pc \notin HoldingPc /\ req[r].pc \notin HoldingPc /\ s.pc \notin StoringPc
      BY <1>1 DEF HoldingPc, StoringPc
    <2>2. CASE refreshKeys' = refreshKeys
      BY <1>1, <2>1, <2>2, PairsSame, NothingMoves
    <2>3. CASE refreshKeys' = {}
      BY <1>1, <2>1, <2>3, KeysDropped
    <2>4. QED
      BY <1>1, <2>2, <2>3
  <1>2. CASE StartLogout(r)
    BY <1>1, <1>2 DEF StartLogout, Idle
  <1>3. CASE StartChangePassword(r)
    BY <1>1, <1>3 DEF StartChangePassword, Idle
  <1>4. CASE CommitPassword(r)
    <2>1. refreshKeys' = refreshKeys /\ UNCHANGED pairs /\ req[r].pc = "commit"
      BY <1>4 DEF CommitPassword
    <2>2. \E s : Become(r, s) /\ s.pc \in {"rejected", "clock"}
      <3>1. CASE row.deleted
        BY <1>4, <3>1, FinishIs DEF CommitPassword
      <3>2. CASE ~row.deleted
        <4> DEFINE c == CredOf(FALSE, row.pw + 1)
                   s == [req[r] EXCEPT !.pc = "clock", !.prior = returned, !.cred = c]
        <4>1. s.pc = "clock"
          <5> HIDE DEF c
          <5> QED BY <1>0 DEF ReqState
        <4>2. Become(r, s)
          BY <1>4, <3>2 DEF CommitPassword
        <4> HIDE DEF s
        <4>3. QED
          BY <4>1, <4>2
      <3>3. QED
        BY <3>1, <3>2
    <2>3. QED
      BY <1>1, <2>1, <2>2
  <1>5. ASSUME NEW op \in AllRevokerOps, AdminEdit(r, op) PROVE [Rotation!TokenNext]_TokenStage
    BY <1>1, <1>5 DEF AdminEdit, Idle, AdminRevokes
  <1>6. CASE TakeStamp(r)
    BY <1>0, <1>1, <1>6 DEF TakeStamp, ReqState
  <1>7. CASE WriteStamp(r)
    BY <1>0, <1>1, <1>7 DEF WriteStamp, ReqState
  <1>8. CASE DropRefreshKeys(r)
    BY <1>0, <1>1, <1>8 DEF DropRefreshKeys, ReqState
  <1>9. CASE ScanActive(r)
    BY <1>0, <1>1, <1>9 DEF ScanActive, ReqState
  <1>10. CASE Blacklist(r)
    BY <1>0, <1>1, <1>10 DEF Blacklist, ReqState
  <1>11. CASE PurgeActive(r)
    BY <1>0, <1>1, <1>11 DEF PurgeActive, Goto, ReqState
  <1>12. CASE RevocationFails(r)
    <2>1. /\ req[r].pc \in {"stamp", "drop", "scan", "blacklist", "purge"} /\ UNCHANGED pairs
          /\ refreshKeys' = refreshKeys \/ refreshKeys' = {}
      BY <1>12 DEF RevocationFails
    <2>2. \E s : Become(r, s) /\ s.pc \in RevokingPc \cup OutcomePc
      <3>1. CASE req[r].retried
        <4> DEFINE p == After(req[r].pc)
                   s == [req[r] EXCEPT !.pc = p, !.retried = FALSE, !.clean = FALSE, !.scanned = {}]
        <4>1. p \in RevokingPc \cup OutcomePc
          BY DEF After
        <4>2. s.pc = p
          <5> HIDE DEF p
          <5> QED BY <1>0 DEF ReqState
        <4>3. Become(r, s)
          BY <1>12, <3>1 DEF RevocationFails, StepFails
        <4> HIDE DEF s, p
        <4>4. QED
          BY <4>1, <4>2, <4>3
      <3>2. CASE ~req[r].retried
        <4> DEFINE p == FirstOf(req[r].pc)
                   s == [req[r] EXCEPT !.pc = p, !.retried = TRUE, !.scanned = {}]
        <4>1. p \in RevokingPc \cup OutcomePc
          BY DEF FirstOf
        <4>2. s.pc = p
          <5> HIDE DEF p
          <5> QED BY <1>0 DEF ReqState
        <4>3. Become(r, s)
          BY <1>12, <3>2 DEF RevocationFails, StepFails
        <4> HIDE DEF s, p
        <4>4. QED
          BY <4>1, <4>2, <4>3
      <3>3. QED
        BY <3>1, <3>2
    <2>3. QED
      BY <1>1, <2>1, <2>2
  <1> QED
    BY <1>2, <1>3, <1>4, <1>5, <1>6, <1>7, <1>8, <1>9, <1>10, <1>11, <1>12 DEF RevokerStep

LEMMA RotationStep == Inv /\ Inv' /\ [Next]_vars => [Rotation!TokenNext]_TokenStage
  <1> SUFFICES ASSUME Inv, Inv', [Next]_vars PROVE [Rotation!TokenNext]_TokenStage
    OBVIOUS
  <1>1. ASSUME NEW r \in Request, Abandoned(r) PROVE [Rotation!TokenNext]_TokenStage
    <2>1. PICK s : Become(r, s) /\ s.pc = "abandoned"
      BY <1>1, FinishIs DEF Abandoned
    <2>2. refreshKeys' = refreshKeys /\ UNCHANGED pairs /\ s.pc \notin HoldingPc /\ s.pc \notin StoringPc
      BY <1>1, <2>1 DEF Abandoned, redis, HoldingPc, StoringPc
    <2>3. CASE req[r].pc \in HoldingPc
      BY <2>1, <2>2, <2>3, HolderAnswers
    <2>4. CASE req[r].pc \notin HoldingPc
      BY <2>1, <2>2, <2>4, PairsSame, NothingMoves
    <2>5. QED
      BY <2>3, <2>4
  <1>2. ASSUME UNCHANGED <<redis, pairs, req>> PROVE [Rotation!TokenNext]_TokenStage
    <2>1. /\ refreshKeys' = refreshKeys /\ issued' = issued /\ returned' = returned /\ pair' = pair
          /\ req' = req
      BY <1>2 DEF redis, pairs
    <2>2. ASSUME NEW j \in Jti PROVE TokenStage'[j] = TokenStage[j]
      BY <2>1 DEF TokenStage, Held, Holds, Exchanged, Succeeds, Unstored
    <2>3. TokenStage' = TokenStage
      BY <2>2 DEF TokenStage
    <2>4. QED
      BY <2>3
  <1>3. CASE Tick \/ UNCHANGED vars
    BY <1>2, <1>3 DEF Tick, vars
  <1>4. CASE AllServed
    BY <1>2, <1>4 DEF AllServed, vars
  <1>5. QED
    BY <1>1, <1>3, <1>4, LoginMoves, RefreshMoves, RevokerVoids DEF Next

LEMMA RotationInit == Init => Rotation!TokenInit
  <1> SUFFICES ASSUME Init PROVE Rotation!TokenInit
    OBVIOUS
  <1>1. PICK j \in Jti :
          /\ refreshKeys = {j} /\ issued = {j} /\ returned = {j}
          /\ pair = [k \in Jti |-> IF k = j THEN [Blank EXCEPT !.pw = 1] ELSE Blank]
    BY DEF Init
  <1>2. \A k \in Jti : pair[k].parent = None
    BY <1>1 DEF Blank
  <1>3. \A r \in Request : req[r].pc = "idle"
    BY DEF Init, Idle
  <1>4. ASSUME NEW k \in Jti
        PROVE  TokenStage[k] = IF k \in {j} THEN "live" ELSE "unissued"
    <2>1. ~Held(k) /\ ~Exchanged(k)
      BY <1>2, <1>3 DEF Held, Holds, HoldingPc, Exchanged, Succeeds
    <2>2. k # j => Unstored(k)
      BY <1>1 DEF Unstored
    <2>3. QED
      BY <1>1, <2>1, <2>2 DEF TokenStage
  <1>5. TokenStage = [k \in Jti |-> IF k \in {j} THEN "live" ELSE "unissued"]
    BY <1>4 DEF TokenStage
  <1>6. QED
    BY <1>5 DEF Rotation!TokenInit

(* The requests, with their races, lost replies, retries and deaths, implement
   the rotation RotatingToken promises: a token is claimed by one refresh at a
   time, exchanged, given back or lost, and never usable again once it is spent
   or void (GETDEL, SETNX and deleteByPattern in auth.service.ts).            *)
THEOREM RotationIsImplemented == Spec => ImplementsRotation
  <1>1. Init => Inv
    BY InitTyped, InitOwned DEF Inv
  <1>2. Spec => []Inv
    BY <1>1, InvStep, PTL DEF Spec
  <1>3. QED
    BY <1>2, RotationInit, RotationStep, PTL DEF Spec, ImplementsRotation, Rotation!TokenSpec
=============================================================================
