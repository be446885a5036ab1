----------------------- MODULE AccessControl_proofs -----------------------
(***************************************************************************)
(* Proofs about AccessControl, for any number of requests, permissions and *)
(* codes, any white lists and any life of the cached codes.                *)
(***************************************************************************)
EXTENDS AccessControl, TLAPS

USE AccessAssumption

-----------------------------------------------------------------------------
(* Type correctness.  A rename that is about to commit has a new code: that
   is what keeps the bindings codes.                                       *)
WellFormed(s) == s \in ReqState /\ (s.pc = "p.rename" => s.want \in Code)

ReqTyped == req \in [Request -> ReqState] /\ \A r \in Request : WellFormed(req[r])

DataTyped ==
  /\ role \in BOOLEAN
  /\ user \in [live : BOOLEAN, bound : BOOLEAN]
  /\ perm \in [Perm -> [code : Code \cup {None}, live : BOOLEAN]]
  /\ bindings \subseteq Code
  /\ cache \in CacheState \cup {None}

HistoryTyped == changes \in 0..MaxChanges /\ withdrawn \in [Code -> 0..Ttl]

TypeInv == ReqTyped /\ DataTyped /\ HistoryTyped

LEMMA TypeInvIsType == TypeInv => TypeOK
  BY DEF TypeInv, ReqTyped, DataTyped, HistoryTyped, TypeOK

LEMMA IdleTyped == WellFormed(Idle)
  BY DEF WellFormed, Idle, ReqState, Free

LEMMA BecomeTyped ==
  ASSUME ReqTyped, NEW r \in Request, NEW s, WellFormed(s), Become(r, s)
  PROVE  ReqTyped'
  <1>1. req' \in [Request -> ReqState]
    BY DEF ReqTyped, WellFormed, Become
  <1>2. \A q \in Request : req'[q] = IF q = r THEN s ELSE req[q]
    BY DEF ReqTyped, Become
  <1>3. \A q \in Request : WellFormed(req'[q])
    BY <1>2 DEF ReqTyped
  <1> QED
    BY <1>1, <1>3 DEF ReqTyped, WellFormed

GotoPc == {"g.cache", "g.load", "g.decide", "drop", "r.delete", "p.delete", "a.commit",
           "z.commit", "u.insert"}

LEMMA GotoTyped ==
  ASSUME ReqTyped, NEW r \in Request, NEW pc \in GotoPc, Goto(r, pc)
  PROVE  ReqTyped'
  <1>1. req[r] \in ReqState
    BY DEF ReqTyped
  <1>2. WellFormed([req[r] EXCEPT !.pc = pc])
    BY <1>1 DEF WellFormed, ReqState, GotoPc
  <1> QED
    BY <1>2, BecomeTyped DEF Goto

LEMMA EndTyped ==
  ASSUME ReqTyped, NEW r \in Request, End(r)
  PROVE  ReqTyped'
  BY IdleTyped, BecomeTyped DEF End

LEMMA OvertakeTyped ==
  ASSUME ReqTyped, NEW r \in Request, Overtake(r)
  PROVE  ReqTyped'
  <1> DEFINE f(q) == IF q = r THEN Idle ELSE [req[q] EXCEPT !.late = @ \/ At(q, "g.fill")]
  <1>1. ASSUME NEW q \in Request PROVE WellFormed(f(q))
    <2> DEFINE b == req[q].late \/ At(q, "g.fill")
    <2>1. req[q] \in ReqState /\ WellFormed(req[q])
      BY DEF ReqTyped
    <2>2. b \in BOOLEAN
      OBVIOUS
    <2>3. f(q) = IF q = r THEN Idle ELSE [req[q] EXCEPT !.late = b]
      OBVIOUS
    <2> HIDE DEF b, f
    <2>4. WellFormed([req[q] EXCEPT !.late = b])
      BY <2>1, <2>2 DEF WellFormed, ReqState
    <2> QED
      BY <2>3, <2>4, IdleTyped
  <1> QED
    BY <1>1 DEF ReqTyped, WellFormed, Overtake

LEMMA CommitTyped ==
  ASSUME ReqTyped, DataTyped, NEW r \in Request, NEW inserted \in SUBSET Code,
         Commit(r, inserted)
  PROVE  ReqTyped' /\ bindings' \subseteq Code
  <1> DEFINE f(q) == IF q = r THEN [Idle EXCEPT !.pc = "drop"]
                     ELSE [req[q] EXCEPT !.rows = @ \ req[r].rows]
  <1>1. ASSUME NEW q \in Request PROVE WellFormed(f(q))
    <2>1. req[q] \in ReqState /\ WellFormed(req[q])
      BY DEF ReqTyped
    <2>2. req[q].rows \ req[r].rows \in SUBSET Code
      BY <2>1 DEF ReqState
    <2>3. WellFormed([Idle EXCEPT !.pc = "drop"])
      BY DEF WellFormed, Idle, ReqState
    <2> QED
      BY <2>1, <2>2, <2>3 DEF WellFormed, ReqState
  <1>2. ReqTyped'
    BY <1>1 DEF ReqTyped, WellFormed, Commit
  <1>3. bindings' \subseteq Code
    BY DEF Commit, DataTyped
  <1> QED
    BY <1>2, <1>3

LEMMA InitTyped == Init => TypeInv
  <1> SUFFICES ASSUME Init PROVE TypeInv
    OBVIOUS
  <1>1. ReqTyped
    BY IdleTyped DEF Init, ReqTyped, WellFormed
  <1>2. \A p \in Perm : /\ perm[p] \in [code : Code \cup {None}, live : BOOLEAN]
                        /\ perm[p].live => perm[p].code \in Code
    BY DEF Init
  <1>3. perm \in [Perm -> [code : Code \cup {None}, live : BOOLEAN]]
    BY <1>2 DEF Init
  <1>4. bindings \subseteq Code
    BY <1>2 DEF Init, Live
  <1>5. HistoryTyped
    BY DEF Init, HistoryTyped
  <1> QED
    BY <1>1, <1>3, <1>4, <1>5 DEF Init, TypeInv, DataTyped

\* A step that only moves its own slot on.
LEMMA DataUnchanged ==
  ASSUME DataTyped, UNCHANGED <<role, user, perm, bindings, cache>>
  PROVE  DataTyped'
  BY DEF DataTyped

LEMMA StartTyped ==
  ASSUME ReqTyped, NEW r \in Request, NEW s, WellFormed(s), Start(r, s)
  PROVE  ReqTyped'
  BY BecomeTyped DEF Start

LEMMA GuardTyped ==
  ASSUME TypeInv, NEW r \in Request, GuardStep(r)
  PROVE  ReqTyped' /\ DataTyped'
  <1> USE DEF TypeInv
  <1>0. req[r] \in ReqState /\ WellFormed(req[r])
    BY DEF ReqTyped
  <1>1. CASE GuardReadsUser(r)
    <2>1. PICK c \in Reserved : Start(r, [Idle EXCEPT !.pc = "g.role", !.want = c])
      BY <1>1 DEF GuardReadsUser
    <2>2. WellFormed([Idle EXCEPT !.pc = "g.role", !.want = c])
      BY <2>1 DEF WellFormed, Idle, ReqState
    <2>3. ReqTyped'
      BY <2>1, <2>2, StartTyped
    <2> QED
      BY <1>1, <2>3, DataUnchanged DEF GuardReadsUser
  <1>2. CASE GuardReadsRole(r)
    BY <1>2, GotoTyped, EndTyped, DataUnchanged DEF GuardReadsRole, GotoPc
  <1>3. CASE CacheHit(r)
    <2>1. cache.codes \in SUBSET Code
      BY <1>3 DEF CacheHit, DataTyped, CacheState
    <2>2. WellFormed([req[r] EXCEPT !.pc = "g.decide", !.codes = cache.codes])
      BY <1>0, <2>1 DEF WellFormed, ReqState
    <2>3. ReqTyped'
      BY <1>3, <2>2, BecomeTyped DEF CacheHit
    <2> QED
      BY <1>3, <2>3, DataUnchanged DEF CacheHit
  <1>4. CASE CacheMiss(r)
    BY <1>4, GotoTyped, DataUnchanged DEF CacheMiss, GotoPc
  <1>5. CASE GuardLoads(r)
    <2>1. Granted \in SUBSET Code
      BY DEF DataTyped, Granted
    <2>2. WellFormed([req[r] EXCEPT !.pc = "g.fill", !.codes = Granted])
      BY <1>0, <2>1 DEF WellFormed, ReqState
    <2>3. ReqTyped'
      BY <1>5, <2>2, BecomeTyped DEF GuardLoads
    <2> QED
      BY <1>5, <2>3, DataUnchanged DEF GuardLoads
  <1>6. CASE BackFill(r)
    <2>1. req[r].codes \in SUBSET Code /\ req[r].late \in BOOLEAN
      BY <1>0 DEF ReqState
    <2>2. cache' \in CacheState \cup {None}
      BY <1>6, <2>1 DEF BackFill, DataTyped, CacheState
    <2>3. ReqTyped'
      BY <1>6, GotoTyped DEF BackFill, GotoPc
    <2> QED
      BY <1>6, <2>2, <2>3 DEF BackFill, DataTyped
  <1>7. CASE BackFillFails(r)
    BY <1>7, GotoTyped, DataUnchanged DEF BackFillFails, GotoPc
  <1>8. CASE GuardDecides(r)
    <2>1. WellFormed([Idle EXCEPT !.pc = "passed", !.want = req[r].want])
      BY <1>0 DEF WellFormed, Idle, ReqState, Free
    <2>2. ReqTyped'
      BY <1>8, <2>1, BecomeTyped, EndTyped DEF GuardDecides
    <2> QED
      BY <1>8, <2>2, DataUnchanged DEF GuardDecides
  <1> QED
    BY <1>1, <1>2, <1>3, <1>4, <1>5, <1>6, <1>7, <1>8 DEF GuardStep

LEMMA AsksTyped ==
  ASSUME TypeInv, NEW r \in Request, Asks(r)
  PROVE  ReqTyped' /\ DataTyped'
  <1> USE DEF TypeInv
  <1>1. CASE UpdateReadsRole(r)
    <2>1. PICK codes \in SUBSET Code : Start(r, [Idle EXCEPT !.pc = "u.codes", !.codes = codes])
      BY <1>1 DEF UpdateReadsRole
    <2>2. WellFormed([Idle EXCEPT !.pc = "u.codes", !.codes = codes])
      BY DEF WellFormed, Idle, ReqState
    <2> QED
      BY <1>1, <2>1, <2>2, StartTyped, DataUnchanged DEF UpdateReadsRole
  <1>2. CASE RoleRemoveReads(r)
    <2>1. WellFormed([Idle EXCEPT !.pc = "r.count"])
      BY DEF WellFormed, Idle, ReqState
    <2> QED
      BY <1>2, <2>1, StartTyped, DataUnchanged DEF RoleRemoveReads
  <1>3. CASE RoleRestoreReads(r)
    <2>1. WellFormed([Idle EXCEPT !.pc = "r.restore"])
      BY DEF WellFormed, Idle, ReqState
    <2> QED
      BY <1>3, <2>1, StartTyped, DataUnchanged DEF RoleRestoreReads
  <1>4. CASE PermCreateReads(r)
    <2>1. PICK p \in Perm, c \in Code :
            Start(r, [Idle EXCEPT !.pc = "p.create", !.perm = p, !.code = c])
      BY <1>4 DEF PermCreateReads
    <2>2. WellFormed([Idle EXCEPT !.pc = "p.create", !.perm = p, !.code = c])
      BY DEF WellFormed, Idle, ReqState
    <2> QED
      BY <1>4, <2>1, <2>2, StartTyped, DataUnchanged DEF PermCreateReads
  <1>5. CASE PermRenameReads(r)
    <2>1. PICK p \in Perm, c \in Code :
            Start(r, [Idle EXCEPT !.pc = "p.rename", !.perm = p, !.code = perm[p].code, !.want = c])
      BY <1>5 DEF PermRenameReads
    <2>2. perm[p].code \in Code \cup {None}
      BY DEF DataTyped
    <2>3. WellFormed([Idle EXCEPT !.pc = "p.rename", !.perm = p, !.code = perm[p].code, !.want = c])
      BY <2>2 DEF WellFormed, Idle, ReqState
    <2> QED
      BY <1>5, <2>1, <2>3, StartTyped, DataUnchanged DEF PermRenameReads
  <1>6. CASE PermRemoveReads(r)
    <2>1. PICK p \in Perm :
            Start(r, [Idle EXCEPT !.pc = "p.count", !.perm = p, !.code = perm[p].code])
      BY <1>6 DEF PermRemoveReads
    <2>2. perm[p].code \in Code \cup {None}
      BY DEF DataTyped
    <2>3. WellFormed([Idle EXCEPT !.pc = "p.count", !.perm = p, !.code = perm[p].code])
      BY <2>2 DEF WellFormed, Idle, ReqState
    <2> QED
      BY <1>6, <2>1, <2>3, StartTyped, DataUnchanged DEF PermRemoveReads
  <1>7. CASE PermRestoreReads(r)
    <2>1. PICK p \in Perm : Start(r, [Idle EXCEPT !.pc = "p.restore", !.perm = p])
      BY <1>7 DEF PermRestoreReads
    <2>2. WellFormed([Idle EXCEPT !.pc = "p.restore", !.perm = p])
      BY DEF WellFormed, Idle, ReqState
    <2> QED
      BY <1>7, <2>1, <2>2, StartTyped, DataUnchanged DEF PermRestoreReads
  <1>8. CASE AssignReadsUser(r)
    <2> DEFINE s == [Idle EXCEPT !.pc = IF user.bound THEN "a.commit" ELSE "a.role",
                                 !.bind = ~user.bound]
    <2>1. user.bound \in BOOLEAN
      BY DEF DataTyped
    <2>2. WellFormed(s)
      BY <2>1 DEF WellFormed, Idle, ReqState
    <2> QED
      BY <1>8, <2>2, StartTyped, DataUnchanged DEF AssignReadsUser
  <1>9. CASE RemoveUser(r)
    <2>1. user' \in [live : BOOLEAN, bound : BOOLEAN]
      BY <1>9 DEF RemoveUser, DataTyped
    <2>2. DataTyped'
      BY <1>9, <2>1 DEF RemoveUser, DataTyped
    <2> QED
      BY <1>9, <2>2, IdleTyped, StartTyped DEF RemoveUser
  <1>10. CASE RestoreUserReads(r)
    <2>1. WellFormed([Idle EXCEPT !.pc = IF user.bound THEN "z.role" ELSE "z.commit"])
      BY DEF WellFormed, Idle, ReqState
    <2> QED
      BY <1>10, <2>1, StartTyped, DataUnchanged DEF RestoreUserReads
  <1> QED
    BY <1>1, <1>2, <1>3, <1>4, <1>5, <1>6, <1>7, <1>8, <1>9, <1>10 DEF Asks

LEMMA UpdateTyped ==
  ASSUME TypeInv, NEW r \in Request,
         UpdateReadsCodes(r) \/ UpdateDeletes(r) \/ UpdateCommits(r)
  PROVE  ReqTyped' /\ DataTyped'
  <1> USE DEF TypeInv
  <1>0. req[r] \in ReqState /\ WellFormed(req[r])
    BY DEF ReqTyped
  <1>1. CASE UpdateReadsCodes(r)
    <2> DEFINE valid == req[r].codes \cap Live
    <2>1. valid \in SUBSET Code
      BY <1>0 DEF ReqState
    <2>2. End(r) \/ Become(r, [req[r] EXCEPT !.pc = "u.delete", !.codes = valid])
      BY <1>1 DEF UpdateReadsCodes
    <2> HIDE DEF valid
    <2>3. WellFormed([req[r] EXCEPT !.pc = "u.delete", !.codes = valid])
      BY <1>0, <2>1 DEF WellFormed, ReqState
    <2> QED
      BY <1>1, <2>2, <2>3, BecomeTyped, EndTyped, DataUnchanged DEF UpdateReadsCodes
  <1>2. CASE UpdateDeletes(r)
    <2>1. WellFormed([req[r] EXCEPT !.pc = "u.insert", !.rows = bindings])
      BY <1>0 DEF WellFormed, ReqState, DataTyped
    <2> QED
      BY <1>2, <2>1, BecomeTyped, DataUnchanged DEF UpdateDeletes
  <1>3. CASE UpdateCommits(r)
    <2>1. req[r].codes \in SUBSET Code
      BY <1>0 DEF ReqState
    <2>2. CASE End(r) /\ UNCHANGED bindings
      BY <1>3, <2>2, EndTyped DEF UpdateCommits, DataTyped
    <2>3. CASE Commit(r, req[r].codes)
      BY <1>3, <2>1, <2>3, CommitTyped DEF UpdateCommits, DataTyped
    <2> QED
      BY <1>3, <2>2, <2>3 DEF UpdateCommits
  <1> QED
    BY <1>1, <1>2, <1>3

LEMMA RoleTyped ==
  ASSUME TypeInv, NEW r \in Request,
         \/ RoleRemoveCounts(r) \/ RoleRemoveDeletes(r) \/ RoleRemoveCommits(r)
         \/ RoleRestoreCommits(r)
  PROVE  ReqTyped' /\ DataTyped'
  <1> USE DEF TypeInv
  <1>0. req[r] \in ReqState /\ WellFormed(req[r])
    BY DEF ReqTyped
  <1>1. CASE RoleRemoveCounts(r)
    BY <1>1, GotoTyped, EndTyped, DataUnchanged DEF RoleRemoveCounts, GotoPc
  <1>2. CASE RoleRemoveDeletes(r)
    <2>1. WellFormed([req[r] EXCEPT !.pc = "r.commit", !.rows = bindings])
      BY <1>0 DEF WellFormed, ReqState, DataTyped
    <2> QED
      BY <1>2, <2>1, BecomeTyped, DataUnchanged DEF RoleRemoveDeletes
  <1>3. CASE RoleRemoveCommits(r)
    BY <1>3, CommitTyped DEF RoleRemoveCommits, DataTyped
  <1>4. CASE RoleRestoreCommits(r)
    BY <1>4, GotoTyped DEF RoleRestoreCommits, DataTyped, GotoPc
  <1> QED
    BY <1>1, <1>2, <1>3, <1>4

LEMMA RenameTyped ==
  ASSUME TypeInv, NEW r \in Request, PermRenameCommits(r)
  PROVE  ReqTyped' /\ DataTyped'
  <1> USE DEF TypeInv
  <1> DEFINE p == req[r].perm
             old == req[r].code
             new == req[r].want
             Renamed(rows) == IF old \in rows THEN (rows \ {old}) \cup {new} ELSE rows
             rows(q) == IF At(q, "p.commit") THEN req[q].rows \ {old} ELSE Renamed(req[q].rows)
             f(q) == IF q = r THEN [Idle EXCEPT !.pc = "drop"]
                     ELSE [req[q] EXCEPT !.rows = rows(q)]
  <1>1. req[r] \in ReqState /\ new \in Code
    BY DEF ReqTyped, WellFormed, PermRenameCommits, At
  <1>2. CASE End(r) /\ UNCHANGED <<perm, bindings>>
    BY <1>2, EndTyped, DataUnchanged DEF PermRenameCommits
  <1>3. CASE /\ perm' = [perm EXCEPT ![p].code = new]
             /\ bindings' = Renamed(bindings)
             /\ req' = [q \in Request |-> f(q)]
    <2>1. perm' \in [Perm -> [code : Code \cup {None}, live : BOOLEAN]]
      <3> HIDE DEF p, new
      <3> QED
        BY <1>1, <1>3 DEF DataTyped
    <2>2. bindings' \subseteq Code
      <3> HIDE DEF old, new
      <3> QED
        BY <1>1, <1>3 DEF DataTyped
    <2>3. ASSUME NEW q \in Request PROVE WellFormed(f(q))
      <3>1. req[q] \in ReqState /\ WellFormed(req[q]) /\ req[q].rows \in SUBSET Code
        BY DEF ReqTyped, ReqState
      <3>2. rows(q) \in SUBSET Code
        <4> HIDE DEF old, new
        <4> QED
          BY <1>1, <3>1
      <3>3. WellFormed([Idle EXCEPT !.pc = "drop"])
        BY DEF WellFormed, Idle, ReqState
      <3>4. WellFormed([req[q] EXCEPT !.rows = rows(q)])
        <4> HIDE DEF rows
        <4> QED
          BY <3>1, <3>2 DEF WellFormed, ReqState
      <3> QED
        BY <3>3, <3>4
    <2>4. ReqTyped'
      <3> HIDE DEF f
      <3> QED
        BY <1>3, <2>3 DEF ReqTyped, WellFormed
    <2> QED
      BY <2>1, <2>2, <2>4 DEF PermRenameCommits, DataTyped
  <1> QED
    BY <1>2, <1>3 DEF PermRenameCommits

LEMMA PermTyped ==
  ASSUME TypeInv, NEW r \in Request,
         \/ PermCreateCommits(r) \/ PermRemoveCounts(r) \/ PermRemoveDeletes(r)
         \/ PermRemoveCommits(r) \/ PermRestoreCommits(r)
  PROVE  ReqTyped' /\ DataTyped'
  <1> USE DEF TypeInv
  <1>0. /\ req[r] \in ReqState /\ WellFormed(req[r])
        /\ req[r].code \in Code \cup {None}
    BY DEF ReqTyped, ReqState
  <1>1. CASE PermCreateCommits(r)
    <2> DEFINE row == [code |-> req[r].code, live |-> TRUE]
    <2>a. row \in [code : Code \cup {None}, live : BOOLEAN]
      BY <1>0
    <2>b. perm' = perm \/ perm' = [perm EXCEPT ![req[r].perm] = row]
      BY <1>1 DEF PermCreateCommits
    <2>1. perm' \in [Perm -> [code : Code \cup {None}, live : BOOLEAN]]
      <3> HIDE DEF row
      <3> QED
        BY <2>a, <2>b DEF DataTyped
    <2> QED
      BY <1>1, <2>1, EndTyped DEF PermCreateCommits, DataTyped
  <1>2. CASE PermRemoveCounts(r)
    BY <1>2, GotoTyped, EndTyped, DataUnchanged DEF PermRemoveCounts, GotoPc
  <1>3. CASE PermRemoveDeletes(r)
    <2>1. bindings \cap {req[r].code} \in SUBSET Code
      BY DEF DataTyped
    <2>2. WellFormed([req[r] EXCEPT !.pc = "p.commit", !.rows = bindings \cap {req[r].code}])
      BY <1>0, <2>1 DEF WellFormed, ReqState
    <2> QED
      BY <1>3, <2>2, BecomeTyped, DataUnchanged DEF PermRemoveDeletes
  <1>4. CASE PermRemoveCommits(r)
    <2>1. perm' \in [Perm -> [code : Code \cup {None}, live : BOOLEAN]]
      BY <1>4 DEF PermRemoveCommits, DataTyped
    <2> QED
      BY <1>4, <2>1, CommitTyped DEF PermRemoveCommits, DataTyped
  <1>5. CASE PermRestoreCommits(r)
    <2>a. perm' = perm \/ perm' = [perm EXCEPT ![req[r].perm].live = TRUE]
      BY <1>5 DEF PermRestoreCommits
    <2>b. ASSUME perm' = [perm EXCEPT ![req[r].perm].live = TRUE]
          PROVE  perm' \in [Perm -> [code : Code \cup {None}, live : BOOLEAN]]
      BY <2>b DEF DataTyped
    <2>1. perm' \in [Perm -> [code : Code \cup {None}, live : BOOLEAN]]
      <3> USE DEF DataTyped
      <3> QED
        BY <2>a, <2>b
    <2>2. ReqTyped'
      BY <1>5, GotoTyped, EndTyped DEF PermRestoreCommits, GotoPc
    <2> QED
      BY <1>5, <2>1, <2>2 DEF PermRestoreCommits, DataTyped
  <1> QED
    BY <1>1, <1>2, <1>3, <1>4, <1>5

LEMMA UserTyped ==
  ASSUME TypeInv, NEW r \in Request,
         \/ AssignReadsRole(r) \/ AssignCommits(r)
         \/ RestoreUserReadsRole(r) \/ RestoreUserCommits(r)
  PROVE  ReqTyped' /\ DataTyped'
  <1> USE DEF TypeInv
  <1>0. req[r] \in ReqState /\ req[r].bind \in BOOLEAN
    BY DEF ReqTyped, ReqState
  <1>1. CASE AssignReadsRole(r)
    BY <1>1, GotoTyped, EndTyped, DataUnchanged DEF AssignReadsRole, GotoPc
  <1>2. CASE AssignCommits(r)
    <2>1. user' \in [live : BOOLEAN, bound : BOOLEAN]
      BY <1>0, <1>2 DEF AssignCommits, DataTyped
    <2>2. ReqTyped'
      BY <1>2, GotoTyped, EndTyped DEF AssignCommits, GotoPc
    <2> QED
      BY <1>2, <2>1, <2>2 DEF AssignCommits, DataTyped
  <1>3. CASE RestoreUserReadsRole(r)
    BY <1>3, GotoTyped, EndTyped, DataUnchanged DEF RestoreUserReadsRole, GotoPc
  <1>4. CASE RestoreUserCommits(r)
    <2>1. user' \in [live : BOOLEAN, bound : BOOLEAN]
      BY <1>4 DEF RestoreUserCommits, DataTyped
    <2> QED
      BY <1>4, <2>1, EndTyped DEF RestoreUserCommits, DataTyped
  <1> QED
    BY <1>1, <1>2, <1>3, <1>4

LEMMA DropTyped ==
  ASSUME TypeInv, NEW r \in Request, DropCache(r) \/ DropFails(r) \/ Abandon(r)
  PROVE  ReqTyped' /\ DataTyped'
  <1> USE DEF TypeInv
  <1>1. CASE DropCache(r)
    BY <1>1, OvertakeTyped DEF DropCache, DataTyped
  <1>2. CASE DropFails(r)
    <2>1. cache' \in CacheState \cup {None}
      BY <1>2 DEF DropFails, DataTyped, CacheState
    <2> QED
      BY <1>2, <2>1, OvertakeTyped DEF DropFails, DataTyped
  <1>3. CASE Abandon(r)
    BY <1>3, EndTyped, DataUnchanged DEF Abandon
  <1> QED
    BY <1>1, <1>2, <1>3

LEMMA StepTyped == TypeInv /\ [Next]_vars => TypeInv'
  <1> SUFFICES ASSUME TypeInv, [Next]_vars PROVE TypeInv'
    OBVIOUS
  <1>1. CASE RequestStep
    <2>1. PICK r \in Request :
            \/ (GuardStep(r) \/ GoesOn(r)) /\ UNCHANGED changes
            \/ Asks(r) /\ changes < MaxChanges /\ changes' = changes + 1
      BY <1>1 DEF RequestStep
    <2>2. ReqTyped' /\ DataTyped'
      BY <2>1, GuardTyped, AsksTyped, UpdateTyped, RoleTyped, RenameTyped, PermTyped,
         UserTyped, DropTyped DEF GoesOn
    <2>3. HistoryTyped'
      BY <1>1, <2>1 DEF RequestStep, TypeInv, HistoryTyped
    <2> QED
      BY <2>2, <2>3 DEF TypeInv
  <1>2. CASE Tick
    <2>1. cache' \in CacheState \cup {None}
      BY <1>2 DEF Tick, TypeInv, DataTyped, CacheState
    <2>2. withdrawn' \in [Code -> 0..Ttl]
      BY <1>2 DEF Tick, TypeInv, HistoryTyped
    <2> QED
      BY <1>2, <2>1, <2>2 DEF Tick, TypeInv, DataTyped, HistoryTyped, ReqTyped, WellFormed
  <1>3. CASE UNCHANGED vars
    BY <1>3 DEF vars, TypeInv, DataTyped, HistoryTyped, ReqTyped, WellFormed
  <1> QED
    BY <1>1, <1>2, <1>3 DEF Next

LEMMA TypeInvariant == Spec => []TypeInv
  BY InitTyped, StepTyped, PTL DEF Spec

\* The state of the roles, permissions, bindings, cached codes and requests
\* stays well formed, however renames, removals and commits overlap.
THEOREM TypeCorrect == Spec => []TypeOK
  BY TypeInvariant, TypeInvIsType, PTL

-----------------------------------------------------------------------------
(* The bound on stale grants.  A code that is cached was lost at most as many
   ticks ago as have gone since the fill; a guard that is about to fill has
   just read its codes, and one that is about to decide holds codes that were
   lost less than Ttl ticks ago.  The last two are not lost to a tick because
   none comes while a request is under way.                                *)
CacheFresh ==
  cache # None => \A c \in cache.codes : withdrawn[c] + cache.ttl <= Ttl
FillFresh(r) == At(r, "g.fill") => \A c \in req[r].codes : withdrawn[c] = 0
DecideFresh(r) == At(r, "g.decide") => \A c \in req[r].codes : withdrawn[c] < Ttl

Fresh == CacheFresh /\ \A r \in Request : FillFresh(r) /\ DecideFresh(r)

\* In a step of a request a code becomes granted, or its age stays.
LEMMA AgesHold ==
  ASSUME TypeInv, RequestStep, NEW c \in Code
  PROVE  /\ withdrawn[c] \in 0..Ttl /\ withdrawn'[c] \in 0..Ttl
         /\ withdrawn'[c] <= withdrawn[c]
         /\ c \in Granted' => withdrawn'[c] = 0
  BY DEF TypeInv, HistoryTyped, RequestStep

\* A slot that does not enter "g.fill" or "g.decide" stays fresh.
LEMMA SlotFresh ==
  ASSUME TypeInv, RequestStep, NEW q \in Request, FillFresh(q), DecideFresh(q),
         \/ req'[q].pc \notin {"g.fill", "g.decide"}
         \/ req'[q].pc = req[q].pc /\ req'[q].codes = req[q].codes
  PROVE  FillFresh(q)' /\ DecideFresh(q)'
  <1>1. req[q].codes \subseteq Code
    BY DEF TypeInv, ReqTyped, ReqState
  <1>2. \A c \in Code : /\ withdrawn[c] \in 0..Ttl /\ withdrawn'[c] \in 0..Ttl
                        /\ withdrawn'[c] <= withdrawn[c]
    BY AgesHold
  <1> QED
    BY <1>1, <1>2 DEF FillFresh, DecideFresh, At

LEMMA OthersFresh ==
  ASSUME TypeInv, RequestStep, Fresh, NEW r \in Request, NEW s, Become(r, s)
  PROVE  /\ req'[r] = s
         /\ \A q \in Request \ {r} : FillFresh(q)' /\ DecideFresh(q)'
  <1>1. \A q \in Request : req'[q] = IF q = r THEN s ELSE req[q]
    BY DEF TypeInv, ReqTyped, Become
  <1> QED
    BY <1>1, SlotFresh DEF Fresh

\* The cache is untouched, or holds what it held before, or nothing.
LEMMA CacheStaysFresh ==
  ASSUME TypeInv, RequestStep, CacheFresh,
         \/ cache' = cache
         \/ cache' = None
         \/ cache # None /\ cache' = [cache EXCEPT !.suspect = TRUE]
  PROVE  CacheFresh'
  <1>1. \A c \in Code : /\ withdrawn[c] \in 0..Ttl /\ withdrawn'[c] \in 0..Ttl
                        /\ withdrawn'[c] <= withdrawn[c]
    BY AgesHold
  <1>2. CASE cache' = None
    BY <1>2 DEF CacheFresh
  <1>3. CASE cache # None /\ cache' # None /\ cache'.codes = cache.codes /\ cache'.ttl = cache.ttl
    <2>1. cache.codes \subseteq Code /\ cache.ttl \in 1..Ttl
      BY <1>3 DEF TypeInv, DataTyped, CacheState
    <2> QED
      BY <1>1, <1>3, <2>1 DEF CacheFresh
  <1>4. ASSUME cache # None, cache' = [cache EXCEPT !.suspect = TRUE]
        PROVE  cache' \in CacheState /\ cache'.codes = cache.codes /\ cache'.ttl = cache.ttl
    BY <1>4 DEF TypeInv, DataTyped, CacheState
  <1>5. CASE cache' # None /\ cache # None /\ cache' = [cache EXCEPT !.suspect = TRUE]
    BY <1>3, <1>4, <1>5
  <1>6. CASE cache' # None /\ cache' = cache
    BY <1>3, <1>6
  <1> QED
    BY <1>2, <1>5, <1>6

LEMMA GuardFresh ==
  ASSUME TypeInv, RequestStep, Fresh, NEW r \in Request, GuardStep(r)
  PROVE  Fresh'
  <1>0. /\ req[r] \in ReqState /\ req[r].codes \subseteq Code
        /\ \A c \in Code : /\ withdrawn[c] \in 0..Ttl /\ withdrawn'[c] \in 0..Ttl
                           /\ withdrawn'[c] <= withdrawn[c]
                           /\ c \in Granted' => withdrawn'[c] = 0
    BY AgesHold DEF TypeInv, ReqTyped, ReqState
  <1> SUFFICES CacheFresh' /\ FillFresh(r)' /\ DecideFresh(r)' /\ \E s : Become(r, s)
    BY OthersFresh DEF Fresh
  <1>1. CASE GuardReadsUser(r)
    <2>1. PICK c \in Reserved : Become(r, [Idle EXCEPT !.pc = "g.role", !.want = c])
      BY <1>1 DEF GuardReadsUser, Start
    <2>a. req'[r] = [Idle EXCEPT !.pc = "g.role", !.want = c]
      BY <2>1 DEF Become, TypeInv, ReqTyped
    <2>2. req'[r].pc = "g.role"
      BY <2>a DEF Idle
    <2> QED
      BY <1>1, <2>1, <2>2, CacheStaysFresh DEF GuardReadsUser, Fresh, FillFresh, DecideFresh, At
  <1>2. CASE GuardReadsRole(r)
    <2>1. Become(r, [req[r] EXCEPT !.pc = "g.cache"]) \/ Become(r, Idle)
      BY <1>2 DEF GuardReadsRole, Goto, End
    <2>2. req'[r].pc \in {"g.cache", "idle"}
      BY <1>0, <2>1, OthersFresh DEF Idle, ReqState
    <2> QED
      BY <1>2, <2>1, <2>2, CacheStaysFresh DEF GuardReadsRole, Fresh, FillFresh, DecideFresh, At
  <1>3. CASE CacheHit(r)
    <2>1. cache # None /\ cache.codes \subseteq Code /\ cache.ttl \in 1..Ttl
      BY <1>3 DEF CacheHit, TypeInv, DataTyped, CacheState
    <2>2. Become(r, [req[r] EXCEPT !.pc = "g.decide", !.codes = cache.codes])
      BY <1>3 DEF CacheHit
    <2>a. req'[r] = [req[r] EXCEPT !.pc = "g.decide", !.codes = cache.codes]
      BY <2>2 DEF Become, TypeInv, ReqTyped
    <2>3. req'[r].pc = "g.decide" /\ req'[r].codes = cache.codes
      BY <1>0, <2>a DEF ReqState
    <2>4. \A c \in cache.codes : withdrawn'[c] < Ttl
      BY <1>0, <2>1 DEF Fresh, CacheFresh
    <2> QED
      BY <1>3, <2>2, <2>3, <2>4, CacheStaysFresh DEF CacheHit, Fresh, FillFresh, DecideFresh, At
  <1>4. CASE CacheMiss(r)
    <2>1. Become(r, [req[r] EXCEPT !.pc = "g.load"])
      BY <1>4 DEF CacheMiss, Goto
    <2>2. req'[r].pc = "g.load"
      BY <1>0, <2>1, OthersFresh DEF ReqState
    <2> QED
      BY <1>4, <2>1, <2>2, CacheStaysFresh DEF CacheMiss, Fresh, FillFresh, DecideFresh, At
  <1>5. CASE GuardLoads(r)
    <2>1. Become(r, [req[r] EXCEPT !.pc = "g.fill", !.codes = Granted])
      BY <1>5 DEF GuardLoads
    <2>a. req'[r] = [req[r] EXCEPT !.pc = "g.fill", !.codes = Granted]
      BY <2>1 DEF Become, TypeInv, ReqTyped
    <2>2. req'[r].pc = "g.fill" /\ req'[r].codes = Granted
      BY <1>0, <2>a DEF ReqState
    <2>3. Granted' = Granted /\ Granted \subseteq Code
      BY <1>5 DEF GuardLoads, Granted, Live, TypeInv, DataTyped
    <2>4. \A c \in Granted : withdrawn'[c] = 0
      BY <1>0, <2>3
    <2> QED
      BY <1>5, <2>1, <2>2, <2>4, CacheStaysFresh DEF GuardLoads, Fresh, FillFresh, DecideFresh, At
  <1>6. CASE BackFill(r)
    <2>1. Become(r, [req[r] EXCEPT !.pc = "g.decide"]) /\ At(r, "g.fill")
      BY <1>6 DEF BackFill, Goto
    <2>2. req'[r].pc = "g.decide" /\ req'[r].codes = req[r].codes
      BY <1>0, <2>1, OthersFresh DEF ReqState
    <2>3. \A c \in req[r].codes : withdrawn'[c] = 0
      BY <1>0, <2>1 DEF Fresh, FillFresh
    <2>4. CacheFresh'
      <3>1. CASE cache = None
        <4>1. cache'.codes = req[r].codes /\ cache'.ttl = Ttl
          BY <1>6, <3>1 DEF BackFill
        <4> QED
          BY <2>3, <4>1 DEF CacheFresh
      <3>2. CASE cache # None
        BY <1>6, <3>2, CacheStaysFresh DEF BackFill, Fresh
      <3> QED
        BY <3>1, <3>2
    <2> QED
      BY <2>1, <2>2, <2>3, <2>4 DEF FillFresh, DecideFresh, At
  <1>7. CASE BackFillFails(r)
    <2>1. Become(r, [req[r] EXCEPT !.pc = "g.decide"]) /\ At(r, "g.fill")
      BY <1>7 DEF BackFillFails, Goto
    <2>2. req'[r].pc = "g.decide" /\ req'[r].codes = req[r].codes
      BY <1>0, <2>1, OthersFresh DEF ReqState
    <2>3. \A c \in req[r].codes : withdrawn'[c] = 0
      BY <1>0, <2>1 DEF Fresh, FillFresh
    <2> QED
      BY <1>7, <2>1, <2>2, <2>3, CacheStaysFresh DEF BackFillFails, Fresh, FillFresh, DecideFresh, At
  <1>8. CASE GuardDecides(r)
    <2>1. \/ Become(r, [Idle EXCEPT !.pc = "passed", !.want = req[r].want])
          \/ Become(r, Idle)
      BY <1>8 DEF GuardDecides, End
    <2>a. \/ req'[r] = [Idle EXCEPT !.pc = "passed", !.want = req[r].want]
          \/ req'[r] = Idle
      BY <2>1 DEF Become, TypeInv, ReqTyped
    <2>b. [Idle EXCEPT !.pc = "passed", !.want = req[r].want].pc = "passed"
      <3> DEFINE w == req[r].want
      <3> HIDE DEF w
      <3>1. [Idle EXCEPT !.pc = "passed", !.want = w].pc = "passed"
        BY DEF Idle
      <3> QED
        BY <3>1 DEF w
    <2>c. Idle.pc = "idle"
      BY DEF Idle
    <2>2. req'[r].pc \in {"passed", "idle"}
      BY <2>a, <2>b, <2>c
    <2> QED
      BY <1>8, <2>1, <2>2, CacheStaysFresh DEF GuardDecides, Fresh, FillFresh, DecideFresh, At
  <1> QED
    BY <1>1, <1>2, <1>3, <1>4, <1>5, <1>6, <1>7, <1>8 DEF GuardStep

\* Whatever is no guard leaves every other slot's pc and codes alone, and its
\* own slot is not a guard's afterwards.
OutsideGuard(r) ==
  \A q \in Request : \/ req'[q].pc \notin {"g.fill", "g.decide", "passed"}
                     \/ req'[q].pc = req[q].pc /\ req'[q].codes = req[q].codes

LEMMA BecomeOutside ==
  ASSUME TypeInv, NEW r \in Request, NEW s, s.pc \notin {"g.fill", "g.decide", "passed"}, Become(r, s)
  PROVE  OutsideGuard(r)
  BY DEF OutsideGuard, Become, TypeInv, ReqTyped

LEMMA EndOutside ==
  ASSUME TypeInv, NEW r \in Request, End(r)
  PROVE  OutsideGuard(r)
  BY BecomeOutside DEF End, Idle

LEMMA GotoOutside ==
  ASSUME TypeInv, NEW r \in Request, NEW pc, pc \notin {"g.fill", "g.decide", "passed"}, Goto(r, pc)
  PROVE  OutsideGuard(r)
  <1>1. [req[r] EXCEPT !.pc = pc].pc = pc
    BY DEF TypeInv, ReqTyped, ReqState
  <1> QED
    BY <1>1, BecomeOutside DEF Goto

\* Changing the rows or the note of a slot leaves its pc and codes alone.
LEMMA ExceptKeeps ==
  ASSUME NEW s \in ReqState, NEW v
  PROVE  /\ [s EXCEPT !.rows = v].pc = s.pc /\ [s EXCEPT !.rows = v].codes = s.codes
         /\ [s EXCEPT !.late = v].pc = s.pc /\ [s EXCEPT !.late = v].codes = s.codes
         /\ [Idle EXCEPT !.pc = "drop"].pc = "drop"
  BY DEF ReqState, Idle

LEMMA CommitOutside ==
  ASSUME TypeInv, NEW r \in Request, NEW inserted, Commit(r, inserted)
  PROVE  OutsideGuard(r)
  <1>1. ASSUME NEW q \in Request
        PROVE  \/ req'[q].pc = "drop"
               \/ req'[q].pc = req[q].pc /\ req'[q].codes = req[q].codes
    <2>1. req[q] \in ReqState
      BY DEF TypeInv, ReqTyped
    <2>2. req'[q] = IF q = r THEN [Idle EXCEPT !.pc = "drop"]
                    ELSE [req[q] EXCEPT !.rows = @ \ req[r].rows]
      BY DEF Commit
    <2>3. CASE q = r
      BY <2>2, <2>3, ExceptKeeps, <2>1
    <2>4. CASE q # r
      BY <2>2, <2>4, ExceptKeeps, <2>1
    <2> QED
      BY <2>3, <2>4
  <1> QED
    BY <1>1 DEF OutsideGuard

LEMMA OvertakeOutside ==
  ASSUME TypeInv, NEW r \in Request, Overtake(r)
  PROVE  OutsideGuard(r)
  <1>1. ASSUME NEW q \in Request
        PROVE  \/ req'[q].pc = "idle"
               \/ req'[q].pc = req[q].pc /\ req'[q].codes = req[q].codes
    <2> DEFINE late == req[q].late \/ At(q, "g.fill")
    <2>1. req[q] \in ReqState
      BY DEF TypeInv, ReqTyped
    <2>2. req'[q] = IF q = r THEN Idle ELSE [req[q] EXCEPT !.late = late]
      BY DEF Overtake
    <2> HIDE DEF late
    <2>3. CASE q = r
      BY <2>2, <2>3 DEF Idle
    <2>4. CASE q # r
      BY <2>2, <2>4, ExceptKeeps, <2>1
    <2> QED
      BY <2>3, <2>4
  <1> QED
    BY <1>1 DEF OutsideGuard

LEMMA RenameOutside ==
  ASSUME TypeInv, NEW r \in Request, PermRenameCommits(r)
  PROVE  OutsideGuard(r)
  <1> DEFINE old == req[r].code
             new == req[r].want
             Renamed(rows) == IF old \in rows THEN (rows \ {old}) \cup {new} ELSE rows
             rows(q) == IF At(q, "p.commit") THEN req[q].rows \ {old} ELSE Renamed(req[q].rows)
  <1>1. CASE End(r)
    BY <1>1, EndOutside
  <1>2. CASE req' = [q \in Request |-> IF q = r THEN [Idle EXCEPT !.pc = "drop"]
                                       ELSE [req[q] EXCEPT !.rows = rows(q)]]
    <2>1. ASSUME NEW q \in Request
          PROVE  \/ req'[q].pc = "drop"
                 \/ req'[q].pc = req[q].pc /\ req'[q].codes = req[q].codes
      <3>1. req[q] \in ReqState
        BY DEF TypeInv, ReqTyped
      <3> HIDE DEF rows
      <3>2. req'[q] = IF q = r THEN [Idle EXCEPT !.pc = "drop"]
                      ELSE [req[q] EXCEPT !.rows = rows(q)]
        BY <1>2
      <3>3. CASE q = r
        BY <3>2, <3>3, ExceptKeeps, <3>1
      <3>4. CASE q # r
        BY <3>2, <3>4, ExceptKeeps, <3>1
      <3> QED
        BY <3>3, <3>4
    <2> QED
      BY <2>1 DEF OutsideGuard
  <1> QED
    BY <1>1, <1>2 DEF PermRenameCommits

LEMMA OutsideFresh ==
  ASSUME TypeInv, RequestStep, Fresh, NEW r \in Request, OutsideGuard(r), CacheFresh'
  PROVE  Fresh'
  BY SlotFresh DEF Fresh, OutsideGuard

LEMMA AsksOutside ==
  ASSUME TypeInv, NEW r \in Request, Asks(r)
  PROVE  OutsideGuard(r)
  <1>1. CASE UpdateReadsRole(r)
    <2>1. PICK codes \in SUBSET Code : Start(r, [Idle EXCEPT !.pc = "u.codes", !.codes = codes])
      BY <1>1 DEF UpdateReadsRole
    <2> DEFINE s == [Idle EXCEPT !.pc = "u.codes", !.codes = codes]
    <2>2. Become(r, s)
      BY <2>1 DEF Start
    <2>3. s.pc = "u.codes"
      BY DEF Idle
    <2> HIDE DEF s
    <2> QED
      BY <2>2, <2>3, BecomeOutside
  <1>2. CASE RoleRemoveReads(r)
    <2> DEFINE s == [Idle EXCEPT !.pc = "r.count"]
    <2>2. Become(r, s)
      BY <1>2 DEF RoleRemoveReads, Start
    <2>3. s.pc \in {"r.count"}
      BY DEF Idle
    <2> HIDE DEF s
    <2> QED
      BY <2>2, <2>3, BecomeOutside
  <1>3. CASE RoleRestoreReads(r)
    <2> DEFINE s == [Idle EXCEPT !.pc = "r.restore"]
    <2>2. Become(r, s)
      BY <1>3 DEF RoleRestoreReads, Start
    <2>3. s.pc \in {"r.restore"}
      BY DEF Idle
    <2> HIDE DEF s
    <2> QED
      BY <2>2, <2>3, BecomeOutside
  <1>4. CASE PermCreateReads(r)
    <2>1. PICK p \in Perm, c \in Code : Start(r, [Idle EXCEPT !.pc = "p.create", !.perm = p, !.code = c])
      BY <1>4 DEF PermCreateReads
    <2> DEFINE s == [Idle EXCEPT !.pc = "p.create", !.perm = p, !.code = c]
    <2>2. Become(r, s)
      BY <2>1 DEF Start
    <2>3. s.pc = "p.create"
      BY DEF Idle
    <2> HIDE DEF s
    <2> QED
      BY <2>2, <2>3, BecomeOutside
  <1>5. CASE PermRenameReads(r)
    <2>1. PICK p \in Perm, c \in Code :
            Start(r, [Idle EXCEPT !.pc = "p.rename", !.perm = p, !.code = perm[p].code, !.want = c])
      BY <1>5 DEF PermRenameReads
    <2> DEFINE old == perm[p].code
    <2> DEFINE s == [Idle EXCEPT !.pc = "p.rename", !.perm = p, !.code = old, !.want = c]
    <2>2. Become(r, s)
      BY <2>1 DEF Start
    <2> HIDE DEF old
    <2>3. s.pc = "p.rename"
      BY DEF Idle
    <2> HIDE DEF s
    <2> QED
      BY <2>2, <2>3, BecomeOutside
  <1>6. CASE PermRemoveReads(r)
    <2>1. PICK p \in Perm :
            Start(r, [Idle EXCEPT !.pc = "p.count", !.perm = p, !.code = perm[p].code])
      BY <1>6 DEF PermRemoveReads
    <2> DEFINE old == perm[p].code
    <2> DEFINE s == [Idle EXCEPT !.pc = "p.count", !.perm = p, !.code = old]
    <2>2. Become(r, s)
      BY <2>1 DEF Start
    <2> HIDE DEF old
    <2>3. s.pc = "p.count"
      BY DEF Idle
    <2> HIDE DEF s
    <2> QED
      BY <2>2, <2>3, BecomeOutside
  <1>7. CASE PermRestoreReads(r)
    <2>1. PICK p \in Perm : Start(r, [Idle EXCEPT !.pc = "p.restore", !.perm = p])
      BY <1>7 DEF PermRestoreReads
    <2> DEFINE s == [Idle EXCEPT !.pc = "p.restore", !.perm = p]
    <2>2. Become(r, s)
      BY <2>1 DEF Start
    <2>3. s.pc = "p.restore"
      BY DEF Idle
    <2> HIDE DEF s
    <2> QED
      BY <2>2, <2>3, BecomeOutside
  <1>8. CASE AssignReadsUser(r)
    <2> DEFINE bound == user.bound
               pc == IF bound THEN "a.commit" ELSE "a.role"
               bind == ~bound
    <2> DEFINE s == [Idle EXCEPT !.pc = pc, !.bind = bind]
    <2>2. Become(r, s)
      BY <1>8 DEF AssignReadsUser, Start
    <2>3. pc \in {"a.commit", "a.role"}
      OBVIOUS
    <2> HIDE DEF pc, bind
    <2>4. s.pc = pc
      BY DEF Idle
    <2> HIDE DEF s
    <2> QED
      BY <2>2, <2>3, <2>4, BecomeOutside
  <1>9. CASE RemoveUser(r)
    BY <1>9, BecomeOutside DEF RemoveUser, Start, Idle
  <1>10. CASE RestoreUserReads(r)
    <2> DEFINE pc == IF user.bound THEN "z.role" ELSE "z.commit"
    <2> DEFINE s == [Idle EXCEPT !.pc = pc]
    <2>2. Become(r, s)
      BY <1>10 DEF RestoreUserReads, Start
    <2>3. pc \in {"z.role", "z.commit"}
      OBVIOUS
    <2> HIDE DEF pc
    <2>4. s.pc = pc
      BY DEF Idle
    <2> HIDE DEF s
    <2> QED
      BY <2>2, <2>3, <2>4, BecomeOutside
  <1> QED
    BY <1>1, <1>2, <1>3, <1>4, <1>5, <1>6, <1>7, <1>8, <1>9, <1>10 DEF Asks

LEMMA GoesOnOutside ==
  ASSUME TypeInv, NEW r \in Request, GoesOn(r)
  PROVE  OutsideGuard(r)
  <1>0. req[r] \in ReqState
    BY DEF TypeInv, ReqTyped
  <1>1. CASE UpdateReadsCodes(r)
    <2> DEFINE valid == req[r].codes \cap Live
               s == [req[r] EXCEPT !.pc = "u.delete", !.codes = valid]
    <2>1. End(r) \/ Become(r, s)
      BY <1>1 DEF UpdateReadsCodes
    <2> HIDE DEF valid
    <2>2. s.pc = "u.delete"
      BY <1>0 DEF ReqState
    <2> HIDE DEF s
    <2> QED
      BY <2>1, <2>2, BecomeOutside, EndOutside
  <1>2. CASE UpdateDeletes(r)
    <2> DEFINE v == bindings
               s == [req[r] EXCEPT !.pc = "u.insert", !.rows = v]
    <2>1. Become(r, s)
      BY <1>2 DEF UpdateDeletes
    <2> HIDE DEF v
    <2>2. s.pc = "u.insert"
      BY <1>0 DEF ReqState
    <2> HIDE DEF s
    <2> QED
      BY <2>1, <2>2, BecomeOutside
  <1>3. CASE UpdateCommits(r)
    BY <1>3, CommitOutside, EndOutside DEF UpdateCommits
  <1>4. CASE RoleRemoveCounts(r)
    BY <1>4, GotoOutside, EndOutside DEF RoleRemoveCounts
  <1>5. CASE RoleRemoveDeletes(r)
    <2> DEFINE v == bindings
               s == [req[r] EXCEPT !.pc = "r.commit", !.rows = v]
    <2>1. Become(r, s)
      BY <1>5 DEF RoleRemoveDeletes
    <2> HIDE DEF v
    <2>2. s.pc = "r.commit"
      BY <1>0 DEF ReqState
    <2> HIDE DEF s
    <2> QED
      BY <2>1, <2>2, BecomeOutside
  <1>6. CASE RoleRemoveCommits(r)
    BY <1>6, CommitOutside DEF RoleRemoveCommits
  <1>7. CASE RoleRestoreCommits(r)
    BY <1>7, GotoOutside DEF RoleRestoreCommits
  <1>8. CASE PermCreateCommits(r)
    BY <1>8, EndOutside DEF PermCreateCommits
  <1>9. CASE PermRenameCommits(r)
    BY <1>9, RenameOutside
  <1>10. CASE PermRemoveCounts(r)
    BY <1>10, GotoOutside, EndOutside DEF PermRemoveCounts
  <1>11. CASE PermRemoveDeletes(r)
    <2> DEFINE v == bindings \cap {req[r].code}
               s == [req[r] EXCEPT !.pc = "p.commit", !.rows = v]
    <2>1. Become(r, s)
      BY <1>11 DEF PermRemoveDeletes
    <2> HIDE DEF v
    <2>2. s.pc = "p.commit"
      BY <1>0 DEF ReqState
    <2> HIDE DEF s
    <2> QED
      BY <2>1, <2>2, BecomeOutside
  <1>12. CASE PermRemoveCommits(r)
    BY <1>12, CommitOutside DEF PermRemoveCommits
  <1>13. CASE PermRestoreCommits(r)
    BY <1>13, GotoOutside, EndOutside DEF PermRestoreCommits
  <1>14. CASE AssignReadsRole(r)
    BY <1>14, GotoOutside, EndOutside DEF AssignReadsRole
  <1>15. CASE AssignCommits(r)
    BY <1>15, GotoOutside, EndOutside DEF AssignCommits
  <1>16. CASE RestoreUserReadsRole(r)
    BY <1>16, GotoOutside, EndOutside DEF RestoreUserReadsRole
  <1>17. CASE RestoreUserCommits(r)
    BY <1>17, EndOutside DEF RestoreUserCommits
  <1>18. CASE DropCache(r)
    BY <1>18, OvertakeOutside DEF DropCache
  <1>19. CASE DropFails(r)
    BY <1>19, OvertakeOutside DEF DropFails
  <1>20. CASE Abandon(r)
    BY <1>20, EndOutside DEF Abandon
  <1> QED
    BY <1>1, <1>2, <1>3, <1>4, <1>5, <1>6, <1>7, <1>8, <1>9, <1>10, <1>11, <1>12, <1>13,
       <1>14, <1>15, <1>16, <1>17, <1>18, <1>19, <1>20 DEF GoesOn

\* Outside the guard the cached codes are left alone, suspected or deleted.
LEMMA OutsideCache ==
  ASSUME TypeInv, RequestStep, CacheFresh, NEW r \in Request, Asks(r) \/ GoesOn(r)
  PROVE  CacheFresh'
  <1>1. \/ cache' = cache
        \/ cache' = None
        \/ cache # None /\ cache' = [cache EXCEPT !.suspect = TRUE]
    <2>1. CASE Asks(r)
      BY <2>1 DEF Asks, UpdateReadsRole, RoleRemoveReads, RoleRestoreReads, PermCreateReads,
         PermRenameReads, PermRemoveReads, PermRestoreReads, AssignReadsUser, RemoveUser,
         RestoreUserReads
    <2>2. CASE DropCache(r) \/ DropFails(r)
      BY <2>2 DEF DropCache, DropFails
    <2>3. CASE GoesOn(r) /\ ~DropCache(r) /\ ~DropFails(r)
      BY <2>3 DEF GoesOn, UpdateReadsCodes, UpdateDeletes, UpdateCommits, RoleRemoveCounts,
         RoleRemoveDeletes, RoleRemoveCommits, RoleRestoreCommits, PermCreateCommits,
         PermRenameCommits, PermRemoveCounts, PermRemoveDeletes, PermRemoveCommits,
         PermRestoreCommits, AssignReadsRole, AssignCommits, RestoreUserReadsRole,
         RestoreUserCommits, Abandon
    <2> QED
      BY <2>1, <2>2, <2>3
  <1> QED
    BY <1>1, CacheStaysFresh

LEMMA InitFresh == Init => Fresh
  BY DEF Init, Fresh, CacheFresh, FillFresh, DecideFresh, At, Idle

LEMMA TickFresh ==
  ASSUME TypeInv, Fresh, Tick
  PROVE  Fresh'
  <1>1. CacheFresh'
    <2>1. CASE cache' = None
      BY <2>1 DEF CacheFresh
    <2>2. CASE cache' # None
      <3>1. /\ cache # None /\ cache.ttl # 1
            /\ cache' = [cache EXCEPT !.ttl = @ - 1]
        BY <2>2 DEF Tick
      <3>2. cache \in CacheState
        BY <3>1 DEF TypeInv, DataTyped
      <3>3. /\ cache.ttl \in 1..Ttl /\ cache.codes \subseteq Code
            /\ cache'.ttl = cache.ttl - 1 /\ cache'.codes = cache.codes
        BY <3>1, <3>2 DEF CacheState
      <3>4. \A c \in Code : /\ withdrawn[c] \in 0..Ttl /\ withdrawn'[c] \in 0..Ttl
                             /\ withdrawn'[c] <= withdrawn[c] + 1
        BY DEF Tick, TypeInv, HistoryTyped
      <3> QED
        BY <3>1, <3>3, <3>4 DEF CacheFresh, Fresh
    <2> QED
      BY <2>1, <2>2
  <1>2. \A r \in Request : req'[r].pc \notin {"g.fill", "g.decide"}
    BY DEF Tick, Free
  <1> QED
    BY <1>1, <1>2 DEF Fresh, FillFresh, DecideFresh, At

LEMMA StepFresh == TypeInv /\ Fresh /\ [Next]_vars => Fresh'
  <1> SUFFICES ASSUME TypeInv, Fresh, [Next]_vars PROVE Fresh'
    OBVIOUS
  <1>1. CASE RequestStep
    <2>1. PICK r \in Request : GuardStep(r) \/ GoesOn(r) \/ Asks(r)
      BY <1>1 DEF RequestStep
    <2>2. CASE GuardStep(r)
      BY <1>1, <2>2, GuardFresh
    <2>3. CASE GoesOn(r) \/ Asks(r)
      <3>1. CacheFresh'
        BY <1>1, <2>3, OutsideCache DEF Fresh
      <3> QED
        BY <1>1, <2>3, <3>1, AsksOutside, GoesOnOutside, OutsideFresh
    <2> QED
      BY <2>1, <2>2, <2>3
  <1>2. CASE Tick
    BY <1>2, TickFresh
  <1>3. CASE UNCHANGED vars
    BY <1>3 DEF vars, Fresh, CacheFresh, FillFresh, DecideFresh, At
  <1> QED
    BY <1>1, <1>2, <1>3 DEF Next

LEMMA FreshInvariant == Spec => [](TypeInv /\ Fresh)
  <1>1. Init => TypeInv /\ Fresh
    BY InitTyped, InitFresh
  <1>2. TypeInv /\ Fresh /\ [Next]_vars => (TypeInv /\ Fresh)'
    BY StepTyped, StepFresh
  <1> QED
    BY <1>1, <1>2, PTL DEF Spec

\* Only the decision lets a request pass.
LEMMA PassesByDecision ==
  ASSUME TypeInv, RequestStep, NEW q \in Request, ~At(q, "passed"), At(q, "passed")'
  PROVE  GuardDecides(q)
  <1>1. PICK r \in Request : GuardStep(r) \/ GoesOn(r) \/ Asks(r)
    BY DEF RequestStep
  <1>2. CASE GoesOn(r) \/ Asks(r)
    BY <1>2, AsksOutside, GoesOnOutside DEF OutsideGuard, At
  <1>3. CASE GuardStep(r) /\ ~GuardDecides(r)
    <2>0. req[r] \in ReqState
      BY DEF TypeInv, ReqTyped
    <2>1. ASSUME NEW s, Become(r, s), s.pc # "passed" PROVE FALSE
      BY <2>1 DEF Become, At, TypeInv, ReqTyped
    <2>2. ASSUME NEW pc, Goto(r, pc), pc # "passed" PROVE FALSE
      <3>1. [req[r] EXCEPT !.pc = pc].pc = pc
        BY <2>0 DEF ReqState
      <3> QED
        BY <2>1, <2>2, <3>1 DEF Goto
    <2>3. CASE GuardReadsUser(r)
      <3>1. PICK c \in Reserved : Start(r, [Idle EXCEPT !.pc = "g.role", !.want = c])
        BY <2>3 DEF GuardReadsUser
      <3> DEFINE s == [Idle EXCEPT !.pc = "g.role", !.want = c]
      <3>2. Become(r, s)
        BY <3>1 DEF Start
      <3>3. s.pc = "g.role"
        BY DEF Idle
      <3> HIDE DEF s
      <3> QED
        BY <2>1, <3>2, <3>3
    <2>4. CASE GuardReadsRole(r)
      <3>1. Idle.pc = "idle"
        BY DEF Idle
      <3> QED
        BY <2>1, <2>2, <2>4, <3>1 DEF GuardReadsRole, End
    <2>5. CASE CacheHit(r)
      <3> DEFINE codes == cache.codes
                 s == [req[r] EXCEPT !.pc = "g.decide", !.codes = codes]
      <3>1. Become(r, s)
        BY <2>5 DEF CacheHit
      <3> HIDE DEF codes
      <3>2. s.pc = "g.decide"
        BY <2>0 DEF ReqState
      <3> HIDE DEF s
      <3> QED
        BY <2>1, <3>1, <3>2
    <2>6. CASE GuardLoads(r)
      <3> DEFINE codes == Granted
                 s == [req[r] EXCEPT !.pc = "g.fill", !.codes = codes]
      <3>1. Become(r, s)
        BY <2>6 DEF GuardLoads
      <3> HIDE DEF codes
      <3>2. s.pc = "g.fill"
        BY <2>0 DEF ReqState
      <3> HIDE DEF s
      <3> QED
        BY <2>1, <3>1, <3>2
    <2>7. CASE CacheMiss(r) \/ BackFill(r) \/ BackFillFails(r)
      BY <2>2, <2>7 DEF CacheMiss, BackFill, BackFillFails
    <2> QED
      BY <1>3, <2>3, <2>4, <2>5, <2>6, <2>7 DEF GuardStep
  <1>4. CASE GuardDecides(r)
    <2>1. q = r
      BY <1>4 DEF GuardDecides, End, Become, At, TypeInv, ReqTyped
    <2> QED
      BY <1>4, <2>1
  <1> QED
    BY <1>1, <1>2, <1>3, <1>4

\* A request that passes the guard does so on a code that the role has, or
\* lost less than Ttl ticks ago: the bound that permissions.guard.ts counts on
\* holds for every number of requests, however fills and deletions overlap.
THEOREM StaleIsBounded == Spec => StaleBounded
  <1> DEFINE Passes(q) == ~At(q, "passed") /\ At(q, "passed")'
             Entitled(q) == \E c \in Code : Allows({c}, req[q].want) /\ withdrawn[c] < Ttl
  <1>1. ASSUME TypeInv, Fresh, Next, NEW q \in Request, Passes(q)
        PROVE  Entitled(q)
    <2>1. RequestStep
      BY <1>1 DEF Next, Tick, At
    <2>2. GuardDecides(q)
      BY <1>1, <2>1, PassesByDecision
    <2>3. Allows(req[q].codes, req[q].want)
      <3>1. CASE ~Allows(req[q].codes, req[q].want)
        <4>1. Become(q, Idle)
          BY <2>2, <3>1 DEF GuardDecides, End
        <4> QED
          BY <1>1, <4>1 DEF Become, At, TypeInv, ReqTyped, Idle
      <3> QED
        BY <3>1
    <2>4. PICK c \in req[q].codes : Allows({c}, req[q].want)
      BY <2>3 DEF Allows
    <2>5. c \in Code
      BY <1>1, <2>4 DEF TypeInv, ReqTyped, ReqState
    <2>6. withdrawn[c] < Ttl
      BY <1>1, <2>2, <2>4 DEF GuardDecides, Fresh, DecideFresh
    <2> QED
      BY <2>4, <2>5, <2>6
  <1>2. TypeInv /\ Fresh /\ [Next]_vars =>
          [\A r \in Request :
             ~At(r, "passed") /\ At(r, "passed")' =>
               \E c \in Code : Allows({c}, req[r].want) /\ withdrawn[c] < Ttl]_vars
    BY <1>1
  <1> HIDE DEF Passes, Entitled
  <1> QED
    BY <1>2, FreshInvariant, PTL DEF Spec, StaleBounded

-----------------------------------------------------------------------------
(* Where a step leads.  A request leaves the slots of the others alone, but for
   rows it has deleted, or renamed, and the note that the key was deleted; and
   each of the places in `Landing' is reached by one action.                 *)
SlotKept(q) ==
  /\ req'[q].pc = req[q].pc /\ req'[q].codes = req[q].codes
  /\ req'[q].perm = req[q].perm /\ req'[q].code = req[q].code
  /\ ~req'[q].late => ~req[q].late
  /\ At(q, "p.commit") => req'[q].rows \subseteq req[q].rows

OthersKept(r) == \A q \in Request \ {r} : SlotKept(q)

Landing == {"g.fill", "p.create", "p.commit", "p.restore"}

Lands(r) == OthersKept(r) /\ req'[r].pc \notin Landing

LEMMA BecomeKeeps ==
  ASSUME TypeInv, NEW r \in Request, NEW s, Become(r, s)
  PROVE  OthersKept(r) /\ req'[r] = s
  BY DEF Become, TypeInv, ReqTyped, OthersKept, SlotKept

LEMMA BecomeLands ==
  ASSUME TypeInv, NEW r \in Request, NEW s, Become(r, s), s.pc \notin Landing
  PROVE  Lands(r)
  BY BecomeKeeps DEF Lands

LEMMA EndLands ==
  ASSUME TypeInv, NEW r \in Request, End(r)
  PROVE  Lands(r)
  BY BecomeLands DEF End, Idle, Landing

LEMMA GotoLands ==
  ASSUME TypeInv, NEW r \in Request, NEW pc, pc \notin Landing, Goto(r, pc)
  PROVE  Lands(r)
  <1>1. [req[r] EXCEPT !.pc = pc].pc = pc
    BY DEF TypeInv, ReqTyped, ReqState
  <1> QED
    BY <1>1, BecomeLands DEF Goto

LEMMA ExceptKeepsSlot ==
  ASSUME NEW s \in ReqState, NEW v
  PROVE  /\ LET t == [s EXCEPT !.rows = v]
            IN /\ t.pc = s.pc /\ t.codes = s.codes /\ t.perm = s.perm /\ t.code = s.code
               /\ t.late = s.late /\ t.rows = v
         /\ LET t == [s EXCEPT !.late = v]
            IN /\ t.pc = s.pc /\ t.codes = s.codes /\ t.perm = s.perm /\ t.code = s.code
               /\ t.late = v /\ t.rows = s.rows
  BY DEF ReqState

LEMMA CommitLands ==
  ASSUME TypeInv, NEW r \in Request, NEW inserted, Commit(r, inserted)
  PROVE  Lands(r) /\ req'[r].pc = "drop"
  <1>1. req'[r].pc = "drop"
    BY DEF Commit, Idle
  <1>2. ASSUME NEW q \in Request \ {r} PROVE SlotKept(q)
    <2> DEFINE v == req[q].rows \ req[r].rows
    <2>1. req[q] \in ReqState
      BY DEF TypeInv, ReqTyped
    <2>2. req'[q] = [req[q] EXCEPT !.rows = v]
      BY DEF Commit
    <2>3. v \subseteq req[q].rows
      OBVIOUS
    <2> HIDE DEF v
    <2> QED
      BY <2>1, <2>2, <2>3, ExceptKeepsSlot DEF SlotKept
  <1> QED
    BY <1>1, <1>2 DEF Lands, OthersKept, Landing

LEMMA OvertakeLands ==
  ASSUME TypeInv, NEW r \in Request, Overtake(r)
  PROVE  /\ Lands(r) /\ req'[r].pc = "idle"
         /\ \A q \in Request : At(q, "g.fill")' => req'[q].late
  <1>1. req'[r].pc = "idle"
    BY DEF Overtake, Idle
  <1>2. ASSUME NEW q \in Request \ {r} PROVE SlotKept(q) /\ (At(q, "g.fill") => req'[q].late)
    <2> DEFINE v == req[q].late \/ At(q, "g.fill")
    <2>1. req[q] \in ReqState
      BY DEF TypeInv, ReqTyped
    <2>2. req'[q] = [req[q] EXCEPT !.late = v]
      BY DEF Overtake
    <2>3. req[q].late => v
      OBVIOUS
    <2>4. At(q, "g.fill") => v
      OBVIOUS
    <2> HIDE DEF v
    <2>5. /\ req'[q].pc = req[q].pc /\ req'[q].codes = req[q].codes
          /\ req'[q].perm = req[q].perm /\ req'[q].code = req[q].code
          /\ req'[q].late = v /\ req'[q].rows = req[q].rows
      BY <2>1, <2>2, ExceptKeepsSlot
    <2> QED
      BY <2>3, <2>4, <2>5, Zenon DEF SlotKept
  <1>3. \A q \in Request \ {r} : At(q, "g.fill")' => req'[q].late
    BY <1>2 DEF At, SlotKept
  <1>4. \A q \in Request : At(q, "g.fill")' => req'[q].late
    BY <1>1, <1>3 DEF At
  <1> QED
    BY <1>1, <1>2, <1>4 DEF Lands, OthersKept, Landing

LEMMA RenameLands ==
  ASSUME TypeInv, NEW r \in Request, PermRenameCommits(r)
  PROVE  Lands(r) /\ (req'[r].pc # "drop" => UNCHANGED <<perm, bindings>>)
  <1> DEFINE old == req[r].code
             new == req[r].want
             Renamed(rows) == IF old \in rows THEN (rows \ {old}) \cup {new} ELSE rows
             rows(q) == IF At(q, "p.commit") THEN req[q].rows \ {old} ELSE Renamed(req[q].rows)
  <1>1. CASE End(r) /\ UNCHANGED <<perm, bindings>>
    BY <1>1, EndLands
  <1>2. CASE req' = [q \in Request |-> IF q = r THEN [Idle EXCEPT !.pc = "drop"]
                                       ELSE [req[q] EXCEPT !.rows = rows(q)]]
    <2>1. req'[r].pc = "drop"
      BY <1>2 DEF Idle
    <2>2. ASSUME NEW q \in Request \ {r} PROVE SlotKept(q)
      <3>1. req[q] \in ReqState
        BY DEF TypeInv, ReqTyped
      <3>2. req'[q] = [req[q] EXCEPT !.rows = rows(q)]
        BY <1>2
      <3>3. At(q, "p.commit") => rows(q) \subseteq req[q].rows
        OBVIOUS
      <3> HIDE DEF rows
      <3> QED
        BY <3>1, <3>2, <3>3, ExceptKeepsSlot DEF SlotKept
    <2> QED
      BY <2>1, <2>2 DEF Lands, OthersKept, Landing
  <1> QED
    BY <1>1, <1>2 DEF PermRenameCommits

\* The pc of a slot that is begun anew.
LEMMA IdleAt ==
  ASSUME NEW pc, NEW u, NEW v, NEW w
  PROVE  /\ Idle.pc = "idle" /\ Idle.late = FALSE
         /\ [Idle EXCEPT !.pc = pc].pc = pc
         /\ [Idle EXCEPT !.pc = pc, !.want = u].pc = pc
         /\ [Idle EXCEPT !.pc = pc, !.codes = u].pc = pc
         /\ [Idle EXCEPT !.pc = pc, !.bind = u].pc = pc
         /\ [Idle EXCEPT !.pc = pc, !.perm = u].pc = pc
         /\ [Idle EXCEPT !.pc = pc, !.perm = u].perm = u
         /\ [Idle EXCEPT !.pc = pc, !.perm = u, !.code = v].pc = pc
         /\ [Idle EXCEPT !.pc = pc, !.perm = u, !.code = v].perm = u
         /\ [Idle EXCEPT !.pc = pc, !.perm = u, !.code = v].code = v
         /\ [Idle EXCEPT !.pc = pc, !.perm = u, !.code = v, !.want = w].pc = pc
  BY DEF Idle

LEMMA SlotAt ==
  ASSUME NEW s \in ReqState, NEW pc, NEW v
  PROVE  /\ [s EXCEPT !.pc = pc].pc = pc
         /\ LET t == [s EXCEPT !.pc = pc, !.codes = v] IN t.pc = pc /\ t.codes = v
         /\ LET t == [s EXCEPT !.pc = pc, !.rows = v]
            IN t.pc = pc /\ t.rows = v /\ t.code = s.code
  BY DEF ReqState

LEMMA AsksLands ==
  ASSUME TypeInv, NEW r \in Request, Asks(r), ~PermCreateReads(r), ~PermRestoreReads(r)
  PROVE  Lands(r)
  <1>1. ASSUME NEW s, Start(r, s), s.pc \notin Landing PROVE Lands(r)
    BY <1>1, BecomeLands DEF Start
  <1>2. CASE UpdateReadsRole(r)
    <2>1. PICK codes \in SUBSET Code : Start(r, [Idle EXCEPT !.pc = "u.codes", !.codes = codes])
      BY <1>2 DEF UpdateReadsRole
    <2>2. [Idle EXCEPT !.pc = "u.codes", !.codes = codes].pc \notin Landing
      BY IdleAt DEF Landing
    <2> QED
      BY <1>1, <2>1, <2>2
  <1>3. CASE RoleRemoveReads(r) \/ RoleRestoreReads(r)
    <2>1. /\ [Idle EXCEPT !.pc = "r.count"].pc \notin Landing
          /\ [Idle EXCEPT !.pc = "r.restore"].pc \notin Landing
      BY IdleAt DEF Landing
    <2> QED
      BY <1>1, <1>3, <2>1 DEF RoleRemoveReads, RoleRestoreReads
  <1>4. CASE PermRenameReads(r)
    <2>1. PICK p \in Perm, c \in Code :
            Start(r, [Idle EXCEPT !.pc = "p.rename", !.perm = p, !.code = perm[p].code, !.want = c])
      BY <1>4 DEF PermRenameReads
    <2> DEFINE old == perm[p].code
    <2>2. Start(r, [Idle EXCEPT !.pc = "p.rename", !.perm = p, !.code = old, !.want = c])
      BY <2>1
    <2> HIDE DEF old
    <2>3. [Idle EXCEPT !.pc = "p.rename", !.perm = p, !.code = old, !.want = c].pc \notin Landing
      BY IdleAt DEF Landing
    <2> QED
      BY <1>1, <2>2, <2>3
  <1>5. CASE PermRemoveReads(r)
    <2>1. PICK p \in Perm :
            Start(r, [Idle EXCEPT !.pc = "p.count", !.perm = p, !.code = perm[p].code])
      BY <1>5 DEF PermRemoveReads
    <2> DEFINE old == perm[p].code
    <2>2. Start(r, [Idle EXCEPT !.pc = "p.count", !.perm = p, !.code = old])
      BY <2>1
    <2> HIDE DEF old
    <2>3. [Idle EXCEPT !.pc = "p.count", !.perm = p, !.code = old].pc \notin Landing
      BY IdleAt DEF Landing
    <2> QED
      BY <1>1, <2>2, <2>3
  <1>6. CASE AssignReadsUser(r)
    <2> DEFINE pc == IF user.bound THEN "a.commit" ELSE "a.role"
               bind == ~user.bound
    <2>1. Start(r, [Idle EXCEPT !.pc = pc, !.bind = bind])
      BY <1>6 DEF AssignReadsUser
    <2>2. pc \notin Landing
      BY DEF Landing
    <2> HIDE DEF pc, bind
    <2>3. [Idle EXCEPT !.pc = pc, !.bind = bind].pc \notin Landing
      BY <2>2, IdleAt
    <2> QED
      BY <1>1, <2>1, <2>3
  <1>7. CASE RemoveUser(r)
    BY <1>1, <1>7, IdleAt DEF Landing, RemoveUser
  <1>8. CASE RestoreUserReads(r)
    <2> DEFINE pc == IF user.bound THEN "z.role" ELSE "z.commit"
    <2>1. Start(r, [Idle EXCEPT !.pc = pc])
      BY <1>8 DEF RestoreUserReads
    <2>2. pc \notin Landing
      BY DEF Landing
    <2> HIDE DEF pc
    <2>3. [Idle EXCEPT !.pc = pc].pc \notin Landing
      BY <2>2, IdleAt
    <2> QED
      BY <1>1, <2>1, <2>3
  <1> QED
    BY <1>2, <1>3, <1>4, <1>5, <1>6, <1>7, <1>8 DEF Asks

LEMMA GoesOnLands ==
  ASSUME TypeInv, NEW r \in Request, GoesOn(r), ~PermRemoveDeletes(r)
  PROVE  Lands(r)
  <1>0. req[r] \in ReqState
    BY DEF TypeInv, ReqTyped
  <1>1. CASE UpdateReadsCodes(r)
    <2> DEFINE valid == req[r].codes \cap Live
    <2>1. End(r) \/ Become(r, [req[r] EXCEPT !.pc = "u.delete", !.codes = valid])
      BY <1>1 DEF UpdateReadsCodes
    <2> HIDE DEF valid
    <2>2. [req[r] EXCEPT !.pc = "u.delete", !.codes = valid].pc \notin Landing
      BY <1>0, SlotAt DEF Landing
    <2> QED
      BY <2>1, <2>2, EndLands, BecomeLands
  <1>2. CASE UpdateDeletes(r) \/ RoleRemoveDeletes(r)
    <2> DEFINE v == bindings
    <2>1. \/ Become(r, [req[r] EXCEPT !.pc = "u.insert", !.rows = v])
          \/ Become(r, [req[r] EXCEPT !.pc = "r.commit", !.rows = v])
      BY <1>2 DEF UpdateDeletes, RoleRemoveDeletes
    <2> HIDE DEF v
    <2>2. /\ [req[r] EXCEPT !.pc = "u.insert", !.rows = v].pc \notin Landing
          /\ [req[r] EXCEPT !.pc = "r.commit", !.rows = v].pc \notin Landing
      BY <1>0, SlotAt DEF Landing
    <2> QED
      BY <2>1, <2>2, BecomeLands
  <1>3. CASE UpdateCommits(r) \/ RoleRemoveCommits(r) \/ PermRemoveCommits(r)
    BY <1>3, CommitLands, EndLands DEF UpdateCommits, RoleRemoveCommits, PermRemoveCommits
  <1>4. CASE RoleRemoveCounts(r) \/ RoleRestoreCommits(r) \/ PermRemoveCounts(r)
    BY <1>4, GotoLands, EndLands DEF RoleRemoveCounts, RoleRestoreCommits, PermRemoveCounts, Landing
  <1>5. CASE PermRestoreCommits(r) \/ PermCreateCommits(r)
    BY <1>5, GotoLands, EndLands DEF PermRestoreCommits, PermCreateCommits, Landing
  <1>6. CASE PermRenameCommits(r)
    BY <1>6, RenameLands
  <1>7. CASE \/ AssignReadsRole(r) \/ AssignCommits(r)
             \/ RestoreUserReadsRole(r) \/ RestoreUserCommits(r)
    BY <1>7, GotoLands, EndLands DEF AssignReadsRole, AssignCommits, RestoreUserReadsRole,
       RestoreUserCommits, Landing
  <1>8. CASE DropCache(r) \/ DropFails(r) \/ Abandon(r)
    BY <1>8, OvertakeLands, EndLands DEF DropCache, DropFails, Abandon
  <1> QED
    BY <1>1, <1>2, <1>3, <1>4, <1>5, <1>6, <1>7, <1>8 DEF GoesOn

LEMMA GuardLands ==
  ASSUME TypeInv, NEW r \in Request, GuardStep(r), ~GuardLoads(r)
  PROVE  Lands(r)
  <1>0. req[r] \in ReqState
    BY DEF TypeInv, ReqTyped
  <1>1. CASE GuardReadsUser(r)
    <2>1. PICK c \in Reserved : Start(r, [Idle EXCEPT !.pc = "g.role", !.want = c])
      BY <1>1 DEF GuardReadsUser
    <2>2. [Idle EXCEPT !.pc = "g.role", !.want = c].pc \notin Landing
      BY IdleAt DEF Landing
    <2> QED
      BY <2>1, <2>2, BecomeLands DEF Start
  <1>2. CASE GuardReadsRole(r) \/ CacheMiss(r) \/ BackFill(r) \/ BackFillFails(r)
    BY <1>2, GotoLands, EndLands DEF GuardReadsRole, CacheMiss, BackFill, BackFillFails, Landing
  <1>3. CASE CacheHit(r)
    <2> DEFINE codes == cache.codes
    <2>1. Become(r, [req[r] EXCEPT !.pc = "g.decide", !.codes = codes])
      BY <1>3 DEF CacheHit
    <2> HIDE DEF codes
    <2>2. [req[r] EXCEPT !.pc = "g.decide", !.codes = codes].pc \notin Landing
      BY <1>0, SlotAt DEF Landing
    <2> QED
      BY <2>1, <2>2, BecomeLands
  <1>4. CASE GuardDecides(r)
    <2> DEFINE w == req[r].want
    <2>1. End(r) \/ Become(r, [Idle EXCEPT !.pc = "passed", !.want = w])
      BY <1>4 DEF GuardDecides
    <2> HIDE DEF w
    <2>2. [Idle EXCEPT !.pc = "passed", !.want = w].pc \notin Landing
      BY IdleAt DEF Landing
    <2> QED
      BY <2>1, <2>2, EndLands, BecomeLands
  <1> QED
    BY <1>1, <1>2, <1>3, <1>4 DEF GuardStep

-----------------------------------------------------------------------------
(* The rows of the permissions table.  A removal deletes bindings of its own code
   only; a row under creation is one that nothing else writes; a row that has a
   code keeps one, and the live rows have one.                                 *)
RowsOwn(q) == At(q, "p.commit") => req[q].rows \subseteq {req[q].code}

CreateOK(q) ==
  At(q, "p.create") =>
    /\ req[q].perm \in Perm /\ req[q].code \in Code
    /\ perm[req[q].perm].code = None
    /\ \A x \in Request \ {q} : At(x, "p.create") => req[x].perm # req[q].perm

RestoreOK(q) == At(q, "p.restore") => req[q].perm \in Perm /\ perm[req[q].perm].code # None

LiveCoded == \A p \in Perm : perm[p].live => perm[p].code # None

Books == LiveCoded /\ \A q \in Request : RowsOwn(q) /\ CreateOK(q) /\ RestoreOK(q)

LEMMA InitBooks == Init => Books
  <1> SUFFICES ASSUME Init PROVE Books
    OBVIOUS
  <1>1. LiveCoded
    <2>1. \A p \in Perm : perm[p] \in [code : Code, live : {TRUE}] \cup [code : {None}, live : {FALSE}]
      BY DEF Init
    <2> QED
      BY <2>1 DEF LiveCoded
  <1>2. \A q \in Request : req[q].pc = "idle"
    BY DEF Init, Idle
  <1> QED
    BY <1>1, <1>2 DEF Books, RowsOwn, CreateOK, RestoreOK, At

\* Only a creation gives a code to a row that has none.
CodesHold(r) ==
  \A p \in Perm : /\ perm[p].code # None => perm'[p].code # None
                  /\ perm[p].code = None /\ perm'[p].code # None =>
                       PermCreateCommits(r) /\ p = req[r].perm

LEMMA PermSteps ==
  ASSUME TypeInv, Books, NEW r \in Request, GuardStep(r) \/ GoesOn(r) \/ Asks(r)
  PROVE  LiveCoded' /\ CodesHold(r)
  <1>0. perm \in [Perm -> [code : Code \cup {None}, live : BOOLEAN]]
    BY DEF TypeInv, DataTyped
  <1>1. CASE UNCHANGED perm
    BY <1>1 DEF Books, LiveCoded, CodesHold
  <1>2. CASE PermCreateCommits(r) /\ ~UNCHANGED perm
    <2> DEFINE row == [code |-> req[r].code, live |-> TRUE]
    <2>1. perm' = [perm EXCEPT ![req[r].perm] = row]
      BY <1>2 DEF PermCreateCommits
    <2>2. req[r].code \in Code
      BY <1>2 DEF PermCreateCommits, Books, CreateOK
    <2>3. row.code # None
      BY <2>2
    <2> HIDE DEF row
    <2> QED
      BY <1>0, <1>2, <2>1, <2>3 DEF Books, LiveCoded, CodesHold
  <1>3. CASE PermRenameCommits(r) /\ ~UNCHANGED perm
    <2> DEFINE new == req[r].want
               p0 == req[r].perm
    <2>1. perm' = [perm EXCEPT ![p0].code = new] /\ perm[p0].live
      BY <1>3 DEF PermRenameCommits
    <2>2. new \in Code
      BY <1>3 DEF PermRenameCommits, At, TypeInv, ReqTyped, WellFormed
    <2> HIDE DEF new, p0
    <2>3. \A p \in Perm : /\ perm'[p].code = IF p = p0 THEN new ELSE perm[p].code
                          /\ perm'[p].live = perm[p].live
      BY <1>0, <2>1
    <2>4. \A p \in Perm : p = p0 => perm[p].code # None
      BY <2>1 DEF Books, LiveCoded
    <2> QED
      BY <2>2, <2>3, <2>4 DEF Books, LiveCoded, CodesHold
  <1>4. CASE PermRemoveCommits(r)
    <2> DEFINE p0 == req[r].perm
    <2>1. perm' = [perm EXCEPT ![p0].live = FALSE]
      BY <1>4 DEF PermRemoveCommits
    <2> HIDE DEF p0
    <2>2. \A p \in Perm : /\ perm'[p].code = perm[p].code
                          /\ perm'[p].live => perm[p].live
      BY <1>0, <2>1
    <2> QED
      BY <2>2 DEF Books, LiveCoded, CodesHold
  <1>5. CASE PermRestoreCommits(r) /\ ~UNCHANGED perm
    <2> DEFINE p0 == req[r].perm
    <2>1. perm' = [perm EXCEPT ![p0].live = TRUE]
      BY <1>5 DEF PermRestoreCommits
    <2>2. p0 \in Perm /\ perm[p0].code # None
      BY <1>5 DEF PermRestoreCommits, Books, RestoreOK
    <2> HIDE DEF p0
    <2>3. \A p \in Perm : /\ perm'[p].code = perm[p].code
                          /\ perm'[p].live => p = p0 \/ perm[p].live
      BY <1>0, <2>1
    <2> QED
      BY <2>2, <2>3 DEF Books, LiveCoded, CodesHold
  <1>6. CASE GuardStep(r)
    BY <1>1, <1>6 DEF GuardStep, GuardReadsUser, GuardReadsRole, CacheHit, CacheMiss, GuardLoads,
       BackFill, BackFillFails, GuardDecides
  <1>7. CASE Asks(r)
    BY <1>1, <1>7 DEF Asks, UpdateReadsRole, RoleRemoveReads, RoleRestoreReads, PermCreateReads,
       PermRenameReads, PermRemoveReads, PermRestoreReads, AssignReadsUser, RemoveUser,
       RestoreUserReads
  <1>8. CASE GoesOn(r)
    BY <1>1, <1>2, <1>3, <1>4, <1>5, <1>8 DEF GoesOn, UpdateReadsCodes, UpdateDeletes,
       UpdateCommits, RoleRemoveCounts, RoleRemoveDeletes, RoleRemoveCommits, RoleRestoreCommits,
       PermRemoveCounts, PermRemoveDeletes, AssignReadsRole, AssignCommits, RestoreUserReadsRole,
       RestoreUserCommits, DropCache, DropFails, Abandon
  <1> QED
    BY <1>6, <1>7, <1>8

\* The other slots: what they know of their row goes on being so.
LEMMA OthersBooks ==
  ASSUME TypeInv, Books, NEW r \in Request, OthersKept(r), CodesHold(r),
         NEW q \in Request \ {r}
  PROVE  /\ RowsOwn(q)' /\ RestoreOK(q)'
         /\ req'[r].pc # "p.create" => CreateOK(q)'
  <1>0. SlotKept(q) /\ RowsOwn(q) /\ RestoreOK(q) /\ CreateOK(q)
    BY DEF OthersKept, Books
  <1>1. RowsOwn(q)'
    BY <1>0 DEF SlotKept, RowsOwn, At
  <1>2. RestoreOK(q)'
    BY <1>0 DEF SlotKept, RestoreOK, CodesHold, At
  <1>3. ASSUME req'[r].pc # "p.create" PROVE CreateOK(q)'
    <2> SUFFICES ASSUME At(q, "p.create")' PROVE CreateOK(q)'
      BY DEF CreateOK
    <2>1. At(q, "p.create") /\ req'[q].perm = req[q].perm /\ req'[q].code = req[q].code
      BY <1>0 DEF SlotKept, At
    <2>2. perm'[req[q].perm].code = None
      <3>1. SUFFICES ASSUME perm'[req[q].perm].code # None PROVE FALSE
        OBVIOUS
      <3>2. PermCreateCommits(r) /\ req[q].perm = req[r].perm
        BY <1>0, <2>1, <3>1 DEF CreateOK, CodesHold
      <3> QED
        BY <1>0, <2>1, <3>2 DEF PermCreateCommits, CreateOK
    <2>3. \A x \in Request \ {q} : At(x, "p.create")' => req'[x].perm # req[q].perm
      BY <1>0, <1>3, <2>1 DEF OthersKept, SlotKept, CreateOK, At
    <2> QED
      BY <1>0, <2>1, <2>2, <2>3 DEF CreateOK
  <1> QED
    BY <1>1, <1>2, <1>3

LEMMA LandsBooks ==
  ASSUME TypeInv, Books, NEW r \in Request, Lands(r), LiveCoded', CodesHold(r)
  PROVE  Books'
  <1>1. RowsOwn(r)' /\ CreateOK(r)' /\ RestoreOK(r)'
    BY DEF Lands, Landing, RowsOwn, CreateOK, RestoreOK, At
  <1>2. \A q \in Request \ {r} : RowsOwn(q)' /\ CreateOK(q)' /\ RestoreOK(q)'
    BY OthersBooks DEF Lands, Landing
  <1> QED
    BY <1>1, <1>2 DEF Books

LEMMA GuardLoadsSlot ==
  ASSUME TypeInv, NEW r \in Request, GuardLoads(r)
  PROVE  OthersKept(r) /\ req'[r].pc = "g.fill" /\ req'[r].codes = Granted
  <1> DEFINE codes == Granted
  <1>1. Become(r, [req[r] EXCEPT !.pc = "g.fill", !.codes = codes])
    BY DEF GuardLoads
  <1>2. req[r] \in ReqState
    BY DEF TypeInv, ReqTyped
  <1>3. SUFFICES OthersKept(r) /\ req'[r].pc = "g.fill" /\ req'[r].codes = codes
    OBVIOUS
  <1> HIDE DEF codes
  <1>4. OthersKept(r) /\ req'[r] = [req[r] EXCEPT !.pc = "g.fill", !.codes = codes]
    BY <1>1, BecomeKeeps
  <1> QED
    BY <1>2, <1>4 DEF ReqState

LEMMA RemoveDeletesBooks ==
  ASSUME TypeInv, Books, NEW r \in Request, PermRemoveDeletes(r), LiveCoded', CodesHold(r)
  PROVE  Books'
  <1> DEFINE rows == bindings \cap {req[r].code}
  <1>1. Become(r, [req[r] EXCEPT !.pc = "p.commit", !.rows = rows]) /\ rows \subseteq {req[r].code}
    BY DEF PermRemoveDeletes
  <1>2. req[r] \in ReqState
    BY DEF TypeInv, ReqTyped
  <1> HIDE DEF rows
  <1>a. OthersKept(r) /\ req'[r] = [req[r] EXCEPT !.pc = "p.commit", !.rows = rows]
    BY <1>1, BecomeKeeps
  <1>3. /\ OthersKept(r) /\ req'[r].pc = "p.commit"
        /\ req'[r].rows = rows /\ req'[r].code = req[r].code
    BY <1>2, <1>a DEF ReqState
  <1>4. RowsOwn(r)' /\ CreateOK(r)' /\ RestoreOK(r)'
    BY <1>1, <1>3 DEF RowsOwn, CreateOK, RestoreOK, At
  <1> QED
    BY <1>3, <1>4, OthersBooks DEF Books

LEMMA RestoreReadsBooks ==
  ASSUME TypeInv, Books, NEW r \in Request, PermRestoreReads(r), LiveCoded', CodesHold(r)
  PROVE  Books'
  <1>1. PICK p \in Perm : /\ perm[p].code # None
                          /\ Start(r, [Idle EXCEPT !.pc = "p.restore", !.perm = p])
    BY DEF PermRestoreReads
  <1>2. OthersKept(r) /\ req'[r] = [Idle EXCEPT !.pc = "p.restore", !.perm = p]
    BY <1>1, BecomeKeeps DEF Start
  <1>3. req'[r].pc = "p.restore" /\ req'[r].perm = p
    BY <1>2, IdleAt
  <1>4. UNCHANGED perm
    BY DEF PermRestoreReads
  <1>5. RowsOwn(r)' /\ CreateOK(r)' /\ RestoreOK(r)'
    BY <1>1, <1>3, <1>4 DEF RowsOwn, CreateOK, RestoreOK, At
  <1> QED
    BY <1>2, <1>3, <1>5, OthersBooks DEF Books

LEMMA CreateReadsBooks ==
  ASSUME TypeInv, Books, NEW r \in Request, PermCreateReads(r), LiveCoded'
  PROVE  Books'
  <1>1. PICK p \in Perm, c \in Code :
          /\ perm[p].code = None
          /\ \A q \in Request : At(q, "p.create") => req[q].perm # p
          /\ Start(r, [Idle EXCEPT !.pc = "p.create", !.perm = p, !.code = c])
    BY DEF PermCreateReads
  <1>2. OthersKept(r) /\ req'[r] = [Idle EXCEPT !.pc = "p.create", !.perm = p, !.code = c]
    BY <1>1, BecomeKeeps DEF Start
  <1>3. req'[r].pc = "p.create" /\ req'[r].perm = p /\ req'[r].code = c
    BY <1>2, IdleAt
  <1>4. UNCHANGED perm
    BY DEF PermCreateReads
  <1>5. \A q \in Request \ {r} : At(q, "p.create")' =>
          At(q, "p.create") /\ req'[q].perm = req[q].perm /\ req'[q].code = req[q].code
    BY <1>2 DEF OthersKept, SlotKept, At
  <1>6. RowsOwn(r)' /\ CreateOK(r)' /\ RestoreOK(r)'
    BY <1>1, <1>3, <1>4, <1>5 DEF RowsOwn, CreateOK, RestoreOK, At
  <1>7. \A q \in Request \ {r} : CreateOK(q)'
    BY <1>1, <1>3, <1>4, <1>5 DEF Books, CreateOK
  <1>8. \A q \in Request \ {r} : RowsOwn(q)' /\ RestoreOK(q)'
    <2>1. CodesHold(r)
      BY <1>4 DEF CodesHold
    <2> QED
      BY <1>2, <2>1, OthersBooks
  <1> QED
    BY <1>6, <1>7, <1>8 DEF Books

LEMMA StepBooks == TypeInv /\ Books /\ [Next]_vars => Books'
  <1> SUFFICES ASSUME TypeInv, Books, [Next]_vars PROVE Books'
    OBVIOUS
  <1>1. CASE RequestStep
    <2>1. PICK r \in Request : GuardStep(r) \/ GoesOn(r) \/ Asks(r)
      BY <1>1 DEF RequestStep
    <2>2. LiveCoded' /\ CodesHold(r)
      BY <2>1, PermSteps
    <2>3. CASE GuardLoads(r)
      <3>1. OthersKept(r) /\ req'[r].pc = "g.fill"
        BY <2>3, GuardLoadsSlot
      <3>2. RowsOwn(r)' /\ CreateOK(r)' /\ RestoreOK(r)'
        BY <3>1 DEF RowsOwn, CreateOK, RestoreOK, At
      <3> QED
        BY <2>2, <3>1, <3>2, OthersBooks DEF Books
    <2>4. CASE PermRemoveDeletes(r) \/ PermCreateReads(r) \/ PermRestoreReads(r)
      BY <2>2, <2>4, RemoveDeletesBooks, CreateReadsBooks, RestoreReadsBooks
    <2>5. CASE Lands(r)
      BY <2>2, <2>5, LandsBooks
    <2> QED
      BY <2>1, <2>3, <2>4, <2>5, AsksLands, GoesOnLands, GuardLands
  <1>2. CASE Tick \/ UNCHANGED vars
    BY <1>2 DEF Tick, vars, Books, LiveCoded, RowsOwn, CreateOK, RestoreOK, At
  <1> QED
    BY <1>1, <1>2 DEF Next

LEMMA BooksInvariant == Spec => [](TypeInv /\ Books)
  <1>1. Init => TypeInv /\ Books
    BY InitTyped, InitBooks
  <1>2. TypeInv /\ Books /\ [Next]_vars => (TypeInv /\ Books)'
    BY StepTyped, StepBooks
  <1> QED
    BY <1>1, <1>2, PTL DEF Spec

\* The requests that change the bindings, and which ones they take.
LEMMA Losses ==
  ASSUME TypeInv, Books, RequestStep, NEW c \in bindings \ bindings'
  PROVE  \E r \in Request :
           \/ At(r, "u.insert") /\ c \notin req[r].codes
           \/ At(r, "r.commit")
           \/ (At(r, "p.commit") \/ At(r, "p.rename")) /\ req[r].code = c
  <1>1. PICK r \in Request : GuardStep(r) \/ GoesOn(r) \/ Asks(r)
    BY DEF RequestStep
  <1>2. ~UNCHANGED bindings
    OBVIOUS
  <1>3. ~GuardStep(r)
    BY <1>2 DEF GuardStep, GuardReadsUser, GuardReadsRole, CacheHit, CacheMiss, GuardLoads,
       BackFill, BackFillFails, GuardDecides
  <1>4. ~Asks(r)
    BY <1>2 DEF Asks, UpdateReadsRole, RoleRemoveReads, RoleRestoreReads, PermCreateReads,
       PermRenameReads, PermRemoveReads, PermRestoreReads, AssignReadsUser, RemoveUser,
       RestoreUserReads
  <1>5. UpdateCommits(r) \/ RoleRemoveCommits(r) \/ PermRenameCommits(r) \/ PermRemoveCommits(r)
    BY <1>1, <1>2, <1>3, <1>4 DEF GoesOn, UpdateReadsCodes, UpdateDeletes, RoleRemoveCounts,
       RoleRemoveDeletes, RoleRestoreCommits, PermCreateCommits, PermRemoveCounts,
       PermRemoveDeletes, PermRestoreCommits, AssignReadsRole, AssignCommits,
       RestoreUserReadsRole, RestoreUserCommits, DropCache, DropFails, Abandon
  <1>6. CASE UpdateCommits(r)
    BY <1>2, <1>6 DEF UpdateCommits, Commit
  <1>7. CASE RoleRemoveCommits(r)
    BY <1>7 DEF RoleRemoveCommits
  <1>8. CASE PermRenameCommits(r)
    BY <1>2, <1>8 DEF PermRenameCommits
  <1>9. CASE PermRemoveCommits(r)
    BY <1>9 DEF PermRemoveCommits, Commit, Books, RowsOwn
  <1> QED
    BY <1>5, <1>6, <1>7, <1>8, <1>9

\* However replacements, renames, removals and roll-backs overlap, a binding goes
\* only by the commit of a request that meant it to go: replacing a role's codes
\* keeps one that is in both sets (role-permissions.service.ts, one transaction).
THEOREM LossesAreAsked == Spec => LossIsAsked
  <1>1. TypeInv /\ Books /\ [Next]_vars =>
          [\A c \in bindings \ bindings' : \E r \in Request :
             \/ At(r, "u.insert") /\ c \notin req[r].codes
             \/ At(r, "r.commit")
             \/ (At(r, "p.commit") \/ At(r, "p.rename")) /\ req[r].code = c]_vars
    <2> SUFFICES ASSUME TypeInv, Books, Next, NEW c \in bindings \ bindings'
                 PROVE  \E r \in Request :
                          \/ At(r, "u.insert") /\ c \notin req[r].codes
                          \/ At(r, "r.commit")
                          \/ (At(r, "p.commit") \/ At(r, "p.rename")) /\ req[r].code = c
      OBVIOUS
    <2>1. RequestStep
      BY DEF Next, Tick
    <2> QED
      BY <2>1, Losses
  <1> QED
    BY <1>1, BooksInvariant, PTL DEF Spec, LossIsAsked

-----------------------------------------------------------------------------
(* No stale grant but for the two ways known.  While nobody has a deletion of the
   key ahead, what is cached or about to be cached is granted, unless it is
   marked.  Whoever takes a grant away goes on to the deletion, which marks every
   set of codes that was read before it.                                        *)
Calm == \A r \in Request : ~At(r, "drop")

FillGranted(q) == At(q, "g.fill") /\ ~req[q].late => req[q].codes \subseteq Granted

CacheGranted == cache # None /\ ~cache.suspect => cache.codes \subseteq Granted

Consistent == Calm => CacheGranted /\ \A q \in Request : FillGranted(q)

LEMMA InitConsistent == Init => Consistent
  BY DEF Init, Consistent, CacheGranted, FillGranted, At, Idle

\* A request that has the deletion ahead does nothing else.
LEMMA OnlyDrops ==
  ASSUME NEW r \in Request, At(r, "drop"), GuardStep(r) \/ GoesOn(r) \/ Asks(r)
  PROVE  DropCache(r) \/ DropFails(r)
  <1>1. ~GuardStep(r)
    BY DEF At, Free, Start, GuardStep, GuardReadsUser, GuardReadsRole, CacheHit, CacheMiss, GuardLoads,
       BackFill, BackFillFails, GuardDecides
  <1>2. ~Asks(r)
    BY DEF At, Free, Start, Asks, UpdateReadsRole, RoleRemoveReads, RoleRestoreReads,
       PermCreateReads, PermRenameReads, PermRemoveReads, PermRestoreReads, AssignReadsUser,
       RemoveUser, RestoreUserReads
  <1> QED
    BY <1>1, <1>2 DEF At, GoesOn, UpdateReadsCodes, UpdateDeletes,
       UpdateCommits, RoleRemoveCounts, RoleRemoveDeletes, RoleRemoveCommits, RoleRestoreCommits,
       PermCreateCommits, PermRenameCommits, PermRemoveCounts, PermRemoveDeletes,
       PermRemoveCommits, PermRestoreCommits, AssignReadsRole, AssignCommits,
       RestoreUserReadsRole, RestoreUserCommits, Abandon

\* A creation adds a live row and takes none away.
LEMMA CreationGrants ==
  ASSUME TypeInv, Books, NEW r \in Request, PermCreateCommits(r)
  PROVE  Granted \subseteq Granted'
  <1>0. perm \in [Perm -> [code : Code \cup {None}, live : BOOLEAN]]
    BY DEF TypeInv, DataTyped
  <1> DEFINE row == [code |-> req[r].code, live |-> TRUE]
             p0 == req[r].perm
  <1>1. perm' = perm \/ perm' = [perm EXCEPT ![p0] = row]
    BY DEF PermCreateCommits
  <1>2. perm[p0].code = None /\ p0 \in Perm
    BY DEF PermCreateCommits, Books, CreateOK
  <1>3. ~perm[p0].live
    BY <1>2 DEF Books, LiveCoded
  <1> HIDE DEF row, p0
  <1>4. \A p \in Perm : perm[p].live => perm'[p] = perm[p]
    BY <1>0, <1>1, <1>3
  <1>5. UNCHANGED bindings
    BY DEF PermCreateCommits
  <1> QED
    BY <1>4, <1>5 DEF Granted, Live

\* A step that leads to no deletion of the key takes no grant away.
LEMMA GrantsKept ==
  ASSUME TypeInv, Books, NEW r \in Request, GuardStep(r) \/ GoesOn(r) \/ Asks(r),
         req'[r].pc # "drop"
  PROVE  Granted \subseteq Granted'
  <1>1. CASE UNCHANGED <<perm, bindings>>
    BY <1>1 DEF Granted, Live
  <1>2. CASE GuardStep(r)
    BY <1>1, <1>2 DEF GuardStep, GuardReadsUser, GuardReadsRole, CacheHit, CacheMiss, GuardLoads,
       BackFill, BackFillFails, GuardDecides
  <1>3. CASE Asks(r)
    BY <1>1, <1>3 DEF Asks, UpdateReadsRole, RoleRemoveReads, RoleRestoreReads, PermCreateReads,
       PermRenameReads, PermRemoveReads, PermRestoreReads, AssignReadsUser, RemoveUser,
       RestoreUserReads
  <1>4. CASE UpdateCommits(r) \/ RoleRemoveCommits(r) \/ PermRemoveCommits(r)
    BY <1>1, <1>4, CommitLands DEF UpdateCommits, RoleRemoveCommits, PermRemoveCommits
  <1>5. CASE PermRenameCommits(r)
    BY <1>1, <1>5, RenameLands
  <1>6. CASE PermRestoreCommits(r)
    <2>1. ASSUME Goto(r, "drop") PROVE FALSE
      <3>1. req'[r] = [req[r] EXCEPT !.pc = "drop"] /\ req[r] \in ReqState
        BY <2>1, BecomeKeeps DEF Goto, TypeInv, ReqTyped
      <3> QED
        BY <3>1 DEF ReqState
    <2> QED
      BY <1>1, <1>6, <2>1 DEF PermRestoreCommits
  <1>7. CASE PermCreateCommits(r)
    BY <1>7, CreationGrants
  <1>8. CASE GoesOn(r)
    BY <1>1, <1>4, <1>5, <1>6, <1>7, <1>8 DEF GoesOn, UpdateReadsCodes, UpdateDeletes,
       RoleRemoveCounts, RoleRemoveDeletes, RoleRestoreCommits, PermRemoveCounts,
       PermRemoveDeletes, AssignReadsRole, AssignCommits, RestoreUserReadsRole,
       RestoreUserCommits, DropCache, DropFails, Abandon
  <1> QED
    BY <1>2, <1>3, <1>8

\* Only a fill writes the key, and only where none is.
LEMMA CacheSteps ==
  ASSUME TypeInv, NEW r \in Request, GuardStep(r) \/ GoesOn(r) \/ Asks(r), ~At(r, "drop")
  PROVE  \/ cache' = cache
         \/ At(r, "g.fill") /\ cache'.codes = req[r].codes /\ cache'.suspect = req[r].late
  <1>1. CASE BackFill(r)
    BY <1>1 DEF BackFill
  <1>2. CASE GuardStep(r) /\ ~BackFill(r)
    BY <1>2 DEF GuardStep, GuardReadsUser, GuardReadsRole, CacheHit, CacheMiss, GuardLoads,
       BackFillFails, GuardDecides
  <1>3. CASE Asks(r)
    BY <1>3 DEF Asks, UpdateReadsRole, RoleRemoveReads, RoleRestoreReads, PermCreateReads,
       PermRenameReads, PermRemoveReads, PermRestoreReads, AssignReadsUser, RemoveUser,
       RestoreUserReads
  <1>4. CASE GoesOn(r)
    BY <1>4 DEF GoesOn, UpdateReadsCodes, UpdateDeletes,
       UpdateCommits, RoleRemoveCounts, RoleRemoveDeletes, RoleRemoveCommits, RoleRestoreCommits,
       PermCreateCommits, PermRenameCommits, PermRemoveCounts, PermRemoveDeletes,
       PermRemoveCommits, PermRestoreCommits, AssignReadsRole, AssignCommits,
       RestoreUserReadsRole, RestoreUserCommits, DropCache, DropFails, Abandon
  <1> QED
    BY <1>1, <1>2, <1>3, <1>4

\* The deletion marks what was read before it, whether it succeeds or not.
LEMMA DropsConsistent ==
  ASSUME TypeInv, NEW r \in Request, DropCache(r) \/ DropFails(r)
  PROVE  Consistent'
  <1>1. cache' = None \/ cache'.suspect = TRUE
    <2>1. CASE DropFails(r) /\ cache # None
      <3>1. cache' = [cache EXCEPT !.suspect = TRUE] /\ cache \in CacheState
        BY <2>1 DEF DropFails, TypeInv, DataTyped
      <3> QED
        BY <3>1 DEF CacheState
    <2> QED
      BY <2>1 DEF DropCache, DropFails
  <1>2. \A q \in Request : At(q, "g.fill")' => req'[q].late
    BY OvertakeLands DEF DropCache, DropFails
  <1>3. CacheGranted'
    BY <1>1 DEF CacheGranted
  <1>4. \A q \in Request : FillGranted(q)'
    BY <1>2 DEF FillGranted, At
  <1> QED
    BY <1>3, <1>4 DEF Consistent

\* The reads of a creation and of a restore and the DELETE of a removal end in no
\* slot of a guard.
LEMMA SpecialKeeps ==
  ASSUME TypeInv, NEW r \in Request,
         PermCreateReads(r) \/ PermRestoreReads(r) \/ PermRemoveDeletes(r)
  PROVE  OthersKept(r) /\ req'[r].pc # "g.fill"
  <1>1. CASE PermCreateReads(r)
    <2>1. PICK p \in Perm, c \in Code :
            Start(r, [Idle EXCEPT !.pc = "p.create", !.perm = p, !.code = c])
      BY <1>1 DEF PermCreateReads
    <2>2. OthersKept(r) /\ req'[r] = [Idle EXCEPT !.pc = "p.create", !.perm = p, !.code = c]
      BY <2>1, BecomeKeeps DEF Start
    <2> QED
      BY <2>2, IdleAt
  <1>2. CASE PermRestoreReads(r)
    <2>1. PICK p \in Perm : Start(r, [Idle EXCEPT !.pc = "p.restore", !.perm = p])
      BY <1>2 DEF PermRestoreReads
    <2>2. OthersKept(r) /\ req'[r] = [Idle EXCEPT !.pc = "p.restore", !.perm = p]
      BY <2>1, BecomeKeeps DEF Start
    <2> QED
      BY <2>2, IdleAt
  <1>3. CASE PermRemoveDeletes(r)
    <2> DEFINE rows == bindings \cap {req[r].code}
    <2>1. Become(r, [req[r] EXCEPT !.pc = "p.commit", !.rows = rows]) /\ req[r] \in ReqState
      BY <1>3 DEF PermRemoveDeletes, TypeInv, ReqTyped
    <2> HIDE DEF rows
    <2>2. OthersKept(r) /\ req'[r] = [req[r] EXCEPT !.pc = "p.commit", !.rows = rows]
      BY <2>1, BecomeKeeps
    <2> QED
      BY <2>1, <2>2 DEF ReqState
  <1> QED
    BY <1>1, <1>2, <1>3

LEMMA RequestConsistent ==
  ASSUME TypeInv, Books, Consistent, NEW r \in Request, GuardStep(r) \/ GoesOn(r) \/ Asks(r)
  PROVE  Consistent'
  <1>1. CASE At(r, "drop")
    BY <1>1, OnlyDrops, DropsConsistent
  <1>2. CASE ~At(r, "drop")
    <2> SUFFICES ASSUME Calm' PROVE CacheGranted' /\ \A q \in Request : FillGranted(q)'
      BY DEF Consistent
    <2>1. OthersKept(r) /\ (req'[r].pc = "g.fill" => req'[r].codes = Granted /\ GuardLoads(r))
      <3>1. CASE PermCreateReads(r) \/ PermRestoreReads(r) \/ PermRemoveDeletes(r)
        BY <1>2, <3>1, SpecialKeeps
      <3>2. CASE GuardLoads(r)
        BY <3>2, GuardLoadsSlot
      <3>3. CASE Lands(r)
        BY <3>3 DEF Lands, Landing
      <3> QED
        BY <3>1, <3>2, <3>3, AsksLands, GoesOnLands, GuardLands
    <2>2. Granted \subseteq Granted'
      BY GrantsKept DEF Calm, At
    <2>3. Calm
      BY <1>2, <2>1 DEF Calm, OthersKept, SlotKept, At
    <2>4. CacheGranted /\ \A q \in Request : FillGranted(q)
      BY <2>3 DEF Consistent
    <2>5. ASSUME NEW q \in Request PROVE FillGranted(q)'
      <3>1. CASE q = r
        BY <2>1, <2>2, <3>1 DEF FillGranted, At
      <3>2. CASE q # r
        <4>1. SlotKept(q) /\ FillGranted(q)
          BY <2>1, <2>4, <3>2 DEF OthersKept
        <4> QED
          BY <2>2, <4>1 DEF SlotKept, FillGranted, At
      <3> QED
        BY <3>1, <3>2
    <2>6. CacheGranted'
      <3>1. CASE cache' = cache
        BY <2>2, <2>4, <3>1 DEF CacheGranted
      <3>2. CASE At(r, "g.fill") /\ cache'.codes = req[r].codes /\ cache'.suspect = req[r].late
        BY <2>2, <2>4, <3>2 DEF CacheGranted, FillGranted
      <3> QED
        BY <1>2, <3>1, <3>2, CacheSteps
    <2> QED
      BY <2>5, <2>6
  <1> QED
    BY <1>1, <1>2

LEMMA TickConsistent ==
  ASSUME TypeInv, Consistent, Tick
  PROVE  Consistent'
  <1>1. Granted' = Granted /\ (Calm' => Calm) /\ UNCHANGED req
    BY DEF Tick, Granted, Live, Calm, At
  <1>2. \A q \in Request : FillGranted(q) => FillGranted(q)'
    BY <1>1 DEF FillGranted, At
  <1>3. cache' # None => cache # None /\ cache'.codes = cache.codes /\ cache'.suspect = cache.suspect
    <2> SUFFICES ASSUME cache' # None
                 PROVE  cache # None /\ cache'.codes = cache.codes /\ cache'.suspect = cache.suspect
      OBVIOUS
    <2> DEFINE v == cache.ttl - 1
    <2>1. cache # None /\ cache' = [cache EXCEPT !.ttl = v]
      BY DEF Tick
    <2>2. cache \in CacheState
      BY <2>1 DEF TypeInv, DataTyped
    <2> HIDE DEF v
    <2> QED
      BY <2>1, <2>2 DEF CacheState
  <1>4. CacheGranted => CacheGranted'
    BY <1>1, <1>3 DEF CacheGranted
  <1> QED
    BY <1>1, <1>2, <1>4 DEF Consistent

LEMMA StepConsistent == TypeInv /\ Books /\ Consistent /\ [Next]_vars => Consistent'
  <1> SUFFICES ASSUME TypeInv, Books, Consistent, [Next]_vars PROVE Consistent'
    OBVIOUS
  <1>1. CASE RequestStep
    BY <1>1, RequestConsistent DEF RequestStep
  <1>2. CASE Tick
    BY <1>2, TickConsistent
  <1>3. CASE UNCHANGED vars
    BY <1>3 DEF vars, Consistent, Calm, CacheGranted, FillGranted, Granted, Live, At
  <1> QED
    BY <1>1, <1>2, <1>3 DEF Next

\* A back-fill that comes after the deletion and a deletion that fails are the only
\* ways in which the key holds what the database does not grant, once whoever took
\* it away is through: for any number of requests, permissions and codes.
THEOREM StaleIsSuspected == Spec => []NoStaleGrant
  <1>1. Init => TypeInv /\ Books /\ Consistent
    BY InitTyped, InitBooks, InitConsistent
  <1>2. TypeInv /\ Books /\ Consistent /\ [Next]_vars => (TypeInv /\ Books /\ Consistent)'
    BY StepTyped, StepBooks, StepConsistent
  <1>3. Consistent => NoStaleGrant
    BY DEF Consistent, Calm, CacheGranted, NoStaleGrant
  <1> QED
    BY <1>1, <1>2, <1>3, PTL DEF Spec
=============================================================================
