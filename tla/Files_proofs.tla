---------------------------- MODULE Files_proofs ----------------------------
(***************************************************************************)
(* Proofs about the row and the content of a file in the vault, for any    *)
(* number of uploads, removals and restores and of failing steps.          *)
(***************************************************************************)
EXTENDS FileVault, TLAPS

USE VaultAssumption

-----------------------------------------------------------------------------
(* The vault: types.  A request that is about to move content has its trash path. *)
TrashKnown == \A r \in Request : req[r].pc \in {"fetch", "restow"} => req[r].trash # None

VaultTyped == TypeOK /\ TrashKnown

LEMMA BecomeIs ==
  ASSUME VaultTyped, NEW r \in Request, NEW s, Become(r, s)
  PROVE  \A q \in Request : req'[q] = IF q = r THEN s ELSE req[q]
  BY DEF VaultTyped, TypeOK, Become

LEMMA BecomeVault ==
  ASSUME VaultTyped, NEW r \in Request, NEW s \in ReqState, Become(r, s),
         s.pc \in {"fetch", "restow"} => s.trash # None
  PROVE  req' \in [Request -> ReqState] /\ TrashKnown'
  <1>1. req' \in [Request -> ReqState]
    BY DEF VaultTyped, TypeOK, Become
  <1>2. TrashKnown'
    BY BecomeIs DEF VaultTyped, TrashKnown
  <1> QED
    BY <1>1, <1>2

VaultPc == {"idle", "done"} \cup UploadPc \cup RemovePc \cup RestorePc

LEMMA GotoIs ==
  ASSUME VaultTyped, NEW r \in Request, NEW pc \in VaultPc, Goto(r, pc)
  PROVE  /\ req'[r].pc = pc /\ req'[r].trash = req[r].trash /\ req'[r].age = req[r].age
         /\ \A q \in Request \ {r} : req'[q] = req[q]
         /\ req' \in [Request -> ReqState]
         /\ (pc \in {"fetch", "restow"} => req[r].trash # None) => TrashKnown'
  <1> DEFINE s == [req[r] EXCEPT !.pc = pc, !.copied = FALSE]
  <1>1. req[r] \in ReqState
    BY DEF VaultTyped, TypeOK
  <1>2. s \in ReqState /\ s.pc = pc /\ s.trash = req[r].trash /\ s.age = req[r].age
    BY <1>1 DEF ReqState, VaultPc
  <1>3. Become(r, s)
    BY DEF Goto
  <1> HIDE DEF s
  <1>4. \A q \in Request : req'[q] = IF q = r THEN s ELSE req[q]
    BY <1>3, BecomeIs
  <1>5. req' \in [Request -> ReqState]
    BY <1>2, <1>3 DEF VaultTyped, TypeOK, Become
  <1>6. (pc \in {"fetch", "restow"} => req[r].trash # None) => TrashKnown'
    BY <1>2, <1>4 DEF VaultTyped, TrashKnown
  <1> QED
    BY <1>2, <1>4, <1>5, <1>6

Ages == Age \cup {"absent"}

(* What a move does: its request stays or goes on, content leaves `from' and may
   arrive at `to', and nothing else changes; nothing moves that is not there.   *)
Moved(r, from, to, pcs) ==
  /\ disk' \in [Place -> Ages]
  /\ \A p \in Place \ {from, to} : disk'[p] = disk[p]
  /\ disk'[from] \in {disk[from], "absent"}
  /\ disk'[to] \in {disk[to], disk[from], "fresh"}
  /\ ~Present(from) => disk' = disk
  /\ req'[r].pc \in {req[r].pc} \cup pcs
  /\ req'[r].trash = req[r].trash /\ req'[r].age = req[r].age
  /\ \A q \in Request \ {r} : req'[q] = req[q]
  /\ req' \in [Request -> ReqState] /\ TrashKnown'

LEMMA MoveIs ==
  ASSUME VaultTyped, NEW r \in Request, NEW from \in Place, NEW to \in Place, from # to,
         NEW moved \in VaultPc \ {"fetch", "restow"}, NEW failed \in VaultPc \ {"fetch", "restow"},
         Move(r, from, to, moved, failed)
  PROVE  Moved(r, from, to, {moved, failed})
  <1>0. disk \in [Place -> Ages] /\ "fresh" \in Ages /\ "absent" \in Ages /\ disk[from] \in Ages
    BY DEF VaultTyped, TypeOK, Ages, Age
  <1>1. CASE ~Present(from) /\ Goto(r, failed) /\ UNCHANGED disk
    BY <1>0, <1>1, GotoIs DEF Moved
  <1>2. CASE /\ Present(from) /\ Goto(r, moved)
             /\ disk' = [disk EXCEPT ![to] = disk[from], ![from] = "absent"]
    <2>1. /\ disk' \in [Place -> Ages] /\ disk'[from] = "absent" /\ disk'[to] = disk[from]
          /\ \A p \in Place \ {from, to} : disk'[p] = disk[p]
      BY <1>0, <1>2
    <2> QED
      BY <1>2, <2>1, GotoIs DEF Moved
  <1>3. CASE /\ Present(from) /\ disk' = [disk EXCEPT ![to] = "fresh"]
             /\ Become(r, [req[r] EXCEPT !.copied = TRUE])
    <2> DEFINE s == [req[r] EXCEPT !.copied = TRUE]
    <2>1. req[r] \in ReqState
      BY DEF VaultTyped, TypeOK
    <2>2. s \in ReqState /\ s.pc = req[r].pc /\ s.trash = req[r].trash /\ s.age = req[r].age
      BY <2>1 DEF ReqState
    <2>3. Become(r, s) /\ (s.pc \in {"fetch", "restow"} => s.trash # None)
      BY <1>3, <2>2 DEF VaultTyped, TrashKnown
    <2> HIDE DEF s
    <2>4. /\ \A q \in Request : req'[q] = IF q = r THEN s ELSE req[q]
          /\ req' \in [Request -> ReqState] /\ TrashKnown'
      BY <2>2, <2>3, BecomeIs, BecomeVault
    <2>5. /\ disk' \in [Place -> Ages] /\ disk'[from] = disk[from] /\ disk'[to] = "fresh"
          /\ \A p \in Place \ {from, to} : disk'[p] = disk[p]
      BY <1>0, <1>3
    <2> QED
      BY <1>3, <2>2, <2>4, <2>5 DEF Moved
  <1>4. CASE Present(from) /\ Unlink(from) /\ Goto(r, moved)
    <2>1. /\ disk' \in [Place -> Ages] /\ disk'[from] = "absent" /\ disk'[to] = disk[to]
          /\ \A p \in Place \ {from, to} : disk'[p] = disk[p]
      BY <1>0, <1>4 DEF Unlink
    <2> QED
      BY <1>4, <2>1, GotoIs DEF Moved
  <1> QED
    BY <1>1, <1>2, <1>3, <1>4 DEF Move

-----------------------------------------------------------------------------
(* What a step of a request does to its slot, to the row and to the contents. A
   request that has begun, and has a removal's lock behind it, never locks again:
   its trash name is written by itself, or by a restore that found it in the row. *)
Begun(r) == req[r].pc \notin {"idle", "lock"}

VaultStep(r) == UploadStep(r) \/ RemoveStep(r) \/ RestoreStep(r) \/ StepFails(r)

Slot(r) ==
  /\ \A q \in Request \ {r} : req'[q] = req[q]
  /\ req' \in [Request -> ReqState] /\ TrashKnown'
  /\ req'[r].trash \in {req[r].trash, row.trash, None}
  /\ Begun(r) => Begun(r)'
  /\ req'[r].pc \in UploadPc => req[r].pc \in UploadPc \/ StartUpload(r)

RowMoves(r) ==
  /\ row' \in Row
  /\ row'.trash \in {row.trash, None} \/ (row'.trash = r /\ At(r, "lock") /\ Begun(r)')
  /\ \/ row'.state = row.state
     \/ InsertRow(r)
     \/ {row.state, row'.state} \subseteq {"live", "trashed"}

DiskMoves(r) ==
  /\ disk' \in [Place -> Ages]
  /\ \A p \in Name : Present(p)' => \/ Present(p)
                                    \/ p = r /\ Begun(r)
                                    \/ p = req[r].trash

RequestMoves(r) ==
  Slot(r) /\ RowMoves(r) /\ DiskMoves(r) /\ UNCHANGED <<cleaner, purger, crossVolume>>

LEMMA RowStays ==
  ASSUME VaultTyped, UNCHANGED row, NEW r \in Request
  PROVE  RowMoves(r)
  BY DEF VaultTyped, TypeOK, RowMoves

LEMMA DiskStays ==
  ASSUME VaultTyped, UNCHANGED disk, NEW r \in Request
  PROVE  DiskMoves(r)
  BY DEF VaultTyped, TypeOK, DiskMoves, Ages, Present

LEMMA GotoSlot ==
  ASSUME VaultTyped, NEW r \in Request, NEW pc \in VaultPc \ {"idle", "lock", "restow", "fetch"},
         pc \in UploadPc => req[r].pc \in UploadPc, Goto(r, pc)
  PROVE  Slot(r)
  BY GotoIs DEF Slot, Begun

LEMMA PlacesDiffer ==
  /\ "uploads" \in Place /\ "uploads" \notin Name /\ Name \subseteq Place /\ Request \subseteq Name
  /\ None \notin Name
  BY DEF Place, Name

LEMMA MovedSlot ==
  ASSUME VaultTyped, NEW r \in Request, NEW from \in Place, NEW to \in Place, Begun(r),
         req[r].pc \notin UploadPc,
         NEW pcs \in SUBSET (VaultPc \ ({"idle", "lock"} \cup UploadPc)), Moved(r, from, to, pcs)
  PROVE  Slot(r)
  BY DEF Moved, Slot, Begun

LEMMA MovedDisk ==
  ASSUME VaultTyped, NEW r \in Request, NEW from \in Place, NEW to \in Place, NEW pcs,
         Moved(r, from, to, pcs),
         to = "uploads" \/ (to = r /\ Begun(r)) \/ to = req[r].trash
  PROVE  DiskMoves(r)
  BY PlacesDiffer DEF Moved, DiskMoves, Present

LEMMA UploadMoves ==
  ASSUME VaultTyped, NEW r \in Request, UploadStep(r)
  PROVE  RequestMoves(r)
  <1>1. CASE StartUpload(r)
    <2>1. Goto(r, "validate") /\ At(r, "idle")
      BY <1>1 DEF StartUpload
    <2>2. Slot(r)
      BY <1>1, <2>1, GotoIs DEF Slot, Begun, VaultPc, UploadPc, At
    <2>3. disk' \in [Place -> Ages] /\ \A p \in Name : disk'[p] = disk[p]
      BY <1>1, PlacesDiffer DEF StartUpload, VaultTyped, TypeOK, Ages, Age
    <2>4. DiskMoves(r)
      BY <2>3 DEF DiskMoves, Present
    <2> QED
      BY <1>1, <2>2, <2>4, RowStays DEF StartUpload, RequestMoves, env
  <1>2. CASE Validate(r)
    <2>1. Slot(r)
      BY <1>2, GotoSlot DEF Validate, VaultPc, UploadPc, At
    <2> QED
      BY <1>2, <2>1, RowStays, DiskStays DEF Validate, RequestMoves, env
  <1>3. CASE InsertRow(r)
    <2>1. Slot(r)
      BY <1>3, GotoSlot DEF InsertRow, Done, VaultPc, UploadPc, At
    <2>2. row' = [row EXCEPT !.state = "live"] /\ row \in Row
      BY <1>3 DEF InsertRow, VaultTyped, TypeOK
    <2>3. row' \in Row /\ row'.trash = row.trash
      BY <2>2 DEF Row
    <2> QED
      BY <1>3, <2>1, <2>3, DiskStays DEF InsertRow, RequestMoves, RowMoves, env
  <1>4. CASE Discard(r)
    <2>1. Slot(r)
      BY <1>4, GotoSlot DEF Discard, Done, VaultPc, UploadPc, At
    <2>2. disk' \in [Place -> Ages] /\ \A p \in Name : disk'[p] = disk[p]
      BY <1>4, PlacesDiffer DEF Discard, Unlink, VaultTyped, TypeOK, Ages, Age
    <2>3. DiskMoves(r)
      BY <2>2 DEF DiskMoves, Present
    <2> QED
      BY <1>4, <2>1, <2>3, RowStays DEF Discard, RequestMoves, env
  <1> QED
    BY <1>1, <1>2, <1>3, <1>4 DEF UploadStep

LEMMA RemoveMoves ==
  ASSUME VaultTyped, NEW r \in Request, RemoveStep(r)
  PROVE  RequestMoves(r)
  <1> USE DEF VaultPc, UploadPc, RemovePc, RestorePc
  <1>1. CASE StartRemove(r)
    <2>1. Slot(r)
      BY <1>1, GotoIs DEF StartRemove, Slot, Begun, At
    <2> QED
      BY <1>1, <2>1, RowStays, DiskStays DEF StartRemove, RequestMoves, env
  <1>2. CASE Lock(r)
    <2>1. Slot(r) /\ At(r, "lock") /\ Begun(r)'
      BY <1>2, GotoSlot, GotoIs DEF Lock, Done, Begun
    <2>2. RowMoves(r)
      <3>1. CASE row' = [state |-> "trashed", trash |-> r, age |-> "fresh"] /\ row.state = "live"
        <4>1. row' \in Row /\ row'.trash = r /\ row'.state = "trashed"
          BY <3>1, PlacesDiffer DEF Row, Age
        <4> QED
          BY <2>1, <3>1, <4>1 DEF RowMoves
      <3> QED
        BY <1>2, <3>1, RowStays DEF Lock
    <2> QED
      BY <1>2, <2>1, <2>2, DiskStays DEF Lock, RequestMoves, env
  <1>3. CASE Verify(r)
    <2>1. Slot(r)
      BY <1>3, GotoSlot DEF Verify, Done
    <2> QED
      BY <1>3, <2>1, RowStays, DiskStays DEF Verify, RequestMoves, env
  <1>4. CASE Stow(r)
    <2>1. Moved(r, "uploads", r, {"recheckRemoved", "done"}) /\ Begun(r) /\ req[r].pc = "stow"
      BY <1>4, MoveIs, PlacesDiffer DEF Stow, Begun, At
    <2> QED
      BY <1>4, <2>1, MovedSlot, MovedDisk, PlacesDiffer, RowStays DEF Stow, RequestMoves, env
  <1>5. CASE RecheckRemoved(r)
    <2>1. Slot(r)
      BY <1>5, GotoSlot DEF RecheckRemoved, Done
    <2> QED
      BY <1>5, <2>1, RowStays, DiskStays DEF RecheckRemoved, RequestMoves, env
  <1>6. CASE Unstow(r)
    <2>1. Moved(r, r, "uploads", {"done"}) /\ Begun(r) /\ req[r].pc = "unstow"
      BY <1>6, MoveIs, PlacesDiffer DEF Unstow, Compensate, Begun, At
    <2> QED
      BY <1>6, <2>1, MovedSlot, MovedDisk, PlacesDiffer, RowStays DEF Unstow, RequestMoves, env
  <1> QED
    BY <1>1, <1>2, <1>3, <1>4, <1>5, <1>6 DEF RemoveStep

LEMMA RowStateMoves ==
  ASSUME VaultTyped, NEW r \in Request, NEW s \in {"live", "trashed"}, NEW a \in Age,
         row.state \in {"live", "trashed"}, row' = [row EXCEPT !.state = s, !.age = a]
  PROVE  RowMoves(r)
  <1>1. row \in Row
    BY DEF VaultTyped, TypeOK
  <1>2. row' \in Row /\ row'.trash = row.trash /\ row'.state = s
    BY <1>1 DEF Row
  <1> QED
    BY <1>2 DEF RowMoves

LEMMA RestoreMoves ==
  ASSUME VaultTyped, NEW r \in Request, RestoreStep(r)
  PROVE  RequestMoves(r)
  <1> USE DEF VaultPc, UploadPc, RemovePc, RestorePc
  <1>0. req[r] \in ReqState /\ row \in Row /\ row.trash \in Name \cup {None} /\ row.age \in Age
    BY DEF VaultTyped, TypeOK, Row
  <1>1. CASE StartRestore(r)
    <2> DEFINE trash == row.trash
               age == row.age
               s == [Idle EXCEPT !.pc = "unlock", !.trash = trash, !.age = age]
    <2>1. Become(r, s)
      BY <1>1 DEF StartRestore
    <2>2. trash \in Name \cup {None} /\ age \in Age
      BY <1>0
    <2>3. SUFFICES Slot(r)
      BY <1>1, RowStays, DiskStays DEF StartRestore, RequestMoves, env
    <2>4. row.trash = trash
      OBVIOUS
    <2> HIDE DEF trash, age
    <2>5. s \in ReqState /\ s.pc = "unlock" /\ s.trash = trash
      BY <2>2 DEF Idle, ReqState
    <2> HIDE DEF s
    <2>6. \A q \in Request : req'[q] = IF q = r THEN s ELSE req[q]
      BY <2>1, BecomeIs
    <2>7. req' \in [Request -> ReqState] /\ TrashKnown'
      BY <2>1, <2>5, BecomeVault
    <2> QED
      BY <2>4, <2>5, <2>6, <2>7 DEF Slot, Begun
  <1>2. CASE Unlock(r)
    <2>1. Slot(r)
      <3>1. CASE Goto(r, "fetch") /\ req[r].trash # None
        BY <1>2, <3>1, GotoIs DEF Slot, Begun
      <3>2. CASE Done(r)
        BY <3>2, GotoSlot DEF Done
      <3> QED
        BY <1>2, <3>1, <3>2 DEF Unlock
    <2>2. RowMoves(r)
      BY <1>2, RowStays, RowStateMoves DEF Unlock, Age
    <2> QED
      BY <1>2, <2>1, <2>2, DiskStays DEF Unlock, RequestMoves, env
  <1>3. CASE Fetch(r)
    <2>1. req[r].trash \in Name /\ req[r].pc = "fetch" /\ Begun(r)
      BY <1>0, <1>3 DEF Fetch, At, VaultTyped, TrashKnown, ReqState, Begun
    <2>2. Moved(r, req[r].trash, "uploads", {"clear", "probe"})
      BY <1>3, <2>1, MoveIs, PlacesDiffer DEF Fetch
    <2> QED
      BY <1>3, <2>1, <2>2, MovedSlot, MovedDisk, PlacesDiffer, RowStays DEF Fetch, RequestMoves, env
  <1>4. CASE Probe(r)
    <2>1. Slot(r)
      BY <1>4, GotoSlot DEF Probe
    <2> QED
      BY <1>4, <2>1, RowStays, DiskStays DEF Probe, RequestMoves, env
  <1>5. CASE Rollback(r)
    <2>1. Slot(r)
      BY <1>5, GotoSlot DEF Rollback, Done
    <2>2. RowMoves(r)
      BY <1>0, <1>5, RowStays, RowStateMoves DEF Rollback, ReqState
    <2> QED
      BY <1>5, <2>1, <2>2, DiskStays DEF Rollback, RequestMoves, env
  <1>6. CASE ClearTrashPath(r)
    <2>1. Slot(r)
      BY <1>6, GotoSlot DEF ClearTrashPath
    <2>2. RowMoves(r)
      <3>1. CASE row' = [row EXCEPT !.trash = None]
        <4>1. row' \in Row /\ row'.trash = None /\ row'.state = row.state
          BY <1>0, <3>1 DEF Row
        <4> QED
          BY <4>1 DEF RowMoves
      <3> QED
        BY <1>6, <3>1, RowStays DEF ClearTrashPath
    <2> QED
      BY <1>6, <2>1, <2>2, DiskStays DEF ClearTrashPath, RequestMoves, env
  <1>7. CASE RecheckRestored(r)
    <2>1. SUFFICES Slot(r)
      BY <1>7, RowStays, DiskStays DEF RecheckRestored, RequestMoves, env
    <2>2. CASE Done(r)
      BY <2>2, GotoSlot DEF Done
    <2>3. CASE ~Done(r)
      <3> DEFINE trash == row.trash
                 s == [req[r] EXCEPT !.pc = "restow", !.trash = trash]
      <3>1. Become(r, s) /\ trash # None /\ trash = row.trash /\ At(r, "recheckRestored")
        BY <1>7, <2>3 DEF RecheckRestored
      <3>2. trash \in Name
        BY <1>0, <3>1
      <3> HIDE DEF trash
      <3>3. s \in ReqState /\ s.pc = "restow" /\ s.trash = trash
        BY <1>0, <3>2 DEF ReqState
      <3> HIDE DEF s
      <3>4. \A q \in Request : req'[q] = IF q = r THEN s ELSE req[q]
        BY <3>1, BecomeIs
      <3>5. req' \in [Request -> ReqState] /\ TrashKnown'
        BY <3>1, <3>3, BecomeVault
      <3> QED
        BY <3>1, <3>3, <3>4, <3>5 DEF Slot, Begun
    <2> QED
      BY <2>2, <2>3
  <1>8. CASE Restow(r)
    <2>1. req[r].trash \in Name /\ req[r].pc = "restow" /\ Begun(r)
      BY <1>0, <1>8 DEF Restow, At, VaultTyped, TrashKnown, ReqState, Begun
    <2>2. Moved(r, "uploads", req[r].trash, {"done"})
      BY <1>8, <2>1, MoveIs, PlacesDiffer DEF Restow, Compensate
    <2> QED
      BY <1>8, <2>1, <2>2, MovedSlot, MovedDisk, PlacesDiffer, RowStays DEF Restow, RequestMoves, env
  <1> QED
    BY <1>1, <1>2, <1>3, <1>4, <1>5, <1>6, <1>7, <1>8 DEF RestoreStep

LEMMA FailureMoves ==
  ASSUME VaultTyped, NEW r \in Request, StepFails(r)
  PROVE  RequestMoves(r)
  <1>1. req[r].pc \in {"restart"} \cup RemovePc \cup RestorePc \cup UploadPc
    BY DEF StepFails, Fault
  <1>2. /\ Recovery(req[r].pc) \in VaultPc \ {"idle", "lock", "restow", "fetch"}
        /\ Recovery(req[r].pc) \in UploadPc => req[r].pc \in UploadPc
    BY <1>1 DEF Recovery, VaultPc, UploadPc, RemovePc, RestorePc
  <1>3. Slot(r)
    BY <1>2, GotoSlot DEF StepFails
  <1> QED
    BY <1>3, RowStays, DiskStays DEF StepFails, RequestMoves, Fault

LEMMA StepMoves ==
  ASSUME VaultTyped, NEW r \in Request, VaultStep(r)
  PROVE  RequestMoves(r)
  BY UploadMoves, RemoveMoves, RestoreMoves, FailureMoves DEF VaultStep

LEMMA HistoryVault ==
  ASSUME VaultTyped, NEW r \in Request, VaultStep(r)
  PROVE  excuses' \subseteq Excuse /\ faults' \in 0..MaxFaults
  <1>0. excuses \subseteq Excuse /\ faults \in 0..MaxFaults /\ MaxFaults \in Nat
    BY DEF VaultTyped, TypeOK
  <1>1. faults' = faults \/ (faults < MaxFaults /\ faults' = faults + 1)
    BY DEF VaultStep, UploadStep, StartUpload, Validate, InsertRow, Discard, RemoveStep, StartRemove,
       Lock, Verify, Stow, RecheckRemoved, Unstow, RestoreStep, StartRestore, Unlock, Fetch, Probe,
       Rollback, ClearTrashPath, RecheckRestored, Restow, StepFails, Fault, env
  <1>2. excuses' \subseteq excuses \cup {"reported"}
    BY DEF VaultStep, UploadStep, StartUpload, Validate, InsertRow, Discard, RemoveStep, StartRemove,
       Lock, Verify, Stow, RecheckRemoved, Unstow, RestoreStep, StartRestore, Unlock, Fetch, Probe,
       Rollback, ClearTrashPath, RecheckRestored, Restow, StepFails, Compensate
  <1> QED
    BY <1>0, <1>1, <1>2 DEF Excuse

LEMMA VaultInit == Init => VaultTyped
  <1> SUFFICES ASSUME Init PROVE VaultTyped
    OBVIOUS
  <1>1. PICK state \in {"none", "live", "trashed"}, p \in {"uploads", Earlier}, a \in Age :
          /\ row = [state |-> state, trash |-> IF state = "trashed" THEN Earlier ELSE None,
                    age |-> "fresh"]
          /\ disk = [q \in Place |-> IF q = p /\ state # "none" THEN a ELSE "absent"]
    BY DEF Init
  <1>2. row \in Row
    BY <1>1 DEF Row, Name, Age
  <1>3. disk \in [Place -> Age \cup {"absent"}]
    BY <1>1
  <1>4. Idle \in ReqState /\ Idle.pc = "idle"
    BY DEF Idle, ReqState, Age
  <1>5. cleaner \in [pc : CleanerPc, marked : SUBSET Place] /\ purger \in [pc : PurgerPc, marked : SUBSET Place]
    BY DEF Init, Rest, CleanerPc, PurgerPc
  <1>6. crossVolume \in BOOLEAN /\ faults \in 0..MaxFaults
    BY DEF Init
  <1> QED
    BY <1>2, <1>3, <1>4, <1>5, <1>6 DEF Init, VaultTyped, TypeOK, TrashKnown

LEMMA Swept ==
  ASSUME VaultTyped, NEW S, disk' = [p \in Place |-> IF p \in S THEN "absent" ELSE disk[p]]
  PROVE  disk' \in [Place -> Ages]
  BY DEF VaultTyped, TypeOK, Ages

LEMMA CleanerTyped ==
  ASSUME VaultTyped, CleanerStep
  PROVE  VaultTyped'
  <1>0. disk \in [Place -> Ages] /\ cleaner.marked \in SUBSET Place
    BY DEF VaultTyped, TypeOK, Ages
  <1>1. UNCHANGED <<row, req, purger, env>>
    BY DEF CleanerStep, ListUploads, MatchUploads, SweepUploads, ListTrash, MatchTrash, SweepTrash
  <1>2. disk' \in [Place -> Ages]
    BY <1>0, Swept DEF CleanerStep, ListUploads, MatchUploads, SweepUploads, ListTrash, MatchTrash,
       SweepTrash
  <1>3. cleaner' \in [pc : CleanerPc, marked : SUBSET Place]
    <2>1. \E pc \in CleanerPc, m \in SUBSET Place : cleaner' = [pc |-> pc, marked |-> m]
      <3>1. CASE ListUploads
        <4> DEFINE m == {p \in {"uploads"} : disk[p] \in {"hour", "month"}}
        <4>1. cleaner' = [pc |-> "matchUploads", marked |-> m] /\ m \in SUBSET Place
          BY <3>1, PlacesDiffer DEF ListUploads
        <4> QED
          BY <4>1 DEF CleanerPc
      <3>2. CASE MatchUploads
        BY <1>0, <3>2 DEF MatchUploads, CleanerPc
      <3>3. CASE SweepUploads
        BY <3>3 DEF SweepUploads, CleanerPc
      <3>4. CASE ListTrash
        <4> DEFINE m == {p \in Name : disk[p] = "month"}
        <4>1. cleaner' = [pc |-> "matchTrash", marked |-> m] /\ m \in SUBSET Place
          BY <3>4, PlacesDiffer DEF ListTrash
        <4> QED
          BY <4>1 DEF CleanerPc
      <3>5. CASE MatchTrash
        <4> DEFINE m == cleaner.marked \ (IF HasRow THEN {row.trash} ELSE {})
        <4>1. cleaner' = [pc |-> "sweepTrash", marked |-> m] /\ m \in SUBSET Place
          BY <1>0, <3>5 DEF MatchTrash
        <4> QED
          BY <4>1 DEF CleanerPc
      <3>6. CASE SweepTrash
        BY <3>6 DEF SweepTrash, Rest, CleanerPc
      <3> QED
        BY <3>1, <3>2, <3>3, <3>4, <3>5, <3>6 DEF CleanerStep
    <2> QED
      BY <2>1
  <1>4. excuses' \subseteq Excuse
    <2>1. excuses \subseteq Excuse
      BY DEF VaultTyped, TypeOK
    <2>2. excuses' \subseteq excuses \cup {"swept"}
      BY DEF CleanerStep, ListUploads, MatchUploads, SweepUploads, ListTrash, MatchTrash, SweepTrash
    <2> QED
      BY <2>1, <2>2 DEF Excuse
  <1> QED
    BY <1>1, <1>2, <1>3, <1>4 DEF VaultTyped, TypeOK, TrashKnown, env, Ages

LEMMA PurgerTyped ==
  ASSUME VaultTyped, PurgerStep
  PROVE  VaultTyped'
  <1>0. /\ disk \in [Place -> Ages] /\ row \in Row
        /\ purger \in [pc : PurgerPc, marked : SUBSET Place]
    BY DEF VaultTyped, TypeOK, Ages
  <1>1. CASE PurgeRow
    <2>1. row' \in Row
      BY <1>0, <1>1 DEF PurgeRow, Row
    <2>2. purger' \in [pc : PurgerPc, marked : SUBSET Place]
      <3> DEFINE m == {row.trash, "uploads"} \ {None}
      <3>1. m \in SUBSET Place
        BY <1>0, PlacesDiffer DEF Row
      <3>2. purger' = [pc |-> "unlink", marked |-> m] \/ purger' = Rest
        BY <1>1 DEF PurgeRow
      <3> HIDE DEF m
      <3> QED
        BY <3>1, <3>2 DEF Rest, PurgerPc
    <2> QED
      BY <1>1, <2>1, <2>2 DEF PurgeRow, VaultTyped, TypeOK, TrashKnown, env
  <1>2. CASE PurgeContent
    <2>1. PICK p \in purger.marked : /\ disk' = [disk EXCEPT ![p] = "absent"]
                                     /\ purger' = IF purger.marked = {p} THEN Rest
                                                  ELSE [purger EXCEPT !.marked = @ \ {p}]
      BY <1>2 DEF PurgeContent, Unlink
    <2>2. purger' \in [pc : PurgerPc, marked : SUBSET Place]
      BY <1>0, <2>1 DEF Rest, PurgerPc
    <2>3. disk' \in [Place -> Ages]
      BY <1>0, <2>1 DEF Ages
    <2> QED
      BY <1>2, <2>2, <2>3 DEF PurgeContent, VaultTyped, TypeOK, TrashKnown, env, Ages
  <1> QED
    BY <1>1, <1>2 DEF PurgerStep

LEMMA OlderAge ==
  /\ \A a \in Age : Older[a] \in Age
  /\ Older["absent"] = "absent"
  BY DEF Older, Age

LEMMA TimeTyped ==
  ASSUME VaultTyped, TimePasses
  PROVE  VaultTyped'
  <1>0. disk \in [Place -> Ages] /\ row \in Row
    BY DEF VaultTyped, TypeOK, Ages
  <1>1. \A a \in Ages : Older[a] \in Ages
    BY OlderAge DEF Ages
  <1>2. disk' \in [Place -> Ages]
    BY <1>0, <1>1 DEF TimePasses
  <1>3. row' \in Row
    <2> DEFINE a == Older[row.age]
    <2>1. a \in Age
      BY <1>0, OlderAge DEF Row
    <2>2. row' = row \/ row' = [row EXCEPT !.age = a]
      BY DEF TimePasses
    <2> HIDE DEF a
    <2> QED
      BY <1>0, <2>1, <2>2 DEF Row
  <1>4. /\ cleaner' \in [pc : CleanerPc, marked : SUBSET Place]
        /\ purger' \in [pc : PurgerPc, marked : SUBSET Place]
    BY DEF TimePasses, Rest, CleanerPc, PurgerPc
  <1> QED
    BY <1>2, <1>3, <1>4 DEF TimePasses, VaultTyped, TypeOK, TrashKnown, env, Ages

\* A restart ends every request that has been sent, and the jobs.
LEMMA RestartIs ==
  ASSUME VaultTyped, Restart
  PROVE  /\ req' \in [Request -> ReqState]
         /\ \A q \in Request : /\ req'[q].pc = IF At(q, "idle") THEN "idle" ELSE "done"
                               /\ req'[q].trash = req[q].trash
         /\ cleaner' = Rest /\ purger' = Rest /\ UNCHANGED <<row, disk>>
  <1>1. ASSUME NEW q \in Request
        PROVE  LET s == IF At(q, "idle") THEN req[q] ELSE [req[q] EXCEPT !.pc = "done"]
               IN s \in ReqState /\ s.pc = (IF At(q, "idle") THEN "idle" ELSE "done")
                                 /\ s.trash = req[q].trash
    <2>1. req[q] \in ReqState
      BY DEF VaultTyped, TypeOK
    <2> QED
      BY <2>1 DEF ReqState, At
  <1> QED
    BY <1>1 DEF Restart

LEMMA RestartTyped ==
  ASSUME VaultTyped, Restart
  PROVE  VaultTyped'
  <1>1. /\ cleaner' \in [pc : CleanerPc, marked : SUBSET Place]
        /\ purger' \in [pc : PurgerPc, marked : SUBSET Place]
    BY DEF Restart, Rest, CleanerPc, PurgerPc
  <1>2. TrashKnown'
    BY RestartIs DEF TrashKnown
  <1>3. excuses' \subseteq Excuse
    <2>1. excuses \subseteq Excuse
      BY DEF VaultTyped, TypeOK
    <2>2. excuses' \subseteq excuses \cup {"restart"}
      BY DEF Restart
    <2> QED
      BY <2>1, <2>2 DEF Excuse
  <1>4. faults' \in 0..MaxFaults
    BY DEF Restart, Fault, VaultTyped, TypeOK
  <1>5. crossVolume' = crossVolume
    BY DEF Restart, Fault
  <1> QED
    BY <1>1, <1>2, <1>3, <1>4, <1>5, RestartIs DEF VaultTyped, TypeOK

LEMMA StepVaultTyped == VaultTyped /\ [Next]_vars => VaultTyped'
  <1> SUFFICES ASSUME VaultTyped, [Next]_vars PROVE VaultTyped'
    OBVIOUS
  <1>1. ASSUME NEW r \in Request, VaultStep(r) PROVE VaultTyped'
    <2>1. RequestMoves(r) /\ excuses' \subseteq Excuse /\ faults' \in 0..MaxFaults
      BY <1>1, StepMoves, HistoryVault
    <2> QED
      BY <2>1 DEF RequestMoves, Slot, RowMoves, DiskMoves, VaultTyped, TypeOK, Ages
  <1>2. CASE UNCHANGED vars
    BY <1>2 DEF vars, env, VaultTyped, TypeOK, TrashKnown
  <1> QED
    BY <1>1, <1>2, CleanerTyped, PurgerTyped, TimeTyped, RestartTyped DEF Next, VaultStep

-----------------------------------------------------------------------------
(* What the cleaner may trust.  Content that is an hour old is nobody's upload,
   because no hour passes while one is under way; a trash name is written only
   after its removal has locked, which it does once, so that a name found in the
   trash never becomes the row's again; and a row that is gone does not return.  *)
UploadsAlone ==
  /\ \A r \in Request : req[r].pc \in UploadPc => row.state = "none" /\ disk["uploads"] = "fresh"
  /\ \A r, s \in Request : req[r].pc \in UploadPc /\ req[s].pc \in UploadPc => r = s

NothingYet ==
  row.state = "none" =>
    /\ row.trash = None
    /\ \A p \in Name : ~Present(p)
    /\ \A r \in Request : req[r].pc \in {"idle", "done"} \cup UploadPc

NamesOnce ==
  /\ \A r \in Request : Present(r) \/ row.trash = r \/ r \in cleaner.marked => Begun(r)
  /\ \A q, r \in Request : req[q].trash = r => Begun(r)

PurgedGone == purger.pc = "unlink" => row.state = "purged"

MarksListed ==
  /\ cleaner.pc \in {"matchUploads", "sweepUploads"} => cleaner.marked \subseteq {"uploads"}
  /\ cleaner.pc \in {"matchTrash", "sweepTrash"} => cleaner.marked \subseteq Name
  /\ cleaner.pc \in {"idle", "listUploads", "listTrash"} => cleaner.marked = {}

MarksOrphaned ==
  /\ row.state = "none" /\ "uploads" \in cleaner.marked => disk["uploads"] \in {"hour", "month"}
  /\ cleaner.pc = "sweepUploads" /\ "uploads" \in cleaner.marked => ~HasRow
  /\ cleaner.pc = "sweepTrash" /\ HasRow => row.trash \notin cleaner.marked

VaultInv ==
  VaultTyped /\ UploadsAlone /\ NothingYet /\ NamesOnce /\ PurgedGone /\ MarksListed /\ MarksOrphaned

LEMMA VaultInitInv == Init => VaultInv
  <1> SUFFICES ASSUME Init PROVE VaultInv
    OBVIOUS
  <1>1. VaultTyped
    BY VaultInit
  <1>2. PICK state \in {"none", "live", "trashed"}, p \in {"uploads", Earlier}, a \in Age :
          /\ p = Earlier => state = "trashed"
          /\ row = [state |-> state, trash |-> IF state = "trashed" THEN Earlier ELSE None,
                    age |-> "fresh"]
          /\ disk = [q \in Place |-> IF q = p /\ state # "none" THEN a ELSE "absent"]
    BY DEF Init
  <1>3. /\ row.state = state /\ row.trash = IF state = "trashed" THEN Earlier ELSE None
        /\ \A q \in Place : disk[q] = IF q = p /\ state # "none" THEN a ELSE "absent"
    BY <1>2
  <1>4. \A r \in Request : req[r].pc = "idle" /\ req[r].trash = None
    BY DEF Init, Idle
  <1>5. cleaner.pc = "idle" /\ cleaner.marked = {} /\ purger.pc = "idle"
    BY DEF Init, Rest
  <1>6. UploadsAlone
    BY <1>4 DEF UploadsAlone, UploadPc
  <1>7. NothingYet
    BY <1>3, <1>4, PlacesDiffer DEF NothingYet, Present
  <1>8. NamesOnce
    BY <1>3, <1>4, <1>5, PlacesDiffer DEF NamesOnce, Present
  <1>9. PurgedGone /\ MarksListed /\ MarksOrphaned
    BY <1>5 DEF PurgedGone, MarksListed, MarksOrphaned
  <1> QED
    BY <1>1, <1>6, <1>7, <1>8, <1>9 DEF VaultInv

LEMMA RequestNames ==
  ASSUME VaultInv, NEW r \in Request, RequestMoves(r)
  PROVE  NamesOnce'
  <1>1. \A x \in Request : Begun(x) => Begun(x)'
    BY DEF RequestMoves, Slot, Begun
  <1>2. ASSUME NEW x \in Request, Present(x)' PROVE Begun(x)'
    BY <1>1, <1>2, PlacesDiffer DEF RequestMoves, DiskMoves, VaultInv, NamesOnce
  <1>3. ASSUME NEW x \in Request, row'.trash = x PROVE Begun(x)'
    BY <1>1, <1>3, PlacesDiffer DEF RequestMoves, RowMoves, VaultInv, NamesOnce
  <1>4. ASSUME NEW x \in Request, x \in cleaner'.marked PROVE Begun(x)'
    BY <1>1, <1>4 DEF RequestMoves, VaultInv, NamesOnce
  <1>5. ASSUME NEW q \in Request, NEW x \in Request, req'[q].trash = x PROVE Begun(x)'
    BY <1>1, <1>5, PlacesDiffer DEF RequestMoves, Slot, VaultInv, NamesOnce
  <1> QED
    BY <1>2, <1>3, <1>4, <1>5 DEF NamesOnce

\* While there is no row only uploads go on.
LEMMA OnlyUploads ==
  ASSUME VaultInv, row.state = "none", NEW r \in Request, VaultStep(r)
  PROVE  \/ StartUpload(r)
         \/ Validate(r) /\ req[r].pc \in UploadPc
         \/ InsertRow(r) /\ req[r].pc \in UploadPc
         \/ Discard(r) /\ req[r].pc \in UploadPc
         \/ StepFails(r) /\ req[r].pc \in UploadPc
  <1>1. req[r].pc \in {"idle", "done"} \cup UploadPc
    BY DEF VaultInv, NothingYet
  <1>2. ~RemoveStep(r) /\ ~RestoreStep(r)
    BY <1>1 DEF RemoveStep, StartRemove, Lock, Verify, Stow, RecheckRemoved, Unstow, RestoreStep,
       StartRestore, Unlock, Fetch, Probe, Rollback, ClearTrashPath, RecheckRestored, Restow, At, UploadPc
  <1>3. StepFails(r) => req[r].pc \in UploadPc
    BY <1>1 DEF StepFails, Fault, UploadPc, RemovePc, RestorePc
  <1> QED
    BY <1>2, <1>3 DEF VaultStep, UploadStep, Validate, InsertRow, Discard, At, UploadPc

LEMMA RequestUploads ==
  ASSUME VaultInv, NEW r \in Request, VaultStep(r), RequestMoves(r)
  PROVE  UploadsAlone' /\ NothingYet'
  <1>0. \A q \in Request \ {r} : req'[q] = req[q]
    BY DEF RequestMoves, Slot
  <1>1. CASE row.state # "none"
    <2>1. \A q \in Request : req[q].pc \notin UploadPc
      BY <1>1 DEF VaultInv, UploadsAlone
    <2>2. ~StartUpload(r) /\ ~InsertRow(r)
      BY <1>1, <2>1 DEF StartUpload, InsertRow, At, UploadPc
    <2>3. \A q \in Request : req'[q].pc \notin UploadPc
      BY <1>0, <2>1, <2>2 DEF RequestMoves, Slot
    <2>4. row'.state # "none"
      BY <1>1, <2>2 DEF RequestMoves, RowMoves
    <2> QED
      BY <2>3, <2>4 DEF UploadsAlone, NothingYet
  <1>2. CASE row.state = "none"
    <2>0. /\ row \in Row /\ disk \in [Place -> Ages] /\ req[r] \in ReqState
          /\ row.trash = None /\ \A p \in Name : disk[p] = "absent"
          /\ \A q \in Request : req[q].pc \in {"idle", "done"} \cup UploadPc
      BY <1>2 DEF VaultInv, VaultTyped, TypeOK, Ages, NothingYet, Present
    <2>1. CASE StartUpload(r)
      <3>1. \A q \in Request : req[q].pc \notin UploadPc
        BY <2>1 DEF StartUpload, Present, VaultInv, UploadsAlone
      <3>2. disk'["uploads"] = "fresh" /\ \A p \in Name : disk'[p] = "absent"
        BY <2>0, <2>1, PlacesDiffer DEF StartUpload
      <3>3. req'[r].pc = "validate"
        BY <2>1, GotoIs DEF StartUpload, VaultInv, VaultPc, UploadPc
      <3>4. row' = row
        BY <2>1 DEF StartUpload
      <3> QED
        BY <1>0, <1>2, <2>0, <3>1, <3>2, <3>3, <3>4 DEF UploadsAlone, NothingYet, Present, UploadPc
    <2>2. CASE \/ Validate(r) /\ req[r].pc \in UploadPc
               \/ StepFails(r) /\ req[r].pc \in UploadPc
      <3>1. UNCHANGED <<row, disk>>
        BY <2>2 DEF Validate, StepFails
      <3>2. req'[r].pc \in UploadPc \cup {"done"}
        <4>1. \A pc \in UploadPc : Recovery(pc) \in {"discard", "done"}
          BY DEF Recovery, UploadPc
        <4>2. \E pc \in {"insert", "discard", "done"} : Goto(r, pc)
          BY <2>2, <4>1 DEF Validate, StepFails
        <4> QED
          BY <4>2, GotoIs DEF VaultInv, VaultPc, UploadPc
      <3> QED
        BY <1>0, <2>0, <2>2, <3>1, <3>2 DEF VaultInv, UploadsAlone, NothingYet, Present
    <2>3. CASE \/ InsertRow(r) /\ req[r].pc \in UploadPc
               \/ Discard(r) /\ req[r].pc \in UploadPc
      <3>1. req'[r].pc = "done"
        BY <2>3, GotoIs DEF InsertRow, Discard, Done, VaultInv, VaultPc
      <3>2. \A q \in Request \ {r} : req[q].pc \notin UploadPc
        BY <2>3 DEF VaultInv, UploadsAlone
      <3>3. \A q \in Request : req'[q].pc \notin UploadPc
        BY <1>0, <3>1, <3>2 DEF UploadPc
      <3>4. row'.state = "none" => row' = row
        BY <2>0, <2>3 DEF InsertRow, Discard, Row
      <3>5. \A p \in Name : disk'[p] = "absent"
        BY <2>0, <2>3, PlacesDiffer DEF InsertRow, Discard, Unlink
      <3> QED
        BY <1>0, <2>0, <3>1, <3>3, <3>4, <3>5 DEF UploadsAlone, NothingYet, Present
    <2> QED
      BY <1>2, <2>1, <2>2, <2>3, OnlyUploads
  <1> QED
    BY <1>1, <1>2

LEMMA RequestMarks ==
  ASSUME VaultInv, NEW r \in Request, VaultStep(r), RequestMoves(r)
  PROVE  PurgedGone' /\ MarksListed' /\ MarksOrphaned'
  <1>0. UNCHANGED <<cleaner, purger>>
    BY DEF RequestMoves
  <1>1. InsertRow(r) => row.state = "none" /\ req[r].pc \in UploadPc /\ disk["uploads"] = "fresh"
    BY DEF InsertRow, At, UploadPc, VaultInv, UploadsAlone
  <1>2. row'.state = "none" => row.state = "none"
    BY DEF RequestMoves, RowMoves, InsertRow, VaultInv, VaultTyped, TypeOK, Row
  <1>3. PurgedGone'
    BY <1>0, <1>1 DEF PurgedGone, VaultInv, RequestMoves, RowMoves
  <1>4. MarksListed'
    BY <1>0 DEF MarksListed, VaultInv
  <1>5. row.state = "none" => "uploads" \notin cleaner.marked
    <2> SUFFICES ASSUME row.state = "none", "uploads" \in cleaner.marked PROVE FALSE
      OBVIOUS
    <2>1. disk["uploads"] \in {"hour", "month"}
      BY DEF VaultInv, MarksOrphaned
    <2>2. req[r].pc \notin UploadPc /\ ~StartUpload(r)
      BY <2>1 DEF VaultInv, UploadsAlone, StartUpload, Present
    <2> QED
      BY <2>2, OnlyUploads
  <1>6. cleaner.pc = "sweepUploads" /\ "uploads" \in cleaner.marked => ~HasRow'
    <2> SUFFICES ASSUME cleaner.pc = "sweepUploads", "uploads" \in cleaner.marked PROVE ~HasRow'
      OBVIOUS
    <2>1. ~HasRow /\ row.state # "none"
      BY <1>5 DEF VaultInv, MarksOrphaned
    <2> QED
      BY <1>1, <2>1 DEF RequestMoves, RowMoves, HasRow
  <1>7. cleaner.pc = "sweepTrash" /\ HasRow' => row'.trash \notin cleaner.marked
    <2> SUFFICES ASSUME cleaner.pc = "sweepTrash", HasRow' PROVE row'.trash \notin cleaner.marked
      OBVIOUS
    <2>1. cleaner.marked \subseteq Name
      BY DEF VaultInv, MarksListed
    <2>2. row.trash \notin cleaner.marked
      <3>1. CASE HasRow
        BY <3>1 DEF VaultInv, MarksOrphaned
      <3>2. CASE ~HasRow
        <4>1. row.state = "none"
          BY <1>1, <3>2 DEF RequestMoves, RowMoves, HasRow
        <4> QED
          BY <2>1, <4>1, PlacesDiffer DEF VaultInv, NothingYet
      <3> QED
        BY <3>1, <3>2
    <2>3. At(r, "lock") => r \notin cleaner.marked
      BY DEF VaultInv, NamesOnce, Begun, At
    <2> QED
      BY <2>1, <2>2, <2>3, PlacesDiffer DEF RequestMoves, RowMoves
  <1> QED
    BY <1>0, <1>2, <1>3, <1>4, <1>5, <1>6, <1>7 DEF MarksOrphaned, HasRow

LEMMA CleanerInv ==
  ASSUME VaultInv, CleanerStep
  PROVE  VaultInv'
  <1>0. UNCHANGED <<row, req, purger>>
    BY DEF CleanerStep, ListUploads, MatchUploads, SweepUploads, ListTrash, MatchTrash, SweepTrash
  <1>1. VaultTyped'
    BY CleanerTyped DEF VaultInv
  <1>2. \A p \in Place : disk'[p] = disk[p] \/ (disk'[p] = "absent" /\ p \in cleaner.marked)
    BY DEF CleanerStep, ListUploads, MatchUploads, SweepUploads, ListTrash, MatchTrash, SweepTrash,
       VaultInv, VaultTyped, TypeOK
  <1>3. UploadsAlone'
    <2>1. ASSUME NEW r \in Request, req[r].pc \in UploadPc PROVE disk'["uploads"] = "fresh"
      <3>1. row.state = "none" /\ disk["uploads"] = "fresh"
        BY <2>1 DEF VaultInv, UploadsAlone
      <3>2. "uploads" \notin cleaner.marked
        BY <3>1 DEF VaultInv, MarksOrphaned
      <3> QED
        BY <1>2, <3>1, <3>2, PlacesDiffer
    <2> QED
      BY <1>0, <2>1 DEF VaultInv, UploadsAlone
  <1>4. NothingYet'
    BY <1>0, <1>2, PlacesDiffer DEF VaultInv, NothingYet, Present
  <1>5. NamesOnce'
    <2>1. \A x \in Request : x \in cleaner'.marked => x \in cleaner.marked \/ Present(x)
      <3>1. CASE ListUploads
        BY <3>1, PlacesDiffer DEF ListUploads
      <3>2. CASE ListTrash
        BY <3>2 DEF ListTrash, Present
      <3> QED
        BY <3>1, <3>2 DEF CleanerStep, MatchUploads, SweepUploads, MatchTrash, SweepTrash, Rest
    <2> QED
      BY <1>0, <1>2, <2>1, PlacesDiffer DEF VaultInv, NamesOnce, Present, Begun
  <1>6. PurgedGone'
    BY <1>0 DEF VaultInv, PurgedGone
  <1>7. MarksListed' /\ MarksOrphaned'
    <2>1. CASE ListUploads
      <3>1. /\ cleaner'.pc = "matchUploads" /\ disk' = disk
            /\ cleaner'.marked = {p \in {"uploads"} : disk[p] \in {"hour", "month"}}
        BY <2>1 DEF ListUploads
      <3> QED
        BY <1>0, <3>1 DEF MarksListed, MarksOrphaned
    <2>2. CASE MatchUploads
      <3>1. /\ cleaner'.pc = "sweepUploads" /\ disk' = disk /\ cleaner.pc = "matchUploads"
            /\ cleaner'.marked = IF HasRow THEN {} ELSE cleaner.marked
        BY <2>2 DEF MatchUploads
      <3>2. HasRow' = HasRow
        BY <1>0 DEF HasRow
      <3> QED
        BY <1>0, <3>1, <3>2 DEF VaultInv, MarksListed, MarksOrphaned
    <2>3. CASE ListTrash
      <3>1. cleaner'.pc = "matchTrash" /\ cleaner'.marked \subseteq Name
        BY <2>3 DEF ListTrash
      <3> QED
        BY <3>1, PlacesDiffer DEF MarksListed, MarksOrphaned
    <2>4. CASE MatchTrash
      <3>1. /\ cleaner'.pc = "sweepTrash" /\ cleaner.pc = "matchTrash"
            /\ cleaner'.marked = cleaner.marked \ (IF HasRow THEN {row.trash} ELSE {})
        BY <2>4 DEF MatchTrash
      <3>2. HasRow' = HasRow
        BY <1>0 DEF HasRow
      <3> QED
        BY <1>0, <3>1, <3>2, PlacesDiffer DEF VaultInv, MarksListed, MarksOrphaned
    <2>5. CASE SweepUploads \/ SweepTrash
      <3>1. cleaner'.pc \in {"listTrash", "idle"} /\ cleaner'.marked = {}
        BY <2>5 DEF SweepUploads, SweepTrash, Rest
      <3> QED
        BY <3>1 DEF MarksListed, MarksOrphaned
    <2> QED
      BY <2>1, <2>2, <2>3, <2>4, <2>5 DEF CleanerStep
  <1> QED
    BY <1>1, <1>3, <1>4, <1>5, <1>6, <1>7 DEF VaultInv

LEMMA PurgerInv ==
  ASSUME VaultInv, PurgerStep
  PROVE  VaultInv'
  <1>0. UNCHANGED <<req, cleaner>>
    BY DEF PurgerStep, PurgeRow, PurgeContent
  <1>1. VaultTyped'
    BY PurgerTyped DEF VaultInv
  <1>2. CASE PurgeRow /\ row.state = "trashed" /\ row.age = "month"
    <2>1. row \in Row /\ row' = [row EXCEPT !.state = "purged"]
      BY <1>2 DEF PurgeRow, VaultInv, VaultTyped, TypeOK
    <2>2. row'.state = "purged" /\ row'.trash = row.trash /\ UNCHANGED disk
      BY <1>2, <2>1 DEF PurgeRow, Row
    <2>3. \A r \in Request : req[r].pc \notin UploadPc
      BY <1>2 DEF VaultInv, UploadsAlone
    <2> QED
      BY <1>0, <1>1, <2>2, <2>3 DEF VaultInv, UploadsAlone, NothingYet, NamesOnce, PurgedGone,
         MarksListed, MarksOrphaned, HasRow, Present, Begun
  <1>3. CASE PurgeRow /\ ~(row.state = "trashed" /\ row.age = "month")
    <2>1. purger'.pc = "idle" /\ UNCHANGED <<row, disk>>
      BY <1>3 DEF PurgeRow, Rest
    <2> QED
      BY <1>0, <1>1, <2>1 DEF VaultInv, UploadsAlone, NothingYet, NamesOnce, PurgedGone,
         MarksListed, MarksOrphaned, HasRow, Present, Begun
  <1>4. CASE PurgeContent
    <2>1. row.state = "purged" /\ UNCHANGED row
      BY <1>4 DEF PurgeContent, VaultInv, PurgedGone
    <2>2. \A p \in Place : disk'[p] \in {disk[p], "absent"}
      BY <1>4 DEF PurgeContent, Unlink, VaultInv, VaultTyped, TypeOK
    <2>3. \A r \in Request : req[r].pc \notin UploadPc
      BY <2>1 DEF VaultInv, UploadsAlone
    <2> QED
      BY <1>0, <1>1, <2>1, <2>2, <2>3, PlacesDiffer DEF VaultInv, UploadsAlone, NothingYet, NamesOnce,
         PurgedGone, MarksListed, MarksOrphaned, HasRow, Present, Begun
  <1> QED
    BY <1>2, <1>3, <1>4 DEF PurgerStep

LEMMA TimeInv ==
  ASSUME VaultInv, TimePasses
  PROVE  VaultInv'
  <1>1. VaultTyped'
    BY TimeTyped DEF VaultInv
  <1>2. /\ UNCHANGED req /\ cleaner'.pc = "listUploads" /\ cleaner'.marked = {}
        /\ purger'.pc = "delete"
    BY DEF TimePasses, Rest
  <1>3. row'.state = row.state /\ row'.trash = row.trash
    <2>1. row \in Row
      BY DEF VaultInv, VaultTyped, TypeOK
    <2> DEFINE a == Older[row.age]
    <2>2. row' = row \/ row' = [row EXCEPT !.age = a]
      BY DEF TimePasses
    <2> HIDE DEF a
    <2> QED
      BY <2>1, <2>2 DEF Row
  <1>4. \A p \in Place : ~Present(p) => ~Present(p)'
    BY OlderAge DEF TimePasses, Present
  <1>5. \A r \in Request : req[r].pc \in {"idle", "done"}
    BY DEF TimePasses, Quiet
  <1> QED
    BY <1>1, <1>2, <1>3, <1>4, <1>5, PlacesDiffer DEF VaultInv, UploadsAlone, NothingYet, NamesOnce,
       PurgedGone, MarksListed, MarksOrphaned, Begun, UploadPc

LEMMA RestartInv ==
  ASSUME VaultInv, Restart
  PROVE  VaultInv'
  <1>0. VaultTyped'
    BY RestartTyped DEF VaultInv
  <1>1. /\ \A q \in Request : /\ req'[q].pc = IF At(q, "idle") THEN "idle" ELSE "done"
                              /\ req'[q].trash = req[q].trash
        /\ UNCHANGED <<row, disk>>
    BY RestartIs DEF VaultInv
  <1>2. cleaner'.pc = "idle" /\ cleaner'.marked = {} /\ purger'.pc = "idle"
    BY RestartIs DEF VaultInv, Rest
  <1>3. \A q \in Request : req'[q].pc \in {"idle", "done"} /\ (Begun(q) => Begun(q)')
    BY <1>1 DEF Begun, At
  <1> QED
    BY <1>0, <1>1, <1>2, <1>3 DEF VaultInv, UploadsAlone, NothingYet, NamesOnce,
       PurgedGone, MarksListed, MarksOrphaned, Present, UploadPc

LEMMA StepVaultInv == VaultInv /\ [Next]_vars => VaultInv'
  <1> SUFFICES ASSUME VaultInv, [Next]_vars PROVE VaultInv'
    OBVIOUS
  <1>1. ASSUME NEW r \in Request, VaultStep(r) PROVE VaultInv'
    <2>1. RequestMoves(r)
      BY <1>1, StepMoves DEF VaultInv
    <2>2. VaultTyped'
      BY StepVaultTyped DEF VaultInv
    <2> QED
      BY <1>1, <2>1, <2>2, RequestNames, RequestUploads, RequestMarks DEF VaultInv
  <1>2. CASE UNCHANGED vars
    BY <1>2 DEF vars, env, VaultInv, VaultTyped, TypeOK, TrashKnown, UploadsAlone, NothingYet, NamesOnce,
       PurgedGone, MarksListed, MarksOrphaned, HasRow, Present, Begun
  <1> QED
    BY <1>1, <1>2, CleanerInv, PurgerInv, TimeInv, RestartInv DEF Next, VaultStep

LEMMA VaultAlways == Spec => []VaultInv
  BY VaultInitInv, StepVaultInv, PTL DEF Spec

\* However uploads, removals, restores, restarts and failing steps overlap the
\* cleaner's listing and its question: it unlinks nothing that a row points to by
\* then, and nothing at all while an upload is under way (cleanOrphanUploads).
THEOREM CleanerSparesFiles == Spec => CleanupSpares
  <1>1. ASSUME VaultInv, Next, cleaner' # cleaner, NEW p \in Place, Present(p), disk'[p] = "absent"
        PROVE  p \notin Known /\ \A r \in Request : req[r].pc \notin UploadPc
    <2>1. ~(\E r \in Request : VaultStep(r)) /\ ~PurgerStep
      BY <1>1, StepMoves DEF VaultInv, RequestMoves, PurgerStep, PurgeRow, PurgeContent
    <2>2. ~TimePasses
      <3>1. disk[p] \in Age
        BY <1>1 DEF VaultInv, VaultTyped, TypeOK, Present
      <3>2. Older[disk[p]] # "absent"
        BY <3>1 DEF Older, Age
      <3> QED
        BY <1>1, <3>2 DEF TimePasses
    <2>3. ~Restart
      BY <1>1 DEF Restart, Present
    <2>4. CleanerStep
      BY <1>1, <2>1, <2>2, <2>3 DEF Next, VaultStep
    <2>5. (SweepUploads \/ SweepTrash) /\ p \in cleaner.marked
      BY <1>1, <2>4 DEF CleanerStep, ListUploads, MatchUploads, SweepUploads, ListTrash, MatchTrash,
         SweepTrash, Present
    <2>6. CASE SweepUploads
      <3>1. cleaner.pc = "sweepUploads" /\ p = "uploads"
        BY <1>1, <2>5, <2>6 DEF SweepUploads, VaultInv, MarksListed
      <3>2. ~HasRow /\ (row.state = "none" => disk["uploads"] \in {"hour", "month"})
        BY <1>1, <2>5, <3>1 DEF VaultInv, MarksOrphaned
      <3> QED
        BY <1>1, <3>2 DEF Known, VaultInv, UploadsAlone
    <2>7. CASE SweepTrash
      <3>1. cleaner.pc = "sweepTrash" /\ p \in Name
        BY <1>1, <2>5, <2>7 DEF SweepTrash, VaultInv, MarksListed
      <3>2. row.state # "none"
        BY <1>1, <3>1 DEF VaultInv, NothingYet
      <3>3. HasRow => p # row.trash
        BY <1>1, <2>5, <3>1 DEF VaultInv, MarksOrphaned
      <3> QED
        BY <1>1, <3>1, <3>2, <3>3, PlacesDiffer DEF Known, VaultInv, UploadsAlone
    <2> QED
      BY <2>5, <2>6, <2>7
  <1>2. VaultInv /\ [Next]_vars =>
          [cleaner' # cleaner =>
             \A p \in Place : Present(p) /\ disk'[p] = "absent" =>
               p \notin Known /\ \A r \in Request : req[r].pc \notin UploadPc]_vars
    BY <1>1
  <1> QED
    BY <1>2, VaultAlways, PTL DEF Spec, CleanupSpares

-----------------------------------------------------------------------------
(* Where the content is while a removal and a restore overlap.  What keeps the two
   together is the row: whoever finds it changed by the other puts the content
   where the other's UPDATE says, and neither has more than one other to look out
   for.  A request is in flight from its start to its end.                      *)
InFlight(r)  == req[r].pc \notin {"idle", "done"}
Removing(r)  == req[r].pc \in {"verify", "stow", "recheckRemoved", "unstow"}
Restoring(r) == req[r].pc \in RestorePc \ {"unlock"}
\* Done with its UPDATE.
Past(r)      == req[r].pc \notin {"idle", "lock", "unlock"} \cup UploadPc
\* Half way through a move between volumes.
Copying(r, pc) == At(r, pc) /\ req[r].copied

Live    == row.state = "live"
Trashed == row.state = "trashed"

\* Each request overlaps at most one other, and always the same.
InPairs(Other) == \A p, q \in Request : InFlight(p) /\ InFlight(q) => q = p \/ q = Other[p]

InTrash(n) == n \in Name /\ Present(n)
\* A restore is about to move the content out of the trash.
FetchPending == \E s \in Request : At(s, "fetch") /\ ~req[s].copied /\ InTrash(req[s].trash)
TurnsBack(r) == req[r].pc \in {"recheckRemoved", "unstow"}

\* One removal at most moves content, and one restore.
OneEach ==
  /\ \A p, q \in Request : Removing(p) /\ Removing(q) => p = q
  /\ \A p, q \in Request : Restoring(p) /\ Restoring(q) => p = q

(* In use: a removal that still moves content was overtaken by its partner's
   restore, and that restore holds the trash path of the row.                 *)
LiveTurns(Other) ==
  Live =>
    /\ \A r \in Request : Removing(r) => Past(Other[r])
    /\ \A s \in Request : At(s, "unlock") => Past(Other[s])
    /\ \A s \in Request : ~At(s, "restow")
    /\ \A s \in Request : Unlocked(s) => row.trash \in Name /\ req[s].trash = row.trash
    /\ \A s, r \in Request : Unlocked(s) /\ Removing(r) => r = row.trash
    /\ \A s, r \in Request : Unlocked(s) /\ At(r, "unlock") => req[r].trash = row.trash

(* Removed: by the one removal that moves content, and a restore that is past
   its UPDATE was overtaken by its partner's removal.                         *)
TrashedTurns(Other) ==
  Trashed =>
    /\ row.trash \in Name
    /\ \A r \in Request : Removing(r) => r = row.trash
    /\ \A s \in Request : At(s, "unlock") => req[s].trash = row.trash
    /\ \A s \in Request : Restoring(s) =>
         /\ row.trash = Other[s] /\ Past(Other[s]) /\ ~At(Other[s], "unstow")
         /\ At(s, "restow") <=> req[s].trash = row.trash

(* In use: the content is in uploads/, a restore is about to fetch it, or a removal
   is about to bring it back; a restore that fails finds it to fall back on.    *)
LiveContent ==
  Live =>
    /\ \A s \in Request : Unlocked(s) => Present("uploads") \/ InTrash(row.trash)
    /\ Present("uploads") \/ FetchPending \/ \E r \in Request : TurnsBack(r)
    /\ \A r, s \in Request : Copying(r, "stow") /\ Unlocked(s) => InTrash(r)

(* Removed: the content is in uploads/, at the row's trash path, or still where an
   overtaken restore is about to fetch it; what is half moved is at both ends.  *)
TrashedContent ==
  Trashed =>
    /\ Present("uploads") \/ InTrash(row.trash) \/ FetchPending
    /\ \A r \in Request : Copying(r, "stow") => InTrash(r)
    /\ \A s \in Request : Copying(s, "fetch") => Present("uploads") \/ InTrash(row.trash)
    /\ \A s \in Request : Copying(s, "restow") => InTrash(row.trash)

CopiedBack == \A r \in Request : Copying(r, "unstow") => Present("uploads")

CopyAt == \A r \in Request : req[r].copied => req[r].pc \in {"stow", "unstow", "fetch", "restow", "done"}

Agreed(Other) ==
  /\ OneEach /\ LiveTurns(Other) /\ TrashedTurns(Other)
  /\ LiveContent /\ TrashedContent /\ CopiedBack

(* It holds until something is excused.  CopyAt does so always. *)
PairInv(Other) == CopyAt /\ (HasRow /\ excuses = {} => Agreed(Other))

(* What a step does to its request: pc and trash path, and that nothing is half
   copied; and to the contents.                                                *)
Becomes(r, pc, trash) ==
  /\ req'[r].pc = pc /\ req'[r].trash = trash /\ ~req'[r].copied
  /\ \A q \in Request \ {r} : req'[q] = req[q]

Kept(S) == \A p \in Place \ S : Present(p)' = Present(p)

LEMMA GotoBecomes ==
  ASSUME VaultTyped, NEW r \in Request, NEW pc \in VaultPc, Goto(r, pc)
  PROVE  Becomes(r, pc, req[r].trash)
  <1> DEFINE s == [req[r] EXCEPT !.pc = pc, !.copied = FALSE]
  <1>1. req[r] \in ReqState
    BY DEF VaultTyped, TypeOK
  <1>2. s.pc = pc /\ s.trash = req[r].trash
    BY <1>1 DEF ReqState
  <1>3. s.copied = FALSE
    BY <1>1 DEF ReqState
  <1>4. Become(r, s)
    BY DEF Goto
  <1> HIDE DEF s
  <1>5. \A q \in Request : req'[q] = IF q = r THEN s ELSE req[q]
    BY <1>4, BecomeIs
  <1> QED
    BY <1>2, <1>3, <1>5 DEF Becomes

(* A move refuses, arrives at once, has copied, or unlinks what it copied. *)
Refused(r, from, failed) ==
  ~Present(from) /\ Becomes(r, failed, req[r].trash) /\ Kept({})

Copied(r, from, to) ==
  /\ Present(to)' /\ Kept({to})
  /\ req'[r].pc = req[r].pc /\ req'[r].trash = req[r].trash /\ req'[r].copied
  /\ \A q \in Request \ {r} : req'[q] = req[q]

Arrived(r, from, to, moved) ==
  /\ Present(from) /\ Becomes(r, moved, req[r].trash)
  /\ ~Present(from)' /\ Kept({from, to})
  /\ IF req[r].copied /\ crossVolume THEN Present(to)' = Present(to) ELSE Present(to)'

LEMMA MoveCases ==
  ASSUME VaultTyped, NEW r \in Request, NEW from \in Place, NEW to \in Place, from # to,
         NEW moved \in VaultPc, NEW failed \in VaultPc, Move(r, from, to, moved, failed)
  PROVE  Refused(r, from, failed) \/ Copied(r, from, to) \/ Arrived(r, from, to, moved)
  <1>0. disk \in [Place -> Ages]
    BY DEF VaultTyped, TypeOK, Ages
  <1>1. CASE ~Present(from) /\ Goto(r, failed) /\ UNCHANGED disk
    BY <1>1, GotoBecomes DEF Refused, Kept, Present
  <1>2. CASE /\ Present(from) /\ ~crossVolume /\ Goto(r, moved)
             /\ disk' = [disk EXCEPT ![to] = disk[from], ![from] = "absent"]
    <2>1. /\ disk'[from] = "absent" /\ disk'[to] = disk[from]
          /\ \A p \in Place \ {from, to} : disk'[p] = disk[p]
      BY <1>0, <1>2
    <2>2. Becomes(r, moved, req[r].trash)
      BY <1>2, GotoBecomes
    <2>3. ~Present(from)' /\ Present(to)' /\ Kept({from, to})
      BY <1>2, <2>1 DEF Kept, Present
    <2> QED
      BY <1>2, <2>2, <2>3 DEF Arrived
  <1>3. CASE /\ Present(from) /\ disk' = [disk EXCEPT ![to] = "fresh"]
             /\ Become(r, [req[r] EXCEPT !.copied = TRUE])
    <2> DEFINE s == [req[r] EXCEPT !.copied = TRUE]
    <2>1. req[r] \in ReqState
      BY DEF VaultTyped, TypeOK
    <2>2. s.pc = req[r].pc /\ s.trash = req[r].trash
      BY <2>1 DEF ReqState
    <2>3. s.copied = TRUE
      BY <2>1 DEF ReqState
    <2>4. Become(r, s)
      BY <1>3
    <2> HIDE DEF s
    <2>5. \A q \in Request : req'[q] = IF q = r THEN s ELSE req[q]
      BY <2>4, BecomeIs
    <2>6. disk'[to] = "fresh" /\ \A p \in Place \ {to} : disk'[p] = disk[p]
      BY <1>0, <1>3
    <2>7. Present(to)' /\ Kept({to})
      BY <2>6 DEF Kept, Present
    <2> QED
      BY <2>2, <2>3, <2>5, <2>7 DEF Copied
  <1>4. CASE Present(from) /\ crossVolume /\ req[r].copied /\ Unlink(from) /\ Goto(r, moved)
    <2>1. /\ disk'[from] = "absent" /\ \A p \in Place \ {from} : disk'[p] = disk[p]
      BY <1>0, <1>4 DEF Unlink
    <2>2. Becomes(r, moved, req[r].trash)
      BY <1>4, GotoBecomes
    <2>3. ~Present(from)' /\ Present(to)' = Present(to) /\ Kept({from, to})
      BY <2>1 DEF Kept, Present
    <2> QED
      BY <1>4, <2>2, <2>3 DEF Arrived
  <1> QED
    BY <1>1, <1>2, <1>3, <1>4 DEF Move

-----------------------------------------------------------------------------
(* A step that moves no content and leaves the row: the request goes on inside
   its phase, or ends without having anything to put right.                    *)
StepsOn(r, pc) ==
  /\ Becomes(r, pc, req[r].trash) /\ Kept({}) /\ UNCHANGED row
  /\ pc \notin {"unlock", "fetch", "restow"}
  /\ (Removing(r)' => Removing(r)) /\ (Restoring(r)' => Restoring(r) /\ ~At(r, "restow"))
  /\ (Unlocked(r)' => Unlocked(r)) /\ (Past(r) => Past(r)')
  /\ (pc = "unstow" => Live)
  /\ (Live /\ TurnsBack(r) => TurnsBack(r)')
  /\ (At(r, "fetch") => ~InTrash(req[r].trash))

\* What is said of a request that does not move.
LEMMA OthersSame ==
  ASSUME NEW r \in Request, \A q \in Request \ {r} : req'[q] = req[q]
  PROVE  \A q \in Request \ {r} :
           /\ Removing(q)' = Removing(q) /\ Restoring(q)' = Restoring(q) /\ Past(q)' = Past(q)
           /\ Unlocked(q)' = Unlocked(q) /\ TurnsBack(q)' = TurnsBack(q)
           /\ \A pc \in VaultPc : /\ At(q, pc)' = At(q, pc)
                                  /\ Copying(q, pc)' = Copying(q, pc)
           /\ req'[q].trash = req[q].trash /\ req'[q].copied = req[q].copied
  BY DEF Removing, Restoring, Past, Unlocked, TurnsBack, At, Copying

LEMMA KeptTrash ==
  ASSUME Kept({})
  PROVE  /\ Present("uploads")' = Present("uploads")
         /\ \A n \in Name : InTrash(n)' = InTrash(n)
         /\ \A n : InTrash(n) => n \in Name
  BY PlacesDiffer DEF Kept, InTrash

LEMMA StepsOnAgreed ==
  ASSUME VaultInv, NEW Other \in [Request -> Request], Agreed(Other),
         NEW r \in Request, NEW pc \in VaultPc, StepsOn(r, pc)
  PROVE  Agreed(Other)'
  <1>0. /\ Kept({}) /\ row' = row /\ pc \notin {"unlock", "fetch", "restow"}
        /\ req'[r].pc = pc /\ req'[r].trash = req[r].trash /\ ~req'[r].copied
        /\ \A q \in Request \ {r} : req'[q] = req[q]
    BY DEF StepsOn, Becomes
  <1>1. /\ Live' = Live /\ Trashed' = Trashed
    BY <1>0 DEF Live, Trashed
  <1>2. \A q \in Request : \A x \in {"stow", "unstow", "fetch", "restow"} :
          Copying(q, x)' => Copying(q, x)
    BY <1>0, OthersSame DEF Copying, VaultPc, RemovePc, RestorePc
  <1>3. \A q \in Request : /\ (Removing(q)' => Removing(q)) /\ (Restoring(q)' => Restoring(q))
                           /\ (Unlocked(q)' => Unlocked(q)) /\ (Past(q) => Past(q)')
                           /\ (Live /\ TurnsBack(q) => TurnsBack(q)')
    BY <1>0, OthersSame DEF StepsOn
  <1>4. \A q \in Request : \A x \in {"unlock", "restow"} : At(q, x)' => At(q, x)
    BY <1>0, OthersSame DEF At, VaultPc, RestorePc
  <1>5. \A q \in Request : req'[q].trash = req[q].trash
    BY <1>0, OthersSame
  <1>6. FetchPending => FetchPending'
    <2> SUFFICES ASSUME NEW s \in Request, At(s, "fetch"), ~req[s].copied, InTrash(req[s].trash)
                 PROVE  FetchPending'
      BY DEF FetchPending
    <2>1. s # r
      BY DEF StepsOn
    <2>2. req'[s] = req[s] /\ InTrash(req[s].trash)'
      BY <1>0, <2>1, KeptTrash
    <2> QED
      BY <2>2 DEF FetchPending, At, InTrash
  <1>7. OneEach'
    BY <1>3 DEF Agreed, OneEach
  <1>8. LiveTurns(Other)'
    BY <1>0, <1>1, <1>3, <1>4, <1>5 DEF Agreed, LiveTurns
  <1>9. TrashedTurns(Other)'
    <2> SUFFICES ASSUME Trashed PROVE TrashedTurns(Other)'
      BY <1>1 DEF TrashedTurns
    <2>1. /\ row.trash \in Name /\ \A q \in Request : Removing(q) => q = row.trash
          /\ \A s \in Request : At(s, "unlock") => req[s].trash = row.trash
          /\ \A s \in Request : Restoring(s) =>
               /\ row.trash = Other[s] /\ Past(Other[s]) /\ ~At(Other[s], "unstow")
               /\ At(s, "restow") <=> req[s].trash = row.trash
      BY DEF Agreed, TrashedTurns
    <2>2. \A q \in Request : At(q, "unstow")' => At(q, "unstow")
      BY <1>0, OthersSame DEF StepsOn, At, VaultPc, RemovePc, Live, Trashed
    <2>3. \A q \in Request : Restoring(q)' => (At(q, "restow")' <=> At(q, "restow"))
      BY <1>0, OthersSame DEF StepsOn, At, VaultPc, RestorePc
    <2> QED
      BY <1>0, <1>3, <1>4, <1>5, <2>1, <2>2, <2>3 DEF TrashedTurns
  <1>10. LiveContent'
    BY <1>0, <1>1, <1>2, <1>3, <1>6, KeptTrash DEF Agreed, LiveContent, InTrash
  <1>11. TrashedContent'
    BY <1>0, <1>1, <1>2, <1>3, <1>6, KeptTrash DEF Agreed, TrashedContent, InTrash
  <1>12. CopiedBack'
    BY <1>0, <1>2, KeptTrash DEF Agreed, CopiedBack
  <1> QED
    BY <1>7, <1>8, <1>9, <1>10, <1>11, <1>12 DEF Agreed

LEMMA KeptGrows ==
  ASSUME NEW to \in Place, Present(to)', Kept({to})
  PROVE  /\ Present("uploads") => Present("uploads")'
         /\ \A n : InTrash(n) => InTrash(n)'
  BY PlacesDiffer DEF Kept, InTrash

\* A copy between volumes adds content and takes none away.
LEMMA CopiedAgreed ==
  ASSUME VaultInv, NEW Other \in [Request -> Request], Agreed(Other),
         NEW r \in Request, NEW from \in Place, NEW to \in Place, Copied(r, from, to), UNCHANGED row,
         \/ At(r, "stow") /\ to = r
         \/ req[r].pc \in {"unstow", "fetch"} /\ to = "uploads"
         \/ At(r, "restow") /\ to = req[r].trash /\ to \in Name
  PROVE  Agreed(Other)'
  <1>0. /\ Present(to)' /\ Kept({to}) /\ row' = row
        /\ req'[r].pc = req[r].pc /\ req'[r].trash = req[r].trash
        /\ \A q \in Request \ {r} : req'[q] = req[q]
    BY DEF Copied
  <1>1. /\ Live' = Live /\ Trashed' = Trashed
    BY <1>0 DEF Live, Trashed
  <1>2. \A q \in Request : req'[q].pc = req[q].pc /\ req'[q].trash = req[q].trash
    BY <1>0
  <1>3. \A q \in Request : \A x \in {"stow", "unstow", "fetch", "restow"} :
          Copying(q, x)' => Copying(q, x) \/ (q = r /\ At(r, x))
    BY <1>0 DEF Copying, At
  <1>4. /\ Present("uploads") => Present("uploads")'
        /\ \A n : InTrash(n) => InTrash(n)'
        /\ to \in Name => InTrash(to)'
    BY <1>0, KeptGrows DEF InTrash
  <1>5. FetchPending => FetchPending' \/ Present("uploads")'
    <2> SUFFICES ASSUME NEW s \in Request, At(s, "fetch"), ~req[s].copied, InTrash(req[s].trash)
                 PROVE  FetchPending' \/ Present("uploads")'
      BY DEF FetchPending
    <2>1. CASE s = r
      BY <1>0, <2>1 DEF At
    <2>2. CASE s # r
      <3>1. req'[s] = req[s] /\ InTrash(req[s].trash)'
        BY <1>0, <1>4, <2>2
      <3> QED
        BY <3>1 DEF FetchPending, At, InTrash
    <2> QED
      BY <2>1, <2>2
  <1>6. OneEach'
    BY <1>2 DEF Agreed, OneEach, Removing, Restoring
  <1>7. LiveTurns(Other)'
    BY <1>0, <1>1, <1>2 DEF Agreed, LiveTurns, Removing, Past, Unlocked, At
  <1>8. TrashedTurns(Other)'
    BY <1>0, <1>1, <1>2 DEF Agreed, TrashedTurns, Removing, Restoring, Past, At
  <1>9. LiveContent'
    <2> SUFFICES ASSUME Live PROVE LiveContent'
      BY <1>1 DEF LiveContent
    <2>1. \A q \in Request : Unlocked(q)' = Unlocked(q) /\ TurnsBack(q)' = TurnsBack(q)
      BY <1>2 DEF Unlocked, TurnsBack
    <2>2. \A q \in Request : Copying(q, "stow")' => Copying(q, "stow") \/ InTrash(q)'
      BY <1>3, <1>4, PlacesDiffer DEF At
    <2> QED
      BY <1>0, <1>4, <1>5, <2>1, <2>2 DEF Agreed, LiveContent
  <1>10. TrashedContent'
    <2> SUFFICES ASSUME Trashed PROVE TrashedContent'
      BY <1>1 DEF TrashedContent
    <2>1. \A q \in Request : Copying(q, "stow")' => Copying(q, "stow") \/ InTrash(q)'
      BY <1>3, <1>4, PlacesDiffer DEF At
    <2>2. \A q \in Request : Copying(q, "fetch")' => Copying(q, "fetch") \/ Present("uploads")'
      BY <1>0, <1>3 DEF At
    <2>3. At(r, "restow") => to = row.trash
      BY DEF Agreed, TrashedTurns, Restoring, RestorePc, At
    <2>4. \A q \in Request : Copying(q, "restow")' => Copying(q, "restow") \/ InTrash(row.trash)'
      BY <1>3, <1>4, <2>3 DEF At
    <2> QED
      BY <1>0, <1>4, <1>5, <2>1, <2>2, <2>4 DEF Agreed, TrashedContent, InTrash
  <1>11. CopiedBack'
    BY <1>0, <1>3, <1>4 DEF Agreed, CopiedBack, At
  <1> QED
    BY <1>6, <1>7, <1>8, <1>9, <1>10, <1>11 DEF Agreed

LEMMA KeptTwo ==
  ASSUME NEW from \in Place, NEW to \in Place, Kept({from, to})
  PROVE  /\ "uploads" \notin {from, to} => Present("uploads")' = Present("uploads")
         /\ \A n \in Name \ {from, to} : InTrash(n)' = InTrash(n)
  BY PlacesDiffer DEF Kept, InTrash

\* The content of a removed file is in the trash, or in uploads/ no longer.
LEMMA StowArrives ==
  ASSUME VaultInv, NEW Other \in [Request -> Request], Agreed(Other), NEW r \in Request, At(r, "stow"),
         Arrived(r, "uploads", r, "recheckRemoved"), UNCHANGED row, HasRow
  PROVE  Agreed(Other)'
  <1>0. /\ Kept({"uploads", r}) /\ row' = row
        /\ req'[r].pc = "recheckRemoved" /\ req'[r].trash = req[r].trash /\ ~req'[r].copied
        /\ \A q \in Request \ {r} : req'[q] = req[q]
        /\ r \in Name /\ "uploads" \in Place /\ r \in Place
    BY PlacesDiffer DEF Arrived, Becomes
  <1>1. /\ Live' = Live /\ Trashed' = Trashed
    BY <1>0 DEF Live, Trashed
  <1>2. \A q \in Request : req'[q].trash = req[q].trash
    BY <1>0
  <1>3. \A q \in Request : /\ Removing(q)' = Removing(q) /\ Restoring(q)' = Restoring(q)
                           /\ Unlocked(q)' = Unlocked(q) /\ Past(q)' = Past(q)
                           /\ At(q, "unlock")' = At(q, "unlock") /\ At(q, "restow")' = At(q, "restow")
                           /\ At(q, "unstow")' = At(q, "unstow")
    BY <1>0 DEF At, Removing, Restoring, Unlocked, Past, UploadPc, RestorePc
  <1>4. \A q \in Request : \A x \in {"stow", "unstow", "fetch", "restow"} :
          Copying(q, x)' => q # r /\ Copying(q, x)
    BY <1>0 DEF Copying, At
  <1>5. Removing(r) /\ \A q \in Request : Removing(q) => q = r
    BY DEF Agreed, OneEach, Removing, At
  <1>6. Copying(r, "stow") => InTrash(r) \/ (Live /\ \A s \in Request : ~Unlocked(s))
    BY DEF Agreed, LiveContent, TrashedContent, HasRow, Live, Trashed
  <1>7. InTrash(r)' \/ (Live /\ \A s \in Request : ~Unlocked(s))
    <2>1. CASE req[r].copied /\ crossVolume
      BY <1>0, <1>6, <2>1 DEF Arrived, InTrash, Copying
    <2>2. CASE ~(req[r].copied /\ crossVolume)
      BY <1>0, <2>2 DEF Arrived, InTrash
    <2> QED
      BY <2>1, <2>2
  <1>8. OneEach'
    BY <1>3 DEF Agreed, OneEach
  <1>9. LiveTurns(Other)'
    BY <1>0, <1>1, <1>2, <1>3 DEF Agreed, LiveTurns
  <1>10. TrashedTurns(Other)'
    BY <1>0, <1>1, <1>2, <1>3 DEF Agreed, TrashedTurns
  <1>11. LiveContent'
    <2> SUFFICES ASSUME Live PROVE LiveContent'
      BY <1>1 DEF LiveContent
    <2>1. ASSUME NEW s \in Request, Unlocked(s) PROVE InTrash(row.trash)'
      <3>1. r = row.trash
        BY <1>5, <2>1 DEF Agreed, LiveTurns
      <3> QED
        BY <1>0, <1>7, <2>1, <3>1 DEF InTrash
    <2>2. TurnsBack(r)'
      BY <1>0 DEF TurnsBack
    <2>3. \A q \in Request : ~Copying(q, "stow")'
      BY <1>4, <1>5 DEF Copying, Removing, At
    <2> QED
      BY <1>3, <2>1, <2>2, <2>3 DEF LiveContent
  <1>12. TrashedContent'
    <2> SUFFICES ASSUME Trashed PROVE TrashedContent'
      BY <1>1 DEF TrashedContent
    <2>1. row.trash = r /\ InTrash(row.trash)'
      BY <1>0, <1>5, <1>7 DEF Agreed, TrashedTurns, Live, Trashed, InTrash
    <2>2. \A q \in Request : ~Copying(q, "stow")'
      BY <1>4, <1>5 DEF Copying, Removing, At
    <2> QED
      BY <2>1, <2>2 DEF TrashedContent
  <1>13. CopiedBack'
    BY <1>4, <1>5 DEF CopiedBack, Copying, Removing, At
  <1> QED
    BY <1>8, <1>9, <1>10, <1>11, <1>12, <1>13 DEF Agreed

\* The content is back in uploads/.
LEMMA UnstowArrives ==
  ASSUME VaultInv, NEW Other \in [Request -> Request], Agreed(Other), NEW r \in Request, At(r, "unstow"),
         Arrived(r, r, "uploads", "done"), UNCHANGED row
  PROVE  Agreed(Other)'
  <1>0. /\ Kept({r, "uploads"}) /\ row' = row
        /\ req'[r].pc = "done" /\ req'[r].trash = req[r].trash /\ ~req'[r].copied
        /\ \A q \in Request \ {r} : req'[q] = req[q]
        /\ r \in Name /\ "uploads" \in Place /\ r \in Place
    BY PlacesDiffer DEF Arrived, Becomes
  <1>1. /\ Live' = Live /\ Trashed' = Trashed
    BY <1>0 DEF Live, Trashed
  <1>2. \A q \in Request : req'[q].trash = req[q].trash
    BY <1>0
  <1>3. \A q \in Request : /\ Removing(q)' => Removing(q) /\ q # r
                           /\ Restoring(q)' = Restoring(q)
                           /\ Unlocked(q)' = Unlocked(q) /\ Past(q)' = Past(q)
                           /\ At(q, "unlock")' = At(q, "unlock") /\ At(q, "restow")' = At(q, "restow")
                           /\ At(q, "unstow")' => At(q, "unstow")
    BY <1>0 DEF At, Removing, Restoring, Unlocked, Past, UploadPc, RestorePc
  <1>4. \A q \in Request : \A x \in {"stow", "unstow", "fetch", "restow"} :
          Copying(q, x)' => q # r /\ Copying(q, x)
    BY <1>0 DEF Copying, At
  <1>5. Removing(r) /\ \A q \in Request : Removing(q) => q = r
    BY DEF Agreed, OneEach, Removing, At
  <1>6. Present("uploads")'
    <2>1. CASE req[r].copied /\ crossVolume
      BY <1>0, <2>1 DEF Arrived, Copying, Agreed, CopiedBack
    <2>2. CASE ~(req[r].copied /\ crossVolume)
      BY <2>2 DEF Arrived
    <2> QED
      BY <2>1, <2>2
  <1>7. \A q \in Request : ~Copying(q, "stow")' /\ ~Copying(q, "unstow")'
    BY <1>4, <1>5 DEF Copying, Removing, At
  <1>8. OneEach'
    BY <1>3 DEF Agreed, OneEach
  <1>9. LiveTurns(Other)'
    BY <1>0, <1>1, <1>2, <1>3 DEF Agreed, LiveTurns
  <1>10. TrashedTurns(Other)'
    BY <1>0, <1>1, <1>2, <1>3 DEF Agreed, TrashedTurns
  <1>11. LiveContent'
    BY <1>6, <1>7 DEF LiveContent
  <1>12. TrashedContent'
    <2> SUFFICES ASSUME Trashed PROVE TrashedContent'
      BY <1>1 DEF TrashedContent
    <2>1. \A s \in Request : ~Restoring(s)
      BY <1>5 DEF Agreed, TrashedTurns
    <2>2. \A s \in Request : ~Copying(s, "restow")'
      BY <1>4, <2>1 DEF Copying, Restoring, RestorePc, At
    <2> QED
      BY <1>6, <1>7, <2>2 DEF TrashedContent
  <1>13. CopiedBack'
    BY <1>6 DEF CopiedBack
  <1> QED
    BY <1>8, <1>9, <1>10, <1>11, <1>12, <1>13 DEF Agreed

\* A restore's move is over: what it leaves is in uploads/, or with a removal's.
LEMMA FetchArrives ==
  ASSUME VaultInv, NEW Other \in [Request -> Request], Agreed(Other), NEW s \in Request, At(s, "fetch"),
         NEW n \in Name, req[s].trash = n, Arrived(s, n, "uploads", "clear"), UNCHANGED row
  PROVE  Agreed(Other)'
  <1>0. /\ Kept({n, "uploads"}) /\ row' = row
        /\ req'[s].pc = "clear" /\ req'[s].trash = n /\ ~req'[s].copied
        /\ \A q \in Request \ {s} : req'[q] = req[q]
        /\ n \in Name /\ "uploads" \in Place /\ n \in Place
    BY PlacesDiffer DEF Arrived, Becomes
  <1>1. /\ Live' = Live /\ Trashed' = Trashed
    BY <1>0 DEF Live, Trashed
  <1>2. \A q \in Request : req'[q].trash = req[q].trash
    BY <1>0
  <1>3. \A q \in Request : /\ Removing(q)' = Removing(q) /\ Restoring(q)' = Restoring(q)
                           /\ Past(q)' = Past(q) /\ TurnsBack(q)' = TurnsBack(q)
                           /\ Unlocked(q)' => Unlocked(q) /\ q # s
                           /\ At(q, "unlock")' = At(q, "unlock") /\ At(q, "restow")' = At(q, "restow")
                           /\ At(q, "unstow")' = At(q, "unstow")
    BY <1>0 DEF At, Removing, Restoring, Unlocked, Past, TurnsBack, UploadPc, RestorePc
  <1>4. \A q \in Request : \A x \in {"stow", "unstow", "fetch", "restow"} :
          Copying(q, x)' => q # s /\ Copying(q, x)
    BY <1>0 DEF Copying, At
  <1>5. Restoring(s) /\ Unlocked(s) /\ \A q \in Request : Restoring(q) => q = s
    BY DEF Agreed, OneEach, Restoring, RestorePc, Unlocked, At
  <1>6. /\ Present("uploads") => Present("uploads")'
        /\ \A m \in Name \ {n} : InTrash(m)' = InTrash(m)
        /\ Present("uploads")' \/ Copying(s, "fetch")
    <2>1. CASE req[s].copied /\ crossVolume
      BY <1>0, <2>1, KeptTwo, PlacesDiffer DEF Arrived, Copying
    <2>2. CASE ~(req[s].copied /\ crossVolume)
      BY <1>0, <2>2, KeptTwo, PlacesDiffer DEF Arrived
    <2> QED
      BY <2>1, <2>2
  <1>7. \A q \in Request : Restoring(q)' => ~Unlocked(q)' /\ ~Copying(q, "fetch")' /\ ~Copying(q, "restow")'
    BY <1>3, <1>4, <1>5
  <1>8. \A q \in Request : ~Unlocked(q)' /\ ~Copying(q, "fetch")' /\ ~Copying(q, "restow")'
    BY <1>7 DEF Restoring, RestorePc, Unlocked, Copying, At
  <1>9. Copying(s, "fetch") => ~FetchPending
    BY <1>5 DEF FetchPending, Copying, Restoring, RestorePc, At
  <1>10. OneEach'
    BY <1>3 DEF Agreed, OneEach
  <1>11. LiveTurns(Other)'
    BY <1>0, <1>1, <1>2, <1>3, <1>8 DEF Agreed, LiveTurns
  <1>12. TrashedTurns(Other)'
    BY <1>0, <1>1, <1>2, <1>3 DEF Agreed, TrashedTurns
  <1>13. LiveContent'
    BY <1>1, <1>3, <1>6, <1>8, <1>9 DEF Agreed, LiveContent
  <1>14. TrashedContent'
    <2> SUFFICES ASSUME Trashed PROVE TrashedContent'
      BY <1>1 DEF TrashedContent
    <2>1. row.trash # n /\ row.trash \in Name
      BY <1>5 DEF Agreed, TrashedTurns, At
    <2>2. InTrash(row.trash)' = InTrash(row.trash)
      BY <1>0, <1>6, <2>1 DEF InTrash
    <2>3. Present("uploads")' \/ InTrash(row.trash)'
      BY <1>6, <2>2 DEF Agreed, TrashedContent
    <2>4. \A q \in Request : Copying(q, "stow")' => InTrash(q)'
      <3> SUFFICES ASSUME NEW q \in Request, Copying(q, "stow")' PROVE InTrash(q)'
        OBVIOUS
      <3>1. Copying(q, "stow")
        BY <1>4
      <3>2. q = row.trash /\ InTrash(q)
        BY <3>1 DEF Agreed, TrashedTurns, TrashedContent, Copying, Removing, At
      <3> QED
        BY <1>6, <2>1, <3>2
    <2> QED
      BY <1>8, <2>3, <2>4 DEF TrashedContent
  <1>15. CopiedBack'
    BY <1>4, <1>6 DEF Agreed, CopiedBack
  <1> QED
    BY <1>10, <1>11, <1>12, <1>13, <1>14, <1>15 DEF Agreed

\* A removed file's content is where the row says.
LEMMA RestowArrives ==
  ASSUME VaultInv, NEW Other \in [Request -> Request], Agreed(Other), NEW s \in Request, At(s, "restow"),
         NEW n \in Name, req[s].trash = n, Arrived(s, "uploads", n, "done"), UNCHANGED row, HasRow
  PROVE  Agreed(Other)'
  <1>0. /\ Kept({"uploads", n}) /\ row' = row
        /\ req'[s].pc = "done" /\ req'[s].trash = n /\ ~req'[s].copied
        /\ \A q \in Request \ {s} : req'[q] = req[q]
        /\ n \in Name /\ "uploads" \in Place /\ n \in Place
    BY PlacesDiffer DEF Arrived, Becomes
  <1>1. Trashed /\ Trashed' /\ ~Live'
    BY <1>0 DEF Live, Trashed, HasRow, Agreed, LiveTurns
  <1>2. \A q \in Request : req'[q].trash = req[q].trash
    BY <1>0
  <1>3. \A q \in Request : /\ Removing(q)' = Removing(q) /\ Past(q)' = Past(q)
                           /\ Restoring(q)' => Restoring(q) /\ q # s
                           /\ At(q, "unlock")' = At(q, "unlock")
                           /\ At(q, "unstow")' = At(q, "unstow")
    BY <1>0 DEF At, Removing, Restoring, Past, UploadPc, RestorePc
  <1>4. \A q \in Request : \A x \in {"stow", "unstow", "fetch", "restow"} :
          Copying(q, x)' => q # s /\ Copying(q, x)
    BY <1>0 DEF Copying, At
  <1>5. Restoring(s) /\ \A q \in Request : Restoring(q) => q = s
    BY DEF Agreed, OneEach, Restoring, RestorePc, At
  <1>6. \A q \in Request : ~Restoring(q)' /\ ~Copying(q, "fetch")' /\ ~Copying(q, "restow")'
    BY <1>3, <1>4, <1>5 DEF Copying, Restoring, RestorePc, At
  <1>7. n = row.trash /\ \A r \in Request : Removing(r) => r = row.trash
    BY <1>1, <1>5 DEF Agreed, TrashedTurns
  <1>8. InTrash(n)'
    <2>1. CASE req[s].copied /\ crossVolume
      <3>1. InTrash(n)
        BY <1>1, <1>7, <2>1 DEF Agreed, TrashedContent, Copying
      <3> QED
        BY <2>1, <3>1 DEF Arrived, InTrash
    <2>2. CASE ~(req[s].copied /\ crossVolume)
      BY <1>0, <2>2 DEF Arrived, InTrash
    <2> QED
      BY <2>1, <2>2
  <1>9. OneEach'
    BY <1>3 DEF Agreed, OneEach
  <1>10. LiveTurns(Other)'
    BY <1>1 DEF LiveTurns
  <1>11. TrashedTurns(Other)'
    BY <1>0, <1>1, <1>2, <1>3, <1>6 DEF Agreed, TrashedTurns
  <1>12. LiveContent'
    BY <1>1 DEF LiveContent
  <1>13. TrashedContent'
    <2>1. InTrash(row.trash)'
      BY <1>0, <1>7, <1>8 DEF InTrash
    <2>2. \A q \in Request : Copying(q, "stow")' => q = n
      BY <1>4, <1>7 DEF Copying, Removing, At
    <2> QED
      BY <1>6, <1>8, <2>1, <2>2 DEF TrashedContent
  <1>14. CopiedBack'
    <2>1. \A q \in Request : ~At(q, "unstow")
      <3> SUFFICES ASSUME NEW q \in Request, At(q, "unstow") PROVE FALSE
        OBVIOUS
      <3>1. q = row.trash /\ row.trash = Other[s] /\ ~At(Other[s], "unstow")
        BY <1>1, <1>5, <1>7 DEF Agreed, TrashedTurns, Removing, At
      <3> QED
        BY <3>1
    <2> QED
      BY <1>3, <2>1 DEF CopiedBack, Copying
  <1> QED
    BY <1>9, <1>10, <1>11, <1>12, <1>13, <1>14 DEF Agreed

-----------------------------------------------------------------------------
(* The steps that change the row.  A removal's UPDATE: its partner may be past its
   own UPDATE, with an older trash path in hand, and nobody else moves content.   *)
LEMMA LockAgreed ==
  ASSUME VaultInv, NEW Other \in [Request -> Request], \A r \in Request : Other[Other[r]] = r,
         Agreed(Other), InPairs(Other), NEW r \in Request, At(r, "lock"), Live,
         Becomes(r, "verify", req[r].trash), Kept({}), row'.state = "trashed", row'.trash = r
  PROVE  Agreed(Other)'
  <1>0. /\ req'[r].pc = "verify" /\ req'[r].trash = req[r].trash /\ ~req'[r].copied
        /\ \A q \in Request \ {r} : req'[q] = req[q]
        /\ r \in Name
    BY PlacesDiffer DEF Becomes
  <1>1. ~Live' /\ Trashed'
    BY DEF Live, Trashed
  <1>2. \A q \in Request : req'[q].trash = req[q].trash
    BY <1>0
  <1>3. \A q \in Request : /\ Restoring(q)' = Restoring(q) /\ (Past(q) => Past(q)')
                           /\ (Removing(q)' => Removing(q) \/ q = r)
                           /\ At(q, "unlock")' = At(q, "unlock") /\ At(q, "restow")' = At(q, "restow")
                           /\ At(q, "unstow")' = At(q, "unstow") /\ At(q, "fetch")' = At(q, "fetch")
    BY <1>0 DEF At, Removing, Restoring, Past, UploadPc, RestorePc
  <1>4. \A q \in Request : \A x \in {"stow", "unstow", "fetch", "restow"} :
          Copying(q, x)' => q # r /\ Copying(q, x)
    BY <1>0 DEF Copying, At
  <1>5. \A q \in Request : Removing(q) \/ Restoring(q) \/ At(q, "unlock") => q # r /\ q = Other[r] /\ Other[q] = r
    <2> SUFFICES ASSUME NEW q \in Request, Removing(q) \/ Restoring(q) \/ At(q, "unlock")
                 PROVE  q # r /\ q = Other[r] /\ Other[q] = r
      OBVIOUS
    <2>1. InFlight(q) /\ InFlight(r) /\ q # r
      BY DEF InFlight, Removing, Restoring, RestorePc, At
    <2>2. q = Other[r]
      BY <2>1 DEF InPairs
    <2> QED
      BY <2>1, <2>2
  <1>6. ~Past(r)
    BY DEF Past, At
  <1>7. \A q \in Request : ~Removing(q) /\ ~At(q, "unlock") /\ ~At(q, "restow")
    BY <1>5, <1>6 DEF Agreed, LiveTurns
  <1>8. \A q \in Request : req[q].trash # r
    BY DEF VaultInv, NamesOnce, Begun, At
  <1>9. OneEach'
    BY <1>3, <1>7 DEF Agreed, OneEach
  <1>10. LiveTurns(Other)'
    BY <1>1 DEF LiveTurns
  <1>11. TrashedTurns(Other)'
    <2>1. \A q \in Request : Removing(q)' => q = r
      BY <1>3, <1>7
    <2>2. \A s \in Request : ~At(s, "unlock")' /\ ~At(s, "restow")'
      BY <1>3, <1>7
    <2>3. ASSUME NEW s \in Request, Restoring(s)'
          PROVE  Other[s] = r /\ Past(Other[s])' /\ ~At(Other[s], "unstow")'
      <3>1. Restoring(s) /\ Other[s] = r
        BY <1>3, <1>5, <2>3
      <3> QED
        BY <1>0, <3>1 DEF Past, At, UploadPc
    <2> QED
      BY <1>0, <1>2, <1>8, <2>1, <2>2, <2>3 DEF TrashedTurns
  <1>12. LiveContent'
    BY <1>1 DEF LiveContent
  <1>13. Present("uploads") \/ FetchPending
    <2>1. \A q \in Request : ~TurnsBack(q)
      BY <1>7 DEF TurnsBack, Removing
    <2> QED
      BY <2>1 DEF Agreed, LiveContent
  <1>14. TrashedContent'
    <2>1. FetchPending => FetchPending'
      BY <1>0, <1>3, <1>7, KeptTrash DEF FetchPending, At, InTrash
    <2>2. \A q \in Request : ~Copying(q, "stow")' /\ ~Copying(q, "restow")'
      BY <1>4, <1>7 DEF Copying, Removing, At
    <2>3. ASSUME NEW s \in Request, Copying(s, "fetch")' PROVE Present("uploads")'
      <3>1. Copying(s, "fetch")
        BY <1>4, <2>3
      <3>2. ~FetchPending
        BY <3>1 DEF FetchPending, Copying, At, Agreed, OneEach, Restoring, RestorePc
      <3> QED
        BY <1>13, <3>2, KeptTrash
    <2> QED
      BY <1>13, <2>1, <2>2, <2>3, KeptTrash DEF TrashedContent
  <1>15. CopiedBack'
    BY <1>4, KeptTrash DEF Agreed, CopiedBack
  <1> QED
    BY <1>9, <1>10, <1>11, <1>12, <1>14, <1>15 DEF Agreed

\* A restore reads the row: the trash path in hand is the row's.
LEMMA ReadAgreed ==
  ASSUME VaultInv, NEW Other \in [Request -> Request], Agreed(Other), NEW r \in Request, At(r, "idle"),
         Trashed, NEW n, n = row.trash, Becomes(r, "unlock", n), Kept({}), UNCHANGED row
  PROVE  Agreed(Other)'
  <1>0. /\ req'[r].pc = "unlock" /\ req'[r].trash = n /\ ~req'[r].copied /\ row' = row
        /\ \A q \in Request \ {r} : req'[q] = req[q]
    BY DEF Becomes
  <1>1. Trashed' /\ ~Live' /\ ~Live
    BY <1>0 DEF Live, Trashed
  <1>2. \A q \in Request : /\ Removing(q)' = Removing(q) /\ Past(q)' = Past(q)
                           /\ Restoring(q)' = Restoring(q) /\ (Restoring(q) => q # r)
                           /\ (At(q, "unlock")' => At(q, "unlock") \/ q = r)
                           /\ At(q, "restow")' = At(q, "restow")
                           /\ At(q, "unstow")' = At(q, "unstow") /\ At(q, "fetch")' = At(q, "fetch")
                           /\ (q # r => req'[q].trash = req[q].trash)
    BY <1>0 DEF At, Removing, Restoring, Past, UploadPc, RestorePc
  <1>3. \A q \in Request : \A x \in {"stow", "unstow", "fetch", "restow"} :
          Copying(q, x)' => Copying(q, x)
    BY <1>0 DEF Copying, At
  <1>4. OneEach'
    BY <1>2 DEF Agreed, OneEach
  <1>5. LiveTurns(Other)' /\ LiveContent'
    BY <1>1 DEF LiveTurns, LiveContent
  <1>6. TrashedTurns(Other)'
    BY <1>0, <1>1, <1>2 DEF Agreed, TrashedTurns
  <1>7. FetchPending => FetchPending'
    BY <1>0, KeptTrash DEF FetchPending, At, InTrash
  <1>8. TrashedContent'
    BY <1>0, <1>1, <1>3, <1>7, KeptTrash DEF Agreed, TrashedContent, InTrash
  <1>9. CopiedBack'
    BY <1>3, KeptTrash DEF Agreed, CopiedBack
  <1> QED
    BY <1>4, <1>5, <1>6, <1>8, <1>9 DEF Agreed

(* A restore's UPDATE: no other restore moves content, and a removal that still
   does is the one whose trash path is in hand.                                 *)
LEMMA UnlockAgreed ==
  ASSUME VaultInv, NEW Other \in [Request -> Request], \A r \in Request : Other[Other[r]] = r,
         Agreed(Other), InPairs(Other), NEW s \in Request, At(s, "unlock"), Trashed,
         Becomes(s, "fetch", req[s].trash), Kept({}), row'.state = "live", row'.trash = row.trash
  PROVE  Agreed(Other)'
  <1>0. /\ req'[s].pc = "fetch" /\ req'[s].trash = req[s].trash /\ ~req'[s].copied
        /\ \A q \in Request \ {s} : req'[q] = req[q]
    BY DEF Becomes
  <1>1. Live' /\ ~Trashed'
    BY DEF Live, Trashed
  <1>2. \A q \in Request : req'[q].trash = req[q].trash
    BY <1>0
  <1>3. \A q \in Request : /\ Removing(q)' = Removing(q) /\ (Past(q) => Past(q)')
                           /\ (Restoring(q)' => Restoring(q) \/ q = s)
                           /\ (At(q, "unlock")' => At(q, "unlock") /\ q # s)
                           /\ At(q, "restow")' = At(q, "restow")
    BY <1>0 DEF At, Removing, Restoring, Past, UploadPc, RestorePc
  <1>4. \A q \in Request : \A x \in {"stow", "unstow", "fetch", "restow"} :
          Copying(q, x)' => q # s /\ Copying(q, x)
    BY <1>0 DEF Copying, At
  <1>5. \A q \in Request : Removing(q) \/ Restoring(q) \/ (At(q, "unlock") /\ q # s) =>
          q # s /\ Other[q] = s
    <2> SUFFICES ASSUME NEW q \in Request, Removing(q) \/ Restoring(q) \/ (At(q, "unlock") /\ q # s)
                 PROVE  q # s /\ Other[q] = s
      OBVIOUS
    <2>1. InFlight(q) /\ InFlight(s) /\ q # s
      BY DEF InFlight, Removing, Restoring, RestorePc, At
    <2> QED
      BY <2>1 DEF InPairs
  <1>6. ~Past(s) /\ Past(s)'
    BY <1>0 DEF Past, At, UploadPc
  <1>7. \A q \in Request : ~Restoring(q)
    BY <1>5, <1>6 DEF Agreed, TrashedTurns
  <1>8. /\ row.trash \in Name /\ \A q \in Request : Removing(q) => q = row.trash
        /\ \A q \in Request : At(q, "unlock") => req[q].trash = row.trash
    BY DEF Agreed, TrashedTurns
  <1>9. \A q \in Request : /\ Unlocked(q)' => q = s
                           /\ Copying(q, "fetch")' \/ Copying(q, "restow")' => FALSE
    BY <1>0, <1>4, <1>7 DEF Unlocked, Restoring, RestorePc, Copying, At
  <1>10. OneEach'
    BY <1>3, <1>7 DEF Agreed, OneEach
  <1>11. LiveTurns(Other)'
    <2>1. \A q \in Request : ~At(q, "restow")'
      BY <1>3, <1>7 DEF Restoring, RestorePc, At
    <2> QED
      BY <1>2, <1>3, <1>5, <1>6, <1>8, <1>9, <2>1 DEF LiveTurns
  <1>12. TrashedTurns(Other)' /\ TrashedContent'
    BY <1>1 DEF TrashedTurns, TrashedContent
  <1>13. Present("uploads") \/ InTrash(row.trash)
    BY <1>7 DEF Agreed, TrashedContent, FetchPending, Restoring, RestorePc, At
  <1>14. LiveContent'
    <2>1. InTrash(row.trash) => FetchPending' /\ InTrash(row.trash)'
      <3> SUFFICES ASSUME InTrash(row.trash) PROVE FetchPending' /\ InTrash(row.trash)'
        OBVIOUS
      <3>1. row'.trash \in Name /\ Present(row.trash)'
        BY <1>8, KeptTrash DEF InTrash
      <3>2. req'[s].trash = row'.trash
        BY <1>0, <1>8
      <3> QED
        BY <1>0, <3>1, <3>2 DEF FetchPending, InTrash, Present, At
    <2>2. \A q \in Request : Copying(q, "stow")' => InTrash(q)'
      <3> SUFFICES ASSUME NEW q \in Request, Copying(q, "stow")' PROVE InTrash(q)'
        OBVIOUS
      <3>1. InTrash(q)
        BY <1>4 DEF Agreed, TrashedContent
      <3> QED
        BY <3>1, KeptTrash
    <2> QED
      BY <1>13, <2>1, <2>2, KeptTrash DEF LiveContent
  <1>15. CopiedBack'
    BY <1>4, KeptTrash DEF Agreed, CopiedBack
  <1> QED
    BY <1>10, <1>11, <1>12, <1>14, <1>15 DEF Agreed

\* A restore gives up: the trash path in hand is still the row's.
LEMMA RollbackAgreed ==
  ASSUME VaultInv, NEW Other \in [Request -> Request], Agreed(Other), NEW s \in Request,
         At(s, "rollback"), Live,
         Becomes(s, "done", req[s].trash), Kept({}), row'.state = "trashed", row'.trash = row.trash
  PROVE  Agreed(Other)'
  <1>0. /\ req'[s].pc = "done" /\ req'[s].trash = req[s].trash /\ ~req'[s].copied
        /\ \A q \in Request \ {s} : req'[q] = req[q]
    BY DEF Becomes
  <1>1. ~Live' /\ Trashed'
    BY DEF Live, Trashed
  <1>2. \A q \in Request : req'[q].trash = req[q].trash
    BY <1>0
  <1>3. \A q \in Request : /\ Removing(q)' = Removing(q)
                           /\ (Restoring(q)' => Restoring(q) /\ q # s)
                           /\ At(q, "unlock")' = At(q, "unlock")
    BY <1>0 DEF At, Removing, Restoring, RestorePc
  <1>4. \A q \in Request : \A x \in {"stow", "unstow", "fetch", "restow"} :
          Copying(q, x)' => q # s /\ Copying(q, x)
    BY <1>0 DEF Copying, At
  <1>5. Unlocked(s) /\ Restoring(s)
    BY DEF Unlocked, Restoring, RestorePc, At
  <1>6. \A q \in Request : ~Restoring(q)'
    BY <1>3, <1>5 DEF Agreed, OneEach
  <1>7. /\ row.trash \in Name /\ \A q \in Request : Removing(q) => q = row.trash
        /\ \A q \in Request : At(q, "unlock") => req[q].trash = row.trash
        /\ Present("uploads") \/ InTrash(row.trash)
        /\ \A q \in Request : Copying(q, "stow") => InTrash(q)
    BY <1>5 DEF Agreed, LiveTurns, LiveContent
  <1>8. OneEach'
    BY <1>3 DEF Agreed, OneEach
  <1>9. LiveTurns(Other)' /\ LiveContent'
    BY <1>1 DEF LiveTurns, LiveContent
  <1>10. TrashedTurns(Other)'
    BY <1>2, <1>3, <1>6, <1>7 DEF TrashedTurns
  <1>11. TrashedContent'
    <2>1. \A q \in Request : ~Copying(q, "fetch")' /\ ~Copying(q, "restow")'
      BY <1>6 DEF Copying, Restoring, RestorePc, At
    <2>2. Present("uploads")' \/ InTrash(row.trash)'
      BY <1>7, KeptTrash DEF InTrash, Present
    <2>3. \A q \in Request : Copying(q, "stow")' => InTrash(q)'
      BY <1>4, <1>7, KeptTrash DEF InTrash
    <2> QED
      BY <2>1, <2>2, <2>3 DEF TrashedContent
  <1>12. CopiedBack'
    BY <1>4, KeptTrash DEF Agreed, CopiedBack
  <1> QED
    BY <1>8, <1>9, <1>10, <1>11, <1>12 DEF Agreed

\* A restore that has moved the content forgets the trash path.
LEMMA ClearAgreed ==
  ASSUME VaultInv, NEW Other \in [Request -> Request], Agreed(Other), NEW s \in Request,
         At(s, "clear"), Live,
         Becomes(s, "recheckRestored", req[s].trash), Kept({}), row'.state = "live"
  PROVE  Agreed(Other)'
  <1>0. /\ req'[s].pc = "recheckRestored" /\ req'[s].trash = req[s].trash /\ ~req'[s].copied
        /\ \A q \in Request \ {s} : req'[q] = req[q]
    BY DEF Becomes
  <1>1. Live' /\ ~Trashed'
    BY DEF Live, Trashed
  <1>2. \A q \in Request : req'[q].trash = req[q].trash
    BY <1>0
  <1>3. \A q \in Request : /\ Removing(q)' = Removing(q) /\ Restoring(q)' = Restoring(q)
                           /\ Past(q)' = Past(q) /\ TurnsBack(q)' = TurnsBack(q)
                           /\ Unlocked(q)' = Unlocked(q)
                           /\ At(q, "unlock")' = At(q, "unlock") /\ At(q, "restow")' = At(q, "restow")
    BY <1>0 DEF At, Removing, Restoring, Unlocked, Past, TurnsBack, UploadPc, RestorePc
  <1>4. \A q \in Request : \A x \in {"stow", "unstow", "fetch", "restow"} :
          Copying(q, x)' => q # s /\ Copying(q, x)
    BY <1>0 DEF Copying, At
  <1>5. \A q \in Request : ~Unlocked(q)
    BY DEF Agreed, OneEach, Unlocked, Restoring, RestorePc, At
  <1>6. ~FetchPending
    BY <1>5 DEF FetchPending, Unlocked, At
  <1>7. OneEach'
    BY <1>3 DEF Agreed, OneEach
  <1>8. LiveTurns(Other)'
    BY <1>2, <1>3, <1>5 DEF Agreed, LiveTurns
  <1>9. TrashedTurns(Other)' /\ TrashedContent'
    BY <1>1 DEF TrashedTurns, TrashedContent
  <1>10. LiveContent'
    BY <1>3, <1>5, <1>6, KeptTrash DEF Agreed, LiveContent
  <1>11. CopiedBack'
    BY <1>4, KeptTrash DEF Agreed, CopiedBack
  <1> QED
    BY <1>7, <1>8, <1>9, <1>10, <1>11 DEF Agreed

\* A restore sees the removal that overtook it, and takes its trash path.
LEMMA TurnAgreed ==
  ASSUME VaultInv, NEW Other \in [Request -> Request], Agreed(Other), NEW s \in Request,
         At(s, "recheckRestored"), Trashed, ~req[s].copied,
         NEW n, n = row.trash, Becomes(s, "restow", n), Kept({}), UNCHANGED row
  PROVE  Agreed(Other)'
  <1>0. /\ req'[s].pc = "restow" /\ req'[s].trash = n /\ ~req'[s].copied /\ row' = row
        /\ \A q \in Request \ {s} : req'[q] = req[q]
    BY DEF Becomes
  <1>1. Trashed' /\ ~Live' /\ ~Live
    BY <1>0 DEF Live, Trashed
  <1>2. \A q \in Request : /\ Removing(q)' = Removing(q) /\ Past(q)' = Past(q)
                           /\ Restoring(q)' = Restoring(q)
                           /\ At(q, "unlock")' = At(q, "unlock")
                           /\ (At(q, "unlock") => q # s)
                           /\ (q # s => At(q, "restow")' = At(q, "restow"))
                           /\ At(q, "unstow")' = At(q, "unstow")
                           /\ (q # s => req'[q].trash = req[q].trash)
    BY <1>0 DEF At, Removing, Restoring, Past, UploadPc, RestorePc
  <1>3. \A q \in Request : \A x \in {"stow", "unstow", "fetch", "restow"} :
          Copying(q, x)' => Copying(q, x)
    BY <1>0 DEF Copying, At
  <1>4. OneEach'
    BY <1>2 DEF Agreed, OneEach
  <1>5. LiveTurns(Other)' /\ LiveContent'
    BY <1>1 DEF LiveTurns, LiveContent
  <1>6. TrashedTurns(Other)'
    <2>1. At(s, "restow")' /\ req'[s].trash = row'.trash
      BY <1>0 DEF At
    <2> QED
      BY <1>0, <1>1, <1>2, <2>1 DEF Agreed, TrashedTurns
  <1>7. FetchPending => FetchPending'
    BY <1>0, KeptTrash DEF FetchPending, At, InTrash
  <1>8. TrashedContent'
    BY <1>0, <1>1, <1>3, <1>7, KeptTrash DEF Agreed, TrashedContent, InTrash
  <1>9. CopiedBack'
    BY <1>3, KeptTrash DEF Agreed, CopiedBack
  <1> QED
    BY <1>4, <1>5, <1>6, <1>8, <1>9 DEF Agreed

\* An upload's row is inserted: its content is there, and nobody else does anything.
LEMMA InsertAgreed ==
  ASSUME VaultInv, NEW Other \in [Request -> Request], NEW r \in Request, At(r, "insert"),
         Becomes(r, "done", req[r].trash), Kept({}), row'.state = "live"
  PROVE  Agreed(Other)'
  <1>0. /\ req'[r].pc = "done" /\ ~req'[r].copied
        /\ \A q \in Request \ {r} : req'[q] = req[q]
    BY DEF Becomes
  <1>1. row.state = "none" /\ Present("uploads")
    BY DEF VaultInv, UploadsAlone, UploadPc, At, Present
  <1>2. \A q \in Request : req'[q].pc \in {"idle", "done"} \cup UploadPc
    BY <1>0, <1>1 DEF VaultInv, NothingYet
  <1>3. \A q \in Request : /\ ~Removing(q)' /\ ~Restoring(q)' /\ ~Unlocked(q)'
                           /\ \A x \in {"stow", "unstow", "fetch", "restow", "unlock"} : ~At(q, x)'
    BY <1>2 DEF Removing, Restoring, RestorePc, Unlocked, At, UploadPc
  <1>4. ~Trashed' /\ Present("uploads")'
    BY <1>1, KeptTrash DEF Trashed
  <1> QED
    BY <1>3, <1>4 DEF Agreed, OneEach, LiveTurns, TrashedTurns, LiveContent, TrashedContent,
       CopiedBack, Copying

-----------------------------------------------------------------------------
\* Without a step of a request: no request moves, and what anyone counts on stays.
LEMMA StillAgreed ==
  ASSUME VaultInv, NEW Other \in [Request -> Request], Agreed(Other), UNCHANGED req,
         row'.state = row.state, row'.trash = row.trash,
         Present("uploads") => Present("uploads")',
         HasRow /\ InTrash(row.trash) => InTrash(row.trash)',
         \A s \in Request : Unlocked(s) /\ InTrash(req[s].trash) => InTrash(req[s].trash)',
         HasRow
  PROVE  Agreed(Other)'
  <1>1. Live' = Live /\ Trashed' = Trashed
    BY DEF Live, Trashed
  <1>2. \A q \in Request : /\ Removing(q)' = Removing(q) /\ Past(q)' = Past(q)
                           /\ Restoring(q)' = Restoring(q) /\ Unlocked(q)' = Unlocked(q)
                           /\ TurnsBack(q)' = TurnsBack(q)
    BY DEF Removing, Past, Restoring, Unlocked, TurnsBack
  <1>3. \A q \in Request, pc \in VaultPc : At(q, pc)' = At(q, pc) /\ Copying(q, pc)' = Copying(q, pc)
    BY DEF At, Copying
  <1>4. {"unlock", "restow", "unstow", "fetch", "stow"} \subseteq VaultPc
    BY DEF VaultPc, RemovePc, RestorePc
  <1>5. FetchPending => FetchPending'
    BY DEF FetchPending, At, Unlocked
  <1>6. \A q \in Request : Copying(q, "stow") => Removing(q)
    BY DEF Copying, At, Removing
  <1>7. OneEach'
    BY <1>2 DEF Agreed, OneEach
  <1>8. LiveTurns(Other)'
    BY <1>1, <1>2, <1>3, <1>4 DEF Agreed, LiveTurns
  <1>9. TrashedTurns(Other)'
    BY <1>1, <1>2, <1>3, <1>4 DEF Agreed, TrashedTurns
  <1>10. LiveContent'
    <2> SUFFICES ASSUME Live PROVE LiveContent'
      BY <1>1 DEF LiveContent
    <2>1. \A q, s \in Request : Copying(q, "stow")' /\ Unlocked(s)' => InTrash(q)'
      <3> SUFFICES ASSUME NEW q \in Request, NEW s \in Request, Copying(q, "stow")', Unlocked(s)'
                   PROVE  InTrash(q)'
        OBVIOUS
      <3>1. q = row.trash /\ InTrash(q)
        BY <1>2, <1>3, <1>4, <1>6 DEF Agreed, LiveTurns, LiveContent
      <3>2. InTrash(row.trash)'
        BY <3>1
      <3> QED
        BY <3>1, <3>2 DEF InTrash
    <2> QED
      BY <1>2, <1>5, <2>1 DEF Agreed, LiveContent
  <1>11. TrashedContent'
    <2> SUFFICES ASSUME Trashed PROVE TrashedContent'
      BY <1>1 DEF TrashedContent
    <2>1. \A q \in Request : Copying(q, "stow")' => InTrash(q)'
      <3> SUFFICES ASSUME NEW q \in Request, Copying(q, "stow")' PROVE InTrash(q)'
        OBVIOUS
      <3>1. q = row.trash /\ InTrash(q)
        BY <1>3, <1>4, <1>6 DEF Agreed, TrashedTurns, TrashedContent
      <3>2. InTrash(row.trash)'
        BY <3>1
      <3> QED
        BY <3>1, <3>2 DEF InTrash
    <2> QED
      BY <1>3, <1>4, <1>5, <2>1 DEF Agreed, TrashedContent
  <1>12. CopiedBack'
    BY <1>3, <1>4 DEF Agreed, CopiedBack
  <1> QED
    BY <1>7, <1>8, <1>9, <1>10, <1>11, <1>12 DEF Agreed

\* The cleaner spares uploads/ and the row's trash path, and says when it takes a restore's.
LEMMA CleanerAgreed ==
  ASSUME VaultInv, NEW Other \in [Request -> Request], Agreed(Other), CleanerStep, HasRow', excuses' = {}
  PROVE  Agreed(Other)'
  <1>0. UNCHANGED <<row, req>> /\ HasRow
    BY DEF CleanerStep, ListUploads, MatchUploads, SweepUploads, ListTrash, MatchTrash, SweepTrash, HasRow
  <1>1. \A p \in Place : disk'[p] = disk[p] \/ p \in cleaner.marked
    BY DEF CleanerStep, ListUploads, MatchUploads, SweepUploads, ListTrash, MatchTrash, SweepTrash,
       VaultInv, VaultTyped, TypeOK
  <1>2. CASE ~SweepUploads /\ ~SweepTrash
    <2>1. disk' = disk
      BY <1>2 DEF CleanerStep, ListUploads, MatchUploads, ListTrash, MatchTrash
    <2> QED
      BY <1>0, <2>1, StillAgreed DEF Present, InTrash
  <1>3. CASE SweepUploads
    <2>1. cleaner.marked = {}
      BY <1>0, <1>3 DEF SweepUploads, VaultInv, MarksListed, MarksOrphaned
    <2>2. \A p \in Place : disk'[p] = disk[p]
      BY <1>1, <2>1
    <2> QED
      BY <1>0, <2>2, StillAgreed, PlacesDiffer DEF Present, InTrash
  <1>4. CASE SweepTrash
    <2>1. cleaner.marked \subseteq Name /\ row.trash \notin cleaner.marked
      BY <1>0, <1>4 DEF SweepTrash, VaultInv, MarksListed, MarksOrphaned
    <2>2. \A s \in Request : Unlocked(s) => req[s].trash \notin cleaner.marked
      BY <1>4 DEF SweepTrash
    <2> QED
      BY <1>0, <1>1, <2>1, <2>2, StillAgreed, PlacesDiffer DEF Present, InTrash
  <1> QED
    BY <1>2, <1>3, <1>4

LEMMA PurgerAgreed ==
  ASSUME VaultInv, NEW Other \in [Request -> Request], HasRow => Agreed(Other), PurgerStep, HasRow'
  PROVE  Agreed(Other)'
  <1>1. ~PurgeContent
    BY DEF PurgeContent, VaultInv, PurgedGone, HasRow
  <1>2. PurgeRow /\ UNCHANGED <<disk, req>>
    BY <1>1 DEF PurgerStep, PurgeRow
  <1>3. row' = row
    <2>1. row \in Row
      BY DEF VaultInv, VaultTyped, TypeOK
    <2> QED
      BY <1>2, <2>1 DEF PurgeRow, HasRow, Row
  <1> QED
    BY <1>2, <1>3, StillAgreed DEF Present, InTrash, HasRow

LEMMA TimeAgreed ==
  ASSUME VaultInv, NEW Other \in [Request -> Request], HasRow => Agreed(Other), TimePasses, HasRow'
  PROVE  Agreed(Other)'
  <1>1. UNCHANGED req
    BY DEF TimePasses
  <1>2. row'.state = row.state /\ row'.trash = row.trash
    <2>1. row \in Row
      BY DEF VaultInv, VaultTyped, TypeOK
    <2> DEFINE a == Older[row.age]
    <2>2. row' = row \/ row' = [row EXCEPT !.age = a]
      BY DEF TimePasses
    <2> HIDE DEF a
    <2> QED
      BY <2>1, <2>2 DEF Row
  <1>3. \A p \in Place : Present(p) => Present(p)'
    <2>1. ASSUME NEW a \in Age PROVE Older[a] # "absent"
      BY <2>1 DEF Older, Age
    <2>2. \A p \in Place : disk'[p] = Older[disk[p]] /\ disk[p] \in Age \cup {"absent"}
      BY DEF TimePasses, VaultInv, VaultTyped, TypeOK
    <2> QED
      BY <2>1, <2>2 DEF Present
  <1> QED
    BY <1>1, <1>2, <1>3, StillAgreed, PlacesDiffer DEF HasRow, InTrash

\* A restart ends everything: neither half of a restore is left, or it is an excuse.
LEMMA RestartAgreed ==
  ASSUME VaultInv, NEW Other \in [Request -> Request], HasRow => Agreed(Other), Restart, HasRow',
         excuses' = {}
  PROVE  Agreed(Other)'
  <1>0. /\ \A q \in Request : req'[q].pc \in {"idle", "done"}
        /\ UNCHANGED <<row, disk>>
    BY RestartIs DEF VaultInv
  <1>1. \A q \in Request : ~Unlocked(q) /\ ~Overtaken(q)
    BY DEF Restart
  <1>2. \A q \in Request : /\ ~Removing(q)' /\ ~Restoring(q)' /\ ~Unlocked(q)'
                           /\ \A x \in {"stow", "unstow", "fetch", "restow", "unlock"} : ~At(q, x)'
    BY <1>0 DEF Removing, Restoring, RestorePc, Unlocked, At
  <1>3. ~FetchPending
    BY <1>1 DEF FetchPending, Unlocked, At
  <1>4. Agreed(Other)
    BY <1>0 DEF HasRow
  <1>5. Live => Present("uploads")
    BY <1>1, <1>3, <1>4 DEF Agreed, LiveContent, TurnsBack, Overtaken, Live
  <1>6. LiveTurns(Other)' /\ LiveContent'
    BY <1>0, <1>2, <1>5 DEF LiveTurns, LiveContent, Live, Present, Copying
  <1>7. TrashedTurns(Other)' /\ TrashedContent'
    BY <1>0, <1>2, <1>3, <1>4 DEF Agreed, TrashedTurns, TrashedContent, Trashed, Present, InTrash, Copying
  <1> QED
    BY <1>2, <1>6, <1>7 DEF Agreed, OneEach, CopiedBack, Copying

-----------------------------------------------------------------------------
(* The steps of a request, one by one.  StepsOn is the same for all that go on
   within a phase or end.                                                       *)
LEMMA GoesOn ==
  ASSUME VaultInv, NEW Other \in [Request -> Request], Agreed(Other), NEW r \in Request,
         NEW pc \in VaultPc, Goto(r, pc), UNCHANGED <<row, disk>>,
         \/ req[r].pc = "idle" /\ pc = "lock"
         \/ req[r].pc = "verify" /\ pc = "stow"
         \/ req[r].pc = "recheckRemoved" /\ pc = "unstow" /\ Live
         \/ req[r].pc = "fetch" /\ pc = "probe" /\ ~InTrash(req[r].trash)
         \/ req[r].pc = "probe" /\ pc \in {"clear", "rollback"}
         \/ req[r].pc = "clear" /\ pc = "recheckRestored"
         \/ req[r].pc \notin {"fetch", "recheckRemoved", "unstow"} /\ pc = "done"
         \/ req[r].pc = "recheckRemoved" /\ pc = "done" /\ ~Live
  PROVE  Agreed(Other)'
  <1>1. Becomes(r, pc, req[r].trash)
    BY GotoBecomes DEF VaultInv
  <1>2. Kept({})
    BY DEF Kept, Present
  <1>3. req'[r].pc = pc
    BY <1>1 DEF Becomes
  <1>4. pc \notin {"unlock", "fetch", "restow"} /\ (pc = "unstow" => Live)
    OBVIOUS
  <1>5. /\ (Removing(r)' => Removing(r)) /\ (Restoring(r)' => Restoring(r) /\ ~At(r, "restow"))
        /\ (Unlocked(r)' => Unlocked(r)) /\ (Past(r) => Past(r)')
        /\ (Live /\ TurnsBack(r) => TurnsBack(r)')
        /\ (At(r, "fetch") => ~InTrash(req[r].trash))
    BY <1>3 DEF Removing, Restoring, RestorePc, Unlocked, Past, UploadPc, TurnsBack, At
  <1>6. StepsOn(r, pc)
    BY <1>1, <1>2, <1>4, <1>5 DEF StepsOn
  <1> QED
    BY <1>6, StepsOnAgreed

\* A refused move is a step within the phase, or ends it.
LEMMA RefusedGoesOn ==
  ASSUME VaultInv, NEW Other \in [Request -> Request], Agreed(Other), NEW r \in Request,
         NEW from, NEW failed \in VaultPc, Refused(r, from, failed), UNCHANGED row,
         \/ req[r].pc = "stow" /\ failed = "done"
         \/ req[r].pc = "fetch" /\ failed = "probe" /\ from = req[r].trash
  PROVE  Agreed(Other)'
  <1>1. Becomes(r, failed, req[r].trash) /\ Kept({}) /\ ~Present(from)
    BY DEF Refused
  <1>2. req'[r].pc = failed
    BY <1>1 DEF Becomes
  <1>3. failed \notin {"unlock", "fetch", "restow", "unstow"}
    OBVIOUS
  <1>4. /\ (Removing(r)' => Removing(r)) /\ (Restoring(r)' => Restoring(r) /\ ~At(r, "restow"))
        /\ (Unlocked(r)' => Unlocked(r)) /\ (Past(r) => Past(r)')
        /\ (Live /\ TurnsBack(r) => TurnsBack(r)')
    BY <1>2 DEF Removing, Restoring, RestorePc, Unlocked, Past, UploadPc, TurnsBack, At
  <1>5. At(r, "fetch") => ~InTrash(req[r].trash)
    BY <1>1 DEF At, InTrash
  <1>6. StepsOn(r, failed)
    BY <1>1, <1>3, <1>4, <1>5 DEF StepsOn
  <1> QED
    BY <1>6, StepsOnAgreed

LEMMA UploadStepAgreed ==
  ASSUME VaultInv, NEW Other \in [Request -> Request], NEW r \in Request, UploadStep(r), HasRow'
  PROVE  Agreed(Other)'
  <1>1. ~StartUpload(r)
    BY DEF StartUpload, HasRow
  <1>2. ~Validate(r) /\ ~Discard(r)
    BY DEF Validate, Discard, At, UploadPc, VaultInv, UploadsAlone, HasRow
  <1>3. At(r, "insert") /\ Goto(r, "done") /\ UNCHANGED disk /\ row' = [row EXCEPT !.state = "live"]
    BY <1>1, <1>2 DEF UploadStep, InsertRow, Done
  <1>4. row'.state = "live"
    BY <1>3 DEF VaultInv, VaultTyped, TypeOK, Row
  <1>5. Becomes(r, "done", req[r].trash) /\ Kept({})
    BY <1>3, GotoBecomes DEF VaultInv, VaultPc, Kept, Present
  <1> QED
    BY <1>3, <1>4, <1>5, InsertAgreed

LEMMA RemoveStepAgreed ==
  ASSUME VaultInv, NEW Other \in [Request -> Request], \A r \in Request : Other[Other[r]] = r,
         Agreed(Other), InPairs(Other), NEW r \in Request, RemoveStep(r), HasRow, excuses' = {}
  PROVE  Agreed(Other)'
  <1>0. {"lock", "done", "verify", "stow", "recheckRemoved", "unstow"} \subseteq VaultPc
    BY DEF VaultPc, RemovePc
  <1>1. CASE StartRemove(r)
    BY <1>0, <1>1, GoesOn DEF StartRemove, At
  <1>2. CASE Lock(r)
    <2>1. CASE Live
      <3>1. /\ At(r, "lock") /\ Goto(r, "verify") /\ UNCHANGED disk
            /\ row' = [state |-> "trashed", trash |-> r, age |-> "fresh"]
        BY <1>2, <2>1 DEF Lock, Live
      <3>2. Becomes(r, "verify", req[r].trash) /\ Kept({})
        BY <1>0, <3>1, GotoBecomes DEF VaultInv, Kept, Present
      <3>3. row'.state = "trashed" /\ row'.trash = r
        BY <3>1
      <3> QED
        BY <2>1, <3>1, <3>2, <3>3, LockAgreed
    <2>2. CASE ~Live
      <3>1. At(r, "lock") /\ Goto(r, "done") /\ UNCHANGED <<row, disk>>
        BY <1>2, <2>2 DEF Lock, Live, Done
      <3> QED
        BY <1>0, <3>1, GoesOn DEF At
    <2> QED
      BY <2>1, <2>2
  <1>3. CASE Verify(r)
    <2>1. At(r, "verify") /\ (Goto(r, "stow") \/ Goto(r, "done")) /\ UNCHANGED <<row, disk>>
      BY <1>3 DEF Verify, Done
    <2> QED
      BY <1>0, <2>1, GoesOn DEF At
  <1>4. CASE Stow(r)
    <2>1. At(r, "stow") /\ Move(r, "uploads", r, "recheckRemoved", "done") /\ UNCHANGED row
      BY <1>4 DEF Stow
    <2>2. \/ Refused(r, "uploads", "done") \/ Copied(r, "uploads", r)
          \/ Arrived(r, "uploads", r, "recheckRemoved")
      BY <1>0, <2>1, MoveCases, PlacesDiffer DEF VaultInv
    <2>3. CASE Refused(r, "uploads", "done")
      BY <1>0, <2>1, <2>3, RefusedGoesOn DEF At
    <2>4. CASE Copied(r, "uploads", r)
      BY <2>1, <2>4, CopiedAgreed, PlacesDiffer
    <2>5. CASE Arrived(r, "uploads", r, "recheckRemoved")
      BY <2>1, <2>5, StowArrives
    <2> QED
      BY <2>2, <2>3, <2>4, <2>5
  <1>5. CASE RecheckRemoved(r)
    <2>1. /\ At(r, "recheckRemoved") /\ UNCHANGED <<row, disk>>
          /\ IF Live THEN Goto(r, "unstow") ELSE Goto(r, "done")
      BY <1>5 DEF RecheckRemoved, Done, Live
    <2> QED
      BY <1>0, <2>1, GoesOn DEF At
  <1>6. CASE Unstow(r)
    <2>1. At(r, "unstow") /\ Move(r, r, "uploads", "done", "done") /\ UNCHANGED row /\ Present(r)
      BY <1>6 DEF Unstow, Compensate
    <2>2. Copied(r, r, "uploads") \/ Arrived(r, r, "uploads", "done")
      BY <1>0, <2>1, MoveCases, PlacesDiffer DEF VaultInv, Refused
    <2>3. CASE Copied(r, r, "uploads")
      BY <2>1, <2>3, CopiedAgreed, PlacesDiffer DEF At
    <2>4. CASE Arrived(r, r, "uploads", "done")
      BY <2>1, <2>4, UnstowArrives
    <2> QED
      BY <2>2, <2>3, <2>4
  <1> QED
    BY <1>1, <1>2, <1>3, <1>4, <1>5, <1>6 DEF RemoveStep

LEMMA RestoreStepAgreed ==
  ASSUME VaultInv, NEW Other \in [Request -> Request], \A r \in Request : Other[Other[r]] = r, CopyAt,
         Agreed(Other), InPairs(Other), NEW r \in Request, RestoreStep(r), HasRow, excuses' = {}
  PROVE  Agreed(Other)'
  <1>0. /\ {"unlock", "fetch", "probe", "rollback", "clear", "recheckRestored", "restow", "done"}
             \subseteq VaultPc
        /\ req[r] \in ReqState /\ row \in Row /\ (Live \/ Trashed)
    BY DEF VaultPc, RestorePc, VaultInv, VaultTyped, TypeOK, HasRow, Live, Trashed
  <1>1. CASE StartRestore(r)
    <2> DEFINE trash == row.trash
               age == row.age
               s == [Idle EXCEPT !.pc = "unlock", !.trash = trash, !.age = age]
    <2>1. Become(r, s) /\ At(r, "idle") /\ Trashed /\ UNCHANGED <<row, disk>>
      BY <1>1 DEF StartRestore, Trashed
    <2>2. PICK n : n = row.trash
      OBVIOUS
    <2>3. trash = n
      BY <2>2
    <2> HIDE DEF trash, age
    <2>4. s.pc = "unlock" /\ s.trash = n
      BY <2>3 DEF Idle
    <2>5. s.copied = FALSE
      BY DEF Idle
    <2> HIDE DEF s
    <2>6. \A q \in Request : req'[q] = IF q = r THEN s ELSE req[q]
      BY <2>1, BecomeIs DEF VaultInv
    <2>7. Becomes(r, "unlock", n) /\ Kept({})
      BY <2>1, <2>4, <2>5, <2>6 DEF Becomes, Kept, Present
    <2> QED
      BY <2>1, <2>2, <2>7, ReadAgreed
  <1>2. CASE Unlock(r)
    <2>1. CASE Trashed
      <3>1. req[r].trash # None
        BY <1>2, <2>1, PlacesDiffer DEF Unlock, Agreed, TrashedTurns
      <3> DEFINE a == "fresh"
      <3>2. /\ At(r, "unlock") /\ Goto(r, "fetch") /\ UNCHANGED disk
            /\ row' = [row EXCEPT !.state = "live", !.age = a]
        BY <1>2, <2>1, <3>1 DEF Unlock, Trashed
      <3>3. Becomes(r, "fetch", req[r].trash) /\ Kept({})
        BY <1>0, <3>2, GotoBecomes DEF VaultInv, Kept, Present
      <3>4. row'.state = "live" /\ row'.trash = row.trash
        BY <1>0, <3>2 DEF Row
      <3> QED
        BY <2>1, <3>2, <3>3, <3>4, UnlockAgreed
    <2>2. CASE ~Trashed
      <3>1. At(r, "unlock") /\ Goto(r, "done") /\ UNCHANGED <<row, disk>>
        BY <1>2, <2>2 DEF Unlock, Trashed, Done
      <3> QED
        BY <1>0, <3>1, GoesOn DEF At
    <2> QED
      BY <2>1, <2>2
  <1>3. CASE Fetch(r)
    <2>1. PICK n \in Name : n = req[r].trash
      BY <1>0, <1>3 DEF Fetch, At, VaultInv, VaultTyped, TrashKnown, ReqState
    <2>2. At(r, "fetch") /\ Move(r, n, "uploads", "clear", "probe") /\ UNCHANGED row
      BY <1>3, <2>1 DEF Fetch
    <2>3. Refused(r, n, "probe") \/ Copied(r, n, "uploads") \/ Arrived(r, n, "uploads", "clear")
      BY <1>0, <2>2, MoveCases, PlacesDiffer DEF VaultInv
    <2>4. CASE Refused(r, n, "probe")
      BY <1>0, <2>1, <2>2, <2>4, RefusedGoesOn DEF At
    <2>5. CASE Copied(r, n, "uploads")
      BY <2>2, <2>5, CopiedAgreed, PlacesDiffer DEF At
    <2>6. CASE Arrived(r, n, "uploads", "clear")
      BY <2>1, <2>2, <2>6, FetchArrives
    <2> QED
      BY <2>3, <2>4, <2>5, <2>6
  <1>4. CASE Probe(r)
    <2>1. At(r, "probe") /\ (Goto(r, "clear") \/ Goto(r, "rollback")) /\ UNCHANGED <<row, disk>>
      BY <1>4 DEF Probe
    <2> QED
      BY <1>0, <2>1, GoesOn DEF At
  <1>5. CASE Rollback(r)
    <2>1. CASE Live
      <3> DEFINE a == req[r].age
      <3>1. /\ At(r, "rollback") /\ Goto(r, "done") /\ UNCHANGED disk
            /\ row' = [row EXCEPT !.state = "trashed", !.age = a]
        BY <1>5, <2>1 DEF Rollback, Live, Done
      <3> HIDE DEF a
      <3>2. Becomes(r, "done", req[r].trash) /\ Kept({})
        BY <1>0, <3>1, GotoBecomes DEF VaultInv, Kept, Present
      <3>3. row'.state = "trashed" /\ row'.trash = row.trash
        BY <1>0, <3>1 DEF Row
      <3> QED
        BY <2>1, <3>1, <3>2, <3>3, RollbackAgreed
    <2>2. CASE ~Live
      <3>1. At(r, "rollback") /\ Goto(r, "done") /\ UNCHANGED <<row, disk>>
        BY <1>5, <2>2 DEF Rollback, Live, Done
      <3> QED
        BY <1>0, <3>1, GoesOn DEF At
    <2> QED
      BY <2>1, <2>2
  <1>6. CASE ClearTrashPath(r)
    <2>0. At(r, "clear") /\ Goto(r, "recheckRestored") /\ UNCHANGED disk
      BY <1>6 DEF ClearTrashPath
    <2>1. CASE Live
      <3>1. row' = [row EXCEPT !.trash = None]
        BY <1>6, <2>1 DEF ClearTrashPath, Live
      <3>2. Becomes(r, "recheckRestored", req[r].trash) /\ Kept({})
        BY <1>0, <2>0, GotoBecomes DEF VaultInv, Kept, Present
      <3>3. row'.state = "live"
        BY <1>0, <2>1, <3>1 DEF Row, Live
      <3> QED
        BY <2>0, <2>1, <3>2, <3>3, ClearAgreed
    <2>2. CASE ~Live
      <3>1. UNCHANGED row
        BY <1>6, <2>2 DEF ClearTrashPath, Live
      <3> QED
        BY <1>0, <2>0, <3>1, GoesOn DEF At
    <2> QED
      BY <2>1, <2>2
  <1>7. CASE RecheckRestored(r)
    <2>0. At(r, "recheckRestored") /\ UNCHANGED <<row, disk>>
      BY <1>7 DEF RecheckRestored
    <2>1. CASE Done(r)
      BY <1>0, <2>0, <2>1, GoesOn DEF At, Done
    <2>2. CASE ~Done(r)
      <3> DEFINE trash == row.trash
                 s == [req[r] EXCEPT !.pc = "restow", !.trash = trash]
      <3>1. Become(r, s) /\ Trashed
        BY <1>7, <2>2 DEF RecheckRestored, Trashed
      <3>2. PICK n : n = row.trash
        OBVIOUS
      <3>3. trash = n
        BY <3>2
      <3>4. ~req[r].copied
        BY <2>0 DEF CopyAt, At
      <3> HIDE DEF trash
      <3>5. s.pc = "restow" /\ s.trash = n
        BY <1>0, <3>3 DEF ReqState
      <3>6. s.copied = req[r].copied
        BY <1>0 DEF ReqState
      <3> HIDE DEF s
      <3>7. \A q \in Request : req'[q] = IF q = r THEN s ELSE req[q]
        BY <3>1, BecomeIs DEF VaultInv
      <3>8. Becomes(r, "restow", n) /\ Kept({})
        BY <2>0, <3>4, <3>5, <3>6, <3>7 DEF Becomes, Kept, Present
      <3> QED
        BY <2>0, <3>1, <3>2, <3>4, <3>8, TurnAgreed
    <2> QED
      BY <2>1, <2>2
  <1>8. CASE Restow(r)
    <2>1. PICK n \in Name : n = req[r].trash
      BY <1>0, <1>8 DEF Restow, At, VaultInv, VaultTyped, TrashKnown, ReqState
    <2>2. /\ At(r, "restow") /\ Move(r, "uploads", n, "done", "done") /\ UNCHANGED row
          /\ Present("uploads")
      BY <1>8, <2>1 DEF Restow, Compensate
    <2>3. Copied(r, "uploads", n) \/ Arrived(r, "uploads", n, "done")
      BY <1>0, <2>2, MoveCases, PlacesDiffer DEF VaultInv, Refused
    <2>4. CASE Copied(r, "uploads", n)
      BY <2>1, <2>2, <2>4, CopiedAgreed, PlacesDiffer
    <2>5. CASE Arrived(r, "uploads", n, "done")
      BY <2>1, <2>2, <2>5, RestowArrives
    <2> QED
      BY <2>3, <2>4, <2>5
  <1> QED
    BY <1>1, <1>2, <1>3, <1>4, <1>5, <1>6, <1>7, <1>8 DEF RestoreStep

LEMMA FailureAgreed ==
  ASSUME VaultInv, NEW Other \in [Request -> Request], Agreed(Other), NEW r \in Request, StepFails(r),
         "fetch" \notin FaultAt, "recheckRemoved" \notin FaultAt, HasRow, excuses' = {}
  PROVE  Agreed(Other)'
  <1>1. /\ req[r].pc \in {"restart"} \cup RemovePc \cup RestorePc \cup UploadPc
        /\ req[r].pc \notin {"fetch", "recheckRemoved", "unstow"}
    BY DEF StepFails, Fault
  <1>2. req[r].pc \notin UploadPc
    BY DEF VaultInv, UploadsAlone, HasRow
  <1>3. Goto(r, "done") /\ UNCHANGED <<row, disk>>
    BY <1>1, <1>2 DEF StepFails, Recovery, UploadPc
  <1> QED
    BY <1>1, <1>3, GoesOn DEF VaultPc

\* Only an upload brings a row about.
LEMMA RowStaysThere ==
  ASSUME VaultInv, NEW r \in Request, VaultStep(r), HasRow'
  PROVE  HasRow \/ UploadStep(r)
  <1>1. RequestMoves(r)
    BY StepMoves DEF VaultInv
  <1> QED
    BY <1>1 DEF RequestMoves, RowMoves, UploadStep, HasRow

LEMMA RequestAgreed ==
  ASSUME VaultInv, NEW Other \in [Request -> Request], \A r \in Request : Other[Other[r]] = r, CopyAt,
         HasRow => Agreed(Other), InPairs(Other), NEW r \in Request, VaultStep(r),
         "fetch" \notin FaultAt, "recheckRemoved" \notin FaultAt, HasRow', excuses' = {}
  PROVE  Agreed(Other)'
  <1>1. CASE UploadStep(r)
    BY <1>1, UploadStepAgreed
  <1>2. CASE ~UploadStep(r)
    <2>1. HasRow /\ Agreed(Other)
      BY <1>2, RowStaysThere
    <2> QED
      BY <1>2, <2>1, RemoveStepAgreed, RestoreStepAgreed, FailureAgreed DEF VaultStep
  <1> QED
    BY <1>1, <1>2

-----------------------------------------------------------------------------
\* Only a request that is moving content has copied it.
LEMMA MoveCopy ==
  ASSUME VaultInv, CopyAt, NEW r \in Request, req[r].pc \in {"stow", "unstow", "fetch", "restow"},
         NEW from \in Place, NEW to \in Place, from # to,
         NEW moved \in VaultPc, NEW failed \in VaultPc, Move(r, from, to, moved, failed)
  PROVE  CopyAt'
  <1>1. Refused(r, from, failed) \/ Copied(r, from, to) \/ Arrived(r, from, to, moved)
    BY MoveCases DEF VaultInv
  <1>2. /\ \A q \in Request \ {r} : req'[q] = req[q]
        /\ ~req'[r].copied \/ req'[r].pc = req[r].pc
    BY <1>1 DEF Refused, Copied, Arrived, Becomes
  <1> QED
    BY <1>2 DEF CopyAt

LEMMA GotoCopy ==
  ASSUME VaultInv, CopyAt, NEW r \in Request, NEW pc \in VaultPc, Goto(r, pc)
  PROVE  CopyAt'
  <1>1. Becomes(r, pc, req[r].trash)
    BY GotoBecomes DEF VaultInv
  <1> QED
    BY <1>1 DEF Becomes, CopyAt

LEMMA RequestCopy ==
  ASSUME VaultInv, CopyAt, NEW r \in Request, VaultStep(r)
  PROVE  CopyAt'
  <1>0. VaultPc = {"idle", "done"} \cup UploadPc \cup RemovePc \cup RestorePc /\ req[r] \in ReqState
    BY DEF VaultPc, VaultInv, VaultTyped, TypeOK
  <1>1. CASE UploadStep(r)
    <2>1. PICK pc \in VaultPc : Goto(r, pc)
      BY <1>0, <1>1 DEF UploadStep, StartUpload, Validate, InsertRow, Discard, Done, UploadPc
    <2> QED
      BY <2>1, GotoCopy
  <1>2. CASE RemoveStep(r) /\ ~Stow(r) /\ ~Unstow(r)
    <2>1. PICK pc \in VaultPc : Goto(r, pc)
      BY <1>0, <1>2 DEF RemoveStep, StartRemove, Lock, Verify, RecheckRemoved, Done, RemovePc
    <2> QED
      BY <2>1, GotoCopy
  <1>3. CASE Stow(r)
    BY <1>0, <1>3, MoveCopy, PlacesDiffer DEF Stow, At, RemovePc
  <1>4. CASE Unstow(r)
    BY <1>0, <1>4, MoveCopy, PlacesDiffer DEF Unstow, Compensate, At
  <1>5. CASE Unlock(r) \/ Probe(r) \/ Rollback(r) \/ ClearTrashPath(r)
    <2>1. PICK pc \in VaultPc : Goto(r, pc)
      BY <1>0, <1>5 DEF Unlock, Probe, Rollback, ClearTrashPath, Done, RestorePc
    <2> QED
      BY <2>1, GotoCopy
  <1>6. CASE Fetch(r) \/ Restow(r)
    <2>1. PICK n \in Name : n = req[r].trash
      BY <1>0, <1>6 DEF Fetch, Restow, At, VaultInv, VaultTyped, TrashKnown, ReqState
    <2>2. CASE Fetch(r)
      <3>1. Move(r, n, "uploads", "clear", "probe") /\ req[r].pc = "fetch"
        BY <2>1, <2>2 DEF Fetch, At
      <3> QED
        BY <1>0, <3>1, MoveCopy, PlacesDiffer DEF RestorePc
    <2>3. CASE Restow(r)
      <3>1. Move(r, "uploads", n, "done", "done") /\ req[r].pc = "restow"
        BY <2>1, <2>3 DEF Restow, Compensate, At
      <3> QED
        BY <1>0, <3>1, MoveCopy, PlacesDiffer
    <2> QED
      BY <1>6, <2>2, <2>3
  <1>7. CASE StartRestore(r)
    <2> DEFINE trash == row.trash
               age == row.age
               s == [Idle EXCEPT !.pc = "unlock", !.trash = trash, !.age = age]
    <2>1. Become(r, s)
      BY <1>7 DEF StartRestore
    <2> HIDE DEF trash, age
    <2>2. s.copied = FALSE
      BY DEF Idle
    <2> HIDE DEF s
    <2>3. \A q \in Request : req'[q] = IF q = r THEN s ELSE req[q]
      BY <2>1, BecomeIs DEF VaultInv
    <2> QED
      BY <2>2, <2>3 DEF CopyAt
  <1>8. CASE RecheckRestored(r)
    <2>1. CASE Done(r)
      BY <1>0, <2>1, GotoCopy DEF Done
    <2>2. CASE ~Done(r)
      <3> DEFINE trash == row.trash
                 s == [req[r] EXCEPT !.pc = "restow", !.trash = trash]
      <3>1. Become(r, s)
        BY <1>8, <2>2 DEF RecheckRestored
      <3> HIDE DEF trash
      <3>2. s.pc = "restow"
        BY <1>0 DEF ReqState
      <3> HIDE DEF s
      <3>3. \A q \in Request : req'[q] = IF q = r THEN s ELSE req[q]
        BY <3>1, BecomeIs DEF VaultInv
      <3> QED
        BY <3>2, <3>3 DEF CopyAt
    <2> QED
      BY <2>1, <2>2
  <1>9. CASE StepFails(r)
    <2>1. Recovery(req[r].pc) \in VaultPc
      BY <1>0 DEF Recovery, UploadPc, RestorePc
    <2> QED
      BY <1>9, <2>1, GotoCopy DEF StepFails
  <1> QED
    BY <1>1, <1>2, <1>3, <1>4, <1>5, <1>6, <1>7, <1>8, <1>9 DEF VaultStep, RemoveStep, RestoreStep

LEMMA StepCopy == VaultInv /\ CopyAt /\ [Next]_vars => CopyAt'
  <1> SUFFICES ASSUME VaultInv, CopyAt, [Next]_vars PROVE CopyAt'
    OBVIOUS
  <1>1. ASSUME NEW r \in Request, VaultStep(r) PROVE CopyAt'
    BY <1>1, RequestCopy
  <1>2. CASE UNCHANGED vars \/ CleanerStep \/ PurgerStep \/ TimePasses
    <2>1. UNCHANGED req
      BY <1>2 DEF vars, CleanerStep, ListUploads, MatchUploads, SweepUploads, ListTrash, MatchTrash,
         SweepTrash, PurgerStep, PurgeRow, PurgeContent, TimePasses
    <2> QED
      BY <2>1 DEF CopyAt
  <1>3. CASE Restart
    <2>1. \A q \in Request : req'[q].pc = IF At(q, "idle") THEN "idle" ELSE "done"
      BY <1>3, RestartIs DEF VaultInv
    <2>2. \A q \in Request : At(q, "idle") => req'[q] = req[q]
      BY <1>3 DEF Restart
    <2> QED
      BY <2>1, <2>2 DEF CopyAt, At
  <1> QED
    BY <1>1, <1>2, <1>3 DEF Next, VaultStep

LEMMA PairStep ==
  ASSUME NEW Other \in [Request -> Request], \A r \in Request : Other[Other[r]] = r,
         "fetch" \notin FaultAt, "recheckRemoved" \notin FaultAt,
         VaultInv, PairInv(Other), InPairs(Other), [Next]_vars
  PROVE  PairInv(Other)'
  <1>1. CopyAt /\ CopyAt'
    BY StepCopy DEF PairInv
  <1>2. SUFFICES ASSUME HasRow', excuses' = {} PROVE Agreed(Other)'
    BY <1>1 DEF PairInv
  <1>3. excuses = {}
    <2>1. excuses \subseteq excuses'
      BY DEF Next, vars, UploadStep, StartUpload, Validate, InsertRow, Discard, RemoveStep, StartRemove,
         Lock, Verify, Stow, RecheckRemoved, Unstow, RestoreStep, StartRestore, Unlock, Fetch, Probe,
         Rollback, ClearTrashPath, RecheckRestored, Restow, StepFails, Compensate, CleanerStep,
         ListUploads, MatchUploads, SweepUploads, ListTrash, MatchTrash, SweepTrash, PurgerStep,
         PurgeRow, PurgeContent, TimePasses, Restart
    <2> QED
      BY <1>2, <2>1
  <1>4. HasRow => Agreed(Other)
    BY <1>3 DEF PairInv
  <1>5. ASSUME NEW r \in Request, VaultStep(r) PROVE Agreed(Other)'
    BY <1>1, <1>2, <1>4, <1>5, RequestAgreed
  <1>6. CASE CleanerStep
    <2>1. HasRow
      BY <1>2, <1>6 DEF HasRow, CleanerStep, ListUploads, MatchUploads, SweepUploads, ListTrash,
         MatchTrash, SweepTrash
    <2> QED
      BY <1>2, <1>4, <1>6, <2>1, CleanerAgreed
  <1>7. CASE UNCHANGED vars
    BY <1>2, <1>4, <1>7, StillAgreed DEF vars, HasRow, Present, InTrash
  <1> QED
    BY <1>2, <1>4, <1>5, <1>6, <1>7, PurgerAgreed, TimeAgreed, RestartAgreed DEF Next, VaultStep

LEMMA PairInit ==
  ASSUME NEW Other \in [Request -> Request], Init
  PROVE  PairInv(Other)
  <1>1. PICK state \in {"none", "live", "trashed"}, p \in {"uploads", Earlier}, a \in Age :
          /\ p = Earlier => state = "trashed"
          /\ row = [state |-> state, trash |-> IF state = "trashed" THEN Earlier ELSE None,
                    age |-> "fresh"]
          /\ disk = [q \in Place |-> IF q = p /\ state # "none" THEN a ELSE "absent"]
    BY DEF Init
  <1>2. /\ row.state = state /\ (row.state = "trashed" => row.trash = Earlier)
        /\ \A q \in Place : disk[q] = IF q = p /\ state # "none" THEN a ELSE "absent"
    BY <1>1
  <1>3. \A r \in Request : req[r] = Idle
    BY DEF Init
  <1>4. \A r \in Request : req[r].pc = "idle"
    BY <1>3 DEF Idle
  <1>5. Idle.copied = FALSE
    BY DEF Idle
  <1>6. CopyAt
    BY <1>3, <1>5 DEF CopyAt
  <1>7. \A q \in Request : /\ ~Removing(q) /\ ~Restoring(q) /\ ~Unlocked(q)
                           /\ \A x \in {"stow", "unstow", "fetch", "restow", "unlock"} : ~At(q, x)
    BY <1>4 DEF Removing, Restoring, RestorePc, Unlocked, At
  <1>8. a # "absent" /\ Earlier \in Name
    BY DEF Age, Name
  <1>9. Live => Present("uploads")
    BY <1>1, <1>2, <1>8, PlacesDiffer DEF Live, Present
  <1>10. Trashed => row.trash \in Name /\ (Present("uploads") \/ InTrash(row.trash))
    BY <1>1, <1>2, <1>8, PlacesDiffer DEF Trashed, Present, InTrash
  <1>11. LiveTurns(Other) /\ LiveContent
    BY <1>7, <1>9 DEF LiveTurns, LiveContent, Copying
  <1>12. TrashedTurns(Other) /\ TrashedContent
    BY <1>7, <1>10 DEF TrashedTurns, TrashedContent, Copying
  <1>13. OneEach /\ CopiedBack
    BY <1>7 DEF OneEach, CopiedBack, Copying
  <1> QED
    BY <1>6, <1>11, <1>12, <1>13 DEF PairInv, Agreed

LEMMA PairRecovers ==
  ASSUME NEW Other \in [Request -> Request], PairInv(Other)
  PROVE  Recoverable
  <1> SUFFICES ASSUME NoneInFlight, excuses = {}
               PROVE  /\ row.state = "live" => Present("uploads")
                      /\ row.state = "trashed" => \E p \in Known : Present(p)
    BY DEF Recoverable
  <1>1. ~FetchPending /\ \A r \in Request : ~TurnsBack(r)
    BY DEF NoneInFlight, FetchPending, TurnsBack, At
  <1>2. row.state = "live" => Present("uploads")
    BY <1>1 DEF PairInv, Agreed, LiveContent, Live, HasRow
  <1>3. row.state = "trashed" => \E p \in Known : Present(p)
    <2> SUFFICES ASSUME row.state = "trashed" PROVE \E p \in Known : Present(p)
      OBVIOUS
    <2>1. Present("uploads") \/ InTrash(row.trash)
      BY <1>1 DEF PairInv, Agreed, TrashedContent, Trashed, HasRow
    <2> QED
      BY <2>1, PlacesDiffer DEF Known, HasRow, InTrash
  <1> QED
    BY <1>2, <1>3

(* The promise of remove and restore.  As long as no request overlaps more than one
   other and neither the move of a restore nor the SELECT after a removal's move
   throws: whichever other steps fail, whether the two directories are one volume
   or two, whatever the cleaner, the purge and restarts do in between, a file that
   nobody is working on has its content where its row says, or its loss was
   reported, was the cleaner's or came with a restart.  For any number of requests
   and failures; Other names each request's partner.  A third request makes it false,
   also when it begins only once one of the two has ended.                       *)
THEOREM PairsRecover ==
  ASSUME NEW Other \in [Request -> Request], \A r \in Request : Other[Other[r]] = r,
         "fetch" \notin FaultAt, "recheckRemoved" \notin FaultAt
  PROVE  Spec /\ []InPairs(Other) => []Recoverable
  <1>1. Init => PairInv(Other)
    BY PairInit
  <1>2. VaultInv /\ PairInv(Other) /\ InPairs(Other) /\ [Next]_vars => PairInv(Other)'
    BY PairStep
  <1>3. PairInv(Other) => Recoverable
    BY PairRecovers
  <1> QED
    BY <1>1, <1>2, <1>3, VaultAlways, PTL DEF Spec

(* The same of two requests, which can overlap only each other: the instance that
   the run checks, for any number of failures.                                  *)
THEOREM TwoRecover ==
  ASSUME NEW a, NEW b, Request = {a, b}, "fetch" \notin FaultAt, "recheckRemoved" \notin FaultAt
  PROVE  Spec => []Recoverable
  <1> DEFINE Other == [r \in Request |-> IF r = a THEN b ELSE a]
  <1>1. Other \in [Request -> Request] /\ \A r \in Request : Other[Other[r]] = r
    OBVIOUS
  <1>2. InPairs(Other)
    BY DEF InPairs
  <1> HIDE DEF Other
  <1>3. Init => PairInv(Other)
    BY <1>1, PairInit
  <1>4. VaultInv /\ PairInv(Other) /\ [Next]_vars => PairInv(Other)'
    BY <1>1, <1>2, PairStep
  <1>5. PairInv(Other) => Recoverable
    BY <1>1, PairRecovers
  <1> QED
    BY <1>3, <1>4, <1>5, VaultAlways, PTL DEF Spec
=============================================================================
