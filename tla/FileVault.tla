------------------------------ MODULE FileVault ------------------------------
(***************************************************************************)
(* One uploaded file: its row in the files table and its content, which is *)
(* in uploads/ or, after a soft delete, in uploads-trash/.  Uploads,       *)
(* removals and restores interleave with the hourly orphan cleaner and the *)
(* nightly purge; a row and its content change in separate steps, and      *)
(* nothing but the order of those steps keeps them together.               *)
(*                                                                         *)
(* Rows and contents of different files never meet, so one file is enough. *)
(* A removal moves the content to a name of its own (the milliseconds of   *)
(* the removal in base 36, then the file's name): here, the request.  Who  *)
(* may remove or restore is decided before any of this and left out.       *)
(***************************************************************************)
EXTENDS Naturals, FiniteSets

CONSTANTS
  Request,      \* uploads, removals and restores; each is served once
  Earlier,      \* the trash name that a removal before the first state chose
  None,
  Layouts,      \* whether uploads/ and uploads-trash/ may be on different volumes
  FaultAt,      \* the steps that may fail
  MaxFaults     \* bound on failing steps and restarts

UploadPc  == {"validate", "insert", "discard"}
RemovePc  == {"lock", "verify", "stow", "recheckRemoved", "unstow"}
RestorePc == {"unlock", "fetch", "probe", "rollback", "clear", "recheckRestored", "restow"}
CleanerPc == {"idle", "listUploads", "matchUploads", "sweepUploads",
              "listTrash", "matchTrash", "sweepTrash"}
PurgerPc  == {"idle", "delete", "unlink"}

ASSUME VaultAssumption ==
  /\ None \notin Request \cup {Earlier} /\ Earlier \notin Request
  /\ "uploads" \notin Request \cup {Earlier, None}
  /\ Layouts \subseteq BOOLEAN /\ MaxFaults \in Nat
  /\ FaultAt \subseteq {"restart"} \cup RemovePc \cup RestorePc \cup UploadPc

VARIABLES
  row,      \* the row of the files table
  disk,     \* disk[p]: the age (by mtime) of the content at p, or "absent"
  req,      \* req[r]: the state of request r
  cleaner,  \* cleanOrphanUploads
  purger,   \* purgeExpiredTrash
  excuses,  \* history: what may have parted the row from its content
  crossVolume,  \* uploads/ and uploads-trash/ are on different volumes
  faults

env  == <<faults, crossVolume>>
vars == <<row, disk, req, cleaner, purger, excuses, env>>

Name  == Request \cup {Earlier}
Place == {"uploads"} \cup Name

\* Under an hour, under thirty days, and more.
Age   == {"fresh", "hour", "month"}
Older == [absent |-> "absent", fresh |-> "hour", hour |-> "month", month |-> "month"]

\* trashed: deletedAt is set, age ago.  purged: the row has been deleted.
Row == [state : {"none", "live", "trashed", "purged"}, trash : Name \cup {None}, age : Age]

ReqState ==
  [pc     : {"idle", "done"} \cup UploadPc \cup RemovePc \cup RestorePc,
   trash  : Name \cup {None},     \* the trash path in hand
   age    : Age,                  \* deletedAt as a restore read it
   copied : BOOLEAN]              \* a move between volumes has copied, not yet unlinked

(* reported: a compensation failed and error_logs says so.  swept: the cleaner
   emptied the trash path of a restore in flight.  restart: the process died
   between the two halves of a restore, or of a removal it had overtaken.    *)
Excuse == {"reported", "swept", "restart"}

TypeOK ==
  /\ row \in Row
  /\ disk \in [Place -> Age \cup {"absent"}]
  /\ req \in [Request -> ReqState]
  /\ cleaner \in [pc : CleanerPc, marked : SUBSET Place]
  /\ purger \in [pc : PurgerPc, marked : SUBSET Place]
  /\ excuses \subseteq Excuse
  /\ crossVolume \in BOOLEAN /\ faults \in 0..MaxFaults

Present(p) == disk[p] # "absent"
Idle == [pc |-> "idle", trash |-> None, age |-> "fresh", copied |-> FALSE]
Rest == [pc |-> "idle", marked |-> {}]

\* Not uploaded yet; in use; removed; removed, but its content could not be moved.
Init ==
  /\ crossVolume \in Layouts
  /\ \E state \in {"none", "live", "trashed"}, p \in {"uploads", Earlier}, a \in Age :
       /\ p = Earlier => state = "trashed"
       /\ row = [state |-> state, trash |-> IF state = "trashed" THEN Earlier ELSE None,
                 age |-> "fresh"]
       /\ crossVolume /\ p = Earlier => a = "fresh"
       /\ disk = [q \in Place |-> IF q = p /\ state # "none" THEN a ELSE "absent"]
  /\ req = [r \in Request |-> Idle]
  /\ cleaner = Rest /\ purger = Rest
  /\ excuses = {} /\ faults = 0

-----------------------------------------------------------------------------
At(r, pc) == req[r].pc = pc
Become(r, state) == req' = [req EXCEPT ![r] = state]
Goto(r, pc) == Become(r, [req[r] EXCEPT !.pc = pc, !.copied = FALSE])
Done(r) == Goto(r, "done")

\* A restore has made the row live and has not moved the content yet.
Unlocked(r) == req[r].pc \in {"fetch", "probe", "rollback"}

\* A restore has made the row live while a removal moves the content.
Overtaken(r) == req[r].pc \in {"stow", "recheckRemoved", "unstow"} /\ row.state = "live"

Unlink(p) == disk' = [disk EXCEPT ![p] = "absent"]

(* safeMove: a rename, or between volumes a copy (whose mtime is new) and then
   an unlink.  Each fails when what it needs is not there any more.          *)
Move(r, from, to, moved, failed) ==
  \/ /\ ~Present(from)
     /\ Goto(r, failed) /\ UNCHANGED disk
  \/ /\ Present(from) /\ ~crossVolume
     /\ disk' = [disk EXCEPT ![to] = disk[from], ![from] = "absent"]
     /\ Goto(r, moved)
  \/ /\ Present(from) /\ crossVolume /\ ~req[r].copied
     /\ disk' = [disk EXCEPT ![to] = "fresh"]
     /\ Become(r, [req[r] EXCEPT !.copied = TRUE])
  \/ /\ Present(from) /\ crossVolume /\ req[r].copied
     /\ Unlink(from)
     /\ Goto(r, moved)

-----------------------------------------------------------------------------
\* upload: multer has written the content before the service sees the request.
StartUpload(r) ==
  /\ At(r, "idle")
  /\ row.state = "none" /\ ~Present("uploads")
  /\ disk' = [disk EXCEPT !["uploads"] = "fresh"]
  /\ Goto(r, "validate")
  /\ UNCHANGED <<row, cleaner, purger, excuses, env>>

\* The checks of name, size, type and content, and the quota, refuse it or not.
Validate(r) ==
  /\ At(r, "validate")
  /\ Goto(r, "insert") \/ Goto(r, "discard")
  /\ UNCHANGED <<row, disk, cleaner, purger, excuses, env>>

InsertRow(r) ==
  /\ At(r, "insert")
  /\ row' = [row EXCEPT !.state = "live"]
  /\ Done(r)
  /\ UNCHANGED <<disk, cleaner, purger, excuses, env>>

Discard(r) ==
  /\ At(r, "discard")
  /\ Unlink("uploads")
  /\ Done(r)
  /\ UNCHANGED <<row, cleaner, purger, excuses, env>>

-----------------------------------------------------------------------------
StartRemove(r) ==
  /\ At(r, "idle") /\ row.state = "live"
  /\ Goto(r, "lock")
  /\ UNCHANGED <<row, disk, cleaner, purger, excuses, env>>

\* Faulty: the row is given the path the content has instead of the one it gets.
LockWithOldPath(r) ==
  /\ At(r, "lock")
  /\ row' = [state |-> "trashed", trash |-> "uploads", age |-> "fresh"]
  /\ Goto(r, "verify")
  /\ UNCHANGED <<disk, cleaner, purger, excuses, env>>

\* deletedAt and trashPath are set by one conditional UPDATE before anything moves.
Lock(r) ==
  /\ At(r, "lock")
  /\ IF row.state = "live"
     THEN /\ row' = [state |-> "trashed", trash |-> r, age |-> "fresh"]
          /\ Goto(r, "verify")
     ELSE UNCHANGED row /\ Done(r)
  /\ UNCHANGED <<disk, cleaner, purger, excuses, env>>

Verify(r) ==
  /\ At(r, "verify")
  /\ IF row.trash = r /\ row.state # "purged" THEN Goto(r, "stow") ELSE Done(r)
  /\ UNCHANGED <<row, disk, cleaner, purger, excuses, env>>

Stow(r) ==
  /\ At(r, "stow")
  /\ Move(r, "uploads", r, "recheckRemoved", "done")
  /\ UNCHANGED <<row, cleaner, purger, excuses, env>>

\* Faulty: the row is not looked at again after the move.
RecheckRemovedSkipped(r) ==
  /\ At(r, "recheckRemoved") /\ Done(r)
  /\ UNCHANGED <<row, disk, cleaner, purger, excuses, env>>

RecheckRemoved(r) ==
  /\ At(r, "recheckRemoved")
  /\ IF row.state = "live" THEN Goto(r, "unstow") ELSE Done(r)
  /\ UNCHANGED <<row, disk, cleaner, purger, excuses, env>>

\* A compensation that cannot move the content says so in error_logs.
Compensate(r, from, to) ==
  /\ Move(r, from, to, "done", "done")
  /\ excuses' = excuses \cup (IF Present(from) THEN {} ELSE {"reported"})

Unstow(r) ==
  /\ At(r, "unstow")
  /\ Compensate(r, r, "uploads")
  /\ UNCHANGED <<row, cleaner, purger, env>>

-----------------------------------------------------------------------------
StartRestore(r) ==
  /\ At(r, "idle") /\ row.state = "trashed"
  /\ Become(r, [Idle EXCEPT !.pc = "unlock", !.trash = row.trash, !.age = row.age])
  /\ UNCHANGED <<row, disk, cleaner, purger, excuses, env>>

Unlock(r) ==
  /\ At(r, "unlock")
  /\ IF row.state = "trashed"
     THEN /\ row' = [row EXCEPT !.state = "live", !.age = "fresh"]
          /\ IF req[r].trash = None THEN Done(r) ELSE Goto(r, "fetch")
     ELSE UNCHANGED row /\ Done(r)
  /\ UNCHANGED <<disk, cleaner, purger, excuses, env>>

Fetch(r) ==
  /\ At(r, "fetch")
  /\ Move(r, req[r].trash, "uploads", "clear", "probe")
  /\ UNCHANGED <<row, cleaner, purger, excuses, env>>

\* The move failed; the content may have stayed in uploads/ all along.
Probe(r) ==
  /\ At(r, "probe")
  /\ Goto(r, IF Present("uploads") THEN "clear" ELSE "rollback")
  /\ UNCHANGED <<row, disk, cleaner, purger, excuses, env>>

Rollback(r) ==
  /\ At(r, "rollback")
  /\ row' = IF row.state = "live" THEN [row EXCEPT !.state = "trashed", !.age = req[r].age]
            ELSE row
  /\ Done(r)
  /\ UNCHANGED <<disk, cleaner, purger, excuses, env>>

ClearTrashPath(r) ==
  /\ At(r, "clear")
  /\ row' = IF row.state = "live" THEN [row EXCEPT !.trash = None] ELSE row
  /\ Goto(r, "recheckRestored")
  /\ UNCHANGED <<disk, cleaner, purger, excuses, env>>

RecheckRestored(r) ==
  /\ At(r, "recheckRestored")
  /\ IF row.state = "trashed" /\ row.trash \notin {None, req[r].trash}
     THEN Become(r, [req[r] EXCEPT !.pc = "restow", !.trash = row.trash])
     ELSE Done(r)
  /\ UNCHANGED <<row, disk, cleaner, purger, excuses, env>>

Restow(r) ==
  /\ At(r, "restow")
  /\ Compensate(r, "uploads", req[r].trash)
  /\ UNCHANGED <<row, cleaner, purger, env>>

-----------------------------------------------------------------------------
\* Faulty: an upload in progress is listed too.
ListAllUploads ==
  /\ cleaner.pc = "listUploads"
  /\ cleaner' = [pc |-> "matchUploads", marked |-> {p \in {"uploads"} : Present(p)}]
  /\ UNCHANGED <<row, disk, req, purger, excuses, env>>

\* cleanOrphanUploads: list what is old enough, ask which of it has a row, unlink the rest.
ListUploads ==
  /\ cleaner.pc = "listUploads"
  /\ cleaner' = [pc |-> "matchUploads",
                 marked |-> {p \in {"uploads"} : disk[p] \in {"hour", "month"}}]
  /\ UNCHANGED <<row, disk, req, purger, excuses, env>>

HasRow == row.state \in {"live", "trashed"}

MatchUploads ==
  /\ cleaner.pc = "matchUploads"
  /\ cleaner' = [pc |-> "sweepUploads", marked |-> IF HasRow THEN {} ELSE cleaner.marked]
  /\ UNCHANGED <<row, disk, req, purger, excuses, env>>

\* Faulty: with nothing to sweep in uploads/ the trash is not looked at.
SweepUploadsOnly ==
  /\ cleaner.pc = "sweepUploads"
  /\ disk' = [p \in Place |-> IF p \in cleaner.marked THEN "absent" ELSE disk[p]]
  /\ cleaner' = IF Present("uploads") THEN [pc |-> "listTrash", marked |-> {}] ELSE Rest
  /\ UNCHANGED <<row, req, purger, excuses, env>>

SweepUploads ==
  /\ cleaner.pc = "sweepUploads"
  /\ disk' = [p \in Place |-> IF p \in cleaner.marked THEN "absent" ELSE disk[p]]
  /\ cleaner' = [pc |-> "listTrash", marked |-> {}]
  /\ UNCHANGED <<row, req, purger, excuses, env>>

ListTrash ==
  /\ cleaner.pc = "listTrash"
  /\ cleaner' = [pc |-> "matchTrash", marked |-> {p \in Name : disk[p] = "month"}]
  /\ UNCHANGED <<row, disk, req, purger, excuses, env>>

MatchTrash ==
  /\ cleaner.pc = "matchTrash"
  /\ cleaner' = [pc |-> "sweepTrash",
                 marked |-> cleaner.marked \ (IF HasRow THEN {row.trash} ELSE {})]
  /\ UNCHANGED <<row, disk, req, purger, excuses, env>>

SweepTrash ==
  /\ cleaner.pc = "sweepTrash"
  /\ disk' = [p \in Place |-> IF p \in cleaner.marked THEN "absent" ELSE disk[p]]
  /\ cleaner' = Rest
  /\ excuses' = excuses \cup
       (IF \E r \in Request : Unlocked(r) /\ req[r].trash \in cleaner.marked
        THEN {"swept"} ELSE {})
  /\ UNCHANGED <<row, req, purger, env>>

\* purgeExpiredTrash: the row goes first and takes the right to the content with it.
PurgeRow ==
  /\ purger.pc = "delete"
  /\ IF row.state = "trashed" /\ row.age = "month"
     THEN /\ row' = [row EXCEPT !.state = "purged"]
          /\ purger' = [pc |-> "unlink", marked |-> {row.trash, "uploads"} \ {None}]
     ELSE UNCHANGED row /\ purger' = Rest
  /\ UNCHANGED <<disk, req, cleaner, excuses, env>>

PurgeContent ==
  /\ purger.pc = "unlink"
  /\ \E p \in purger.marked :
       /\ p = "uploads" => purger.marked = {p}
       /\ Unlink(p)
       /\ purger' = IF purger.marked = {p} THEN Rest
                    ELSE [purger EXCEPT !.marked = @ \ {p}]
  /\ UNCHANGED <<row, req, cleaner, excuses, env>>

-----------------------------------------------------------------------------
Quiet == /\ \A r \in Request : req[r].pc \in {"idle", "done"}
         /\ cleaner.pc = "idle" /\ purger.pc = "idle"

(* An hour, or thirty days, go by: longer than any request or cleanup lasts.
   The cron jobs fall due.                                                   *)
TimePasses ==
  /\ Quiet
  /\ disk' = [p \in Place |-> Older[disk[p]]]
  /\ row' = IF row.state = "trashed" THEN [row EXCEPT !.age = Older[@]] ELSE row
  /\ cleaner' = [Rest EXCEPT !.pc = "listUploads"]
  /\ purger' = [Rest EXCEPT !.pc = "delete"]
  /\ UNCHANGED <<req, excuses, env>>

Fault(step) == step \in FaultAt /\ faults < MaxFaults /\ faults' = faults + 1
                /\ UNCHANGED crossVolume

\* What a request does next when a database call or a move of its throws.
Recovery(pc) ==
  CASE pc = "insert" -> "discard"
    [] pc = "fetch"  -> "probe"
    [] OTHER         -> "done"

StepFails(r) ==
  /\ Fault(req[r].pc)
  /\ Goto(r, Recovery(req[r].pc))
  /\ excuses' = excuses \cup (IF req[r].pc \in {"unstow", "restow"} THEN {"reported"} ELSE {})
  /\ UNCHANGED <<row, disk, cleaner, purger>>

\* The process dies with everything in flight.
Restart ==
  /\ ~Quiet /\ Fault("restart")
  /\ req' = [r \in Request |-> IF At(r, "idle") THEN req[r] ELSE [req[r] EXCEPT !.pc = "done"]]
  /\ cleaner' = Rest /\ purger' = Rest
  /\ excuses' = excuses \cup (IF \E r \in Request : Unlocked(r) \/ Overtaken(r)
                             THEN {"restart"} ELSE {})
  /\ UNCHANGED <<row, disk>>

UploadStep(r)  == StartUpload(r) \/ Validate(r) \/ InsertRow(r) \/ Discard(r)
RemoveStep(r)  == StartRemove(r) \/ Lock(r) \/ Verify(r) \/ Stow(r)
                  \/ RecheckRemoved(r) \/ Unstow(r)
RestoreStep(r) == StartRestore(r) \/ Unlock(r) \/ Fetch(r) \/ Probe(r) \/ Rollback(r)
                  \/ ClearTrashPath(r) \/ RecheckRestored(r) \/ Restow(r)
CleanerStep    == ListUploads \/ MatchUploads \/ SweepUploads
                  \/ ListTrash \/ MatchTrash \/ SweepTrash
PurgerStep     == PurgeRow \/ PurgeContent

Next ==
  \/ \E r \in Request : UploadStep(r) \/ RemoveStep(r) \/ RestoreStep(r) \/ StepFails(r)
  \/ CleanerStep \/ PurgerStep \/ TimePasses \/ Restart

Spec == Init /\ [][Next]_vars

(* A request that has begun goes on; cron jobs that are due run; time passes.
   Nobody has to send a request.                                             *)
Proceeds(r) ==
  ~At(r, "idle") /\ (UploadStep(r) \/ RemoveStep(r) \/ RestoreStep(r))

FairSpec ==
  /\ Spec
  /\ \A r \in Request : WF_vars(Proceeds(r))
  /\ WF_vars(CleanerStep) /\ WF_vars(PurgerStep) /\ WF_vars(TimePasses)

-----------------------------------------------------------------------------
\* Where the row says the content may be.
Known == IF HasRow THEN {"uploads", row.trash} \cap Place ELSE {}

NoneInFlight == \A r \in Request : req[r].pc \in {"idle", "done"}

(* Whenever no request is in flight, a row in use has its content in uploads/
   and a removed row has it where a restore looks: its trash path or uploads/,
   unless a failed compensation was reported or the orphan cleaner took the
   content from under a restore.  Removals and restores that
   overlap must therefore agree on where the content ends up.               *)
Recoverable ==
  NoneInFlight /\ excuses = {} =>
    /\ row.state = "live" => Present("uploads")
    /\ row.state = "trashed" => \E p \in Known : Present(p)

(* As long as the row is there, in use or removed, its content is somewhere:
   moving it between uploads/ and uploads-trash/, on whichever volumes they
   are ("cross-volume safe", files.service.ts), never destroys it.           *)
ContentKept == HasRow => \E p \in Place : Present(p)

(* The orphan cleaner works from a listing and an answer that may both be out
   of date; it never unlinks content that belongs to an upload in progress or
   that a row points to by then.                                            *)
CleanupSpares ==
  [][cleaner' # cleaner =>
       \A p \in Place : Present(p) /\ disk'[p] = "absent" =>
         p \notin Known /\ \A r \in Request : req[r].pc \notin UploadPc]_vars

(* Content that no row points to (an upload that was cut off, the copy a move
   could not unlink, what a purge could not finish) does not stay for ever.  *)
Stray == \E p \in Place : Present(p) /\ p \notin Known
StraysGo == Stray ~> ~Stray
=============================================================================
