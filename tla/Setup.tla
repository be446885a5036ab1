------------------------------- MODULE Setup -------------------------------
(***************************************************************************)
(* The first administrator: POST /setup on any instance and runs of the    *)
(* seed script, each one transaction under the same advisory lock.  A      *)
(* transaction that fails takes back its rows but not the numbers it drew  *)
(* from the sequence of roles.id.                                          *)
(*                                                                         *)
(* Permissions and their bindings, inserted in the same transaction, have  *)
(* no part in any decision and are left out.                               *)
(***************************************************************************)
EXTENDS Integers

CONSTANTS
  Starter,         \* setup requests and seed runs that may overlap
  Seeder,          \* those of them that are seed runs
  AdminRoleId,     \* ADMIN_ROLE_ID
  UserRoleId,      \* DEFAULT_USER_ROLE_ID
  MaxRoleId,       \* bound on the sequence
  MaxSetupFaults   \* bound on transactions that fail

ASSUME SetupAssumption ==
  /\ Seeder \subseteq Starter
  /\ AdminRoleId \in 0..MaxRoleId /\ UserRoleId \in 0..MaxRoleId /\ AdminRoleId # UserRoleId
  /\ MaxRoleId \in Nat /\ MaxRoleId >= 3 /\ MaxSetupFaults \in Nat

VARIABLES
  starter,        \* starter[s]: how far a setup or a seed is
  adminRow,       \* the row of the role admin, as committed
  userRow,        \* the row of the role user
  nextRoleId,     \* what the sequence gives next
  admins,         \* live users with ADMIN_ROLE_ID made here
  nameTaken,      \* a live user with another role has the administrator's name
  setupCompleted, \* the flag of the server process
  setupFaults

setupVars == <<starter, adminRow, userRow, nextRoleId, admins, nameTaken,
               setupCompleted, setupFaults>>
rowVars == <<adminRow, userRow, admins, nameTaken>>

\* The id of a role's row; 0: there is no row.
RoleRow == [id : 0..MaxRoleId, live : BOOLEAN]
NoRow == [id |-> 0, live |-> FALSE]

StarterState ==
  [pc    : {"idle", "wait", "roles", "admin", "done", "refused", "failed", "mismatch"},
   admin : RoleRow, user : RoleRow]   \* the roles as the transaction sees them
NoStarter == [pc |-> "idle", admin |-> NoRow, user |-> NoRow]

SetupTypeOK ==
  /\ starter \in [Starter -> StarterState]
  /\ adminRow \in RoleRow /\ userRow \in RoleRow
  /\ nextRoleId \in 1..MaxRoleId
  /\ admins \in Nat /\ nameTaken \in BOOLEAN /\ setupCompleted \in BOOLEAN
  /\ setupFaults \in 0..MaxSetupFaults

\* An empty database, or one whose superadministrators have all been deleted.
SetupInit ==
  /\ starter = [s \in Starter |-> NoStarter]
  /\ admins = 0 /\ setupCompleted = FALSE /\ setupFaults = 0
  /\ \/ /\ adminRow = NoRow /\ userRow = NoRow /\ nextRoleId = 1 /\ nameTaken = FALSE
     \/ /\ adminRow \in [id : {AdminRoleId}, live : BOOLEAN]
        /\ userRow \in [id : {UserRoleId}, live : BOOLEAN]
        /\ nextRoleId = 3 /\ nameTaken \in BOOLEAN

-----------------------------------------------------------------------------
InTransaction(s) == starter[s].pc \in {"roles", "admin"}
Becomes(s, pc) == starter' = [starter EXCEPT ![s] = [NoStarter EXCEPT !.pc = pc]]
Initialized == admins > 0

\* initialize before its transaction; a seed asks nothing.
Begin(s) ==
  /\ starter[s].pc = "idle"
  /\ IF s \notin Seeder /\ (setupCompleted \/ Initialized)
       THEN Becomes(s, "refused") ELSE Becomes(s, "wait")
  /\ UNCHANGED <<rowVars, nextRoleId, setupCompleted, setupFaults>>

\* Faulty: what was read before the lock is taken for granted.
TakeTheLockUnchecked(s) ==
  /\ starter[s].pc = "wait" /\ \A t \in Starter : ~InTransaction(t)
  /\ starter' = [starter EXCEPT ![s] = [pc |-> "roles", admin |-> adminRow, user |-> userRow]]
  /\ UNCHANGED <<rowVars, nextRoleId, setupCompleted, setupFaults>>

\* pg_advisory_xact_lock, and a setup looks again.
TakeTheLock(s) ==
  /\ starter[s].pc = "wait" /\ \A t \in Starter : ~InTransaction(t)
  /\ IF s \notin Seeder /\ Initialized
       THEN Becomes(s, "refused")
       ELSE starter' = [starter EXCEPT ![s] =
              [pc |-> "roles", admin |-> adminRow, user |-> userRow]]
  /\ UNCHANGED <<rowVars, nextRoleId, setupCompleted, setupFaults>>

\* A deleted row is revived; then the INSERT of both roles: what is there already is
\* left, and every row draws a number all the same.
Settled(row, id) == IF row.id > 0 THEN [row EXCEPT !.live = TRUE]
                                  ELSE [id |-> id, live |-> TRUE]

PrepareRoles(s) ==
  /\ starter[s].pc = "roles" /\ nextRoleId + 2 <= MaxRoleId
  /\ nextRoleId' = nextRoleId + 2
  /\ LET admin == Settled(starter[s].admin, nextRoleId)
         user == Settled(starter[s].user, nextRoleId + 1)
     IN IF admin.id = AdminRoleId /\ user.id = UserRoleId
          THEN starter' = [starter EXCEPT ![s] = [pc |-> "admin", admin |-> admin, user |-> user]]
          ELSE Becomes(s, "mismatch")
  /\ UNCHANGED <<rowVars, setupCompleted, setupFaults>>

Commit(s, made) ==
  /\ adminRow' = starter[s].admin /\ userRow' = starter[s].user
  /\ admins' = admins + made
  /\ Becomes(s, "done")
  /\ UNCHANGED <<nameTaken, nextRoleId, setupFaults>>

\* A seed adds no second administrator; a name in use is a 409 or an error.
InsertAdmin(s) ==
  /\ starter[s].pc = "admin"
  /\ \/ /\ s \in Seeder /\ Initialized
        /\ Commit(s, 0) /\ UNCHANGED setupCompleted
     \/ /\ ~(s \in Seeder /\ Initialized) /\ nameTaken
        /\ Becomes(s, "refused")
        /\ UNCHANGED <<rowVars, nextRoleId, setupCompleted, setupFaults>>
     \/ /\ ~(s \in Seeder /\ Initialized) /\ ~nameTaken
        /\ Commit(s, 1)
        /\ setupCompleted' = (setupCompleted \/ s \notin Seeder)

\* The connection or the process dies: everything rolls back but the sequence.
SetupFails(s) ==
  /\ InTransaction(s) /\ setupFaults < MaxSetupFaults
  /\ setupFaults' = setupFaults + 1
  /\ Becomes(s, "failed")
  /\ UNCHANGED <<rowVars, nextRoleId, setupCompleted>>

TryAgain(s) ==
  /\ starter[s].pc \in {"done", "refused", "failed", "mismatch"}
  /\ Becomes(s, "idle")
  /\ UNCHANGED <<rowVars, nextRoleId, setupCompleted, setupFaults>>

\* Between transactions: a registration takes the name or its owner is deleted, the
\* process restarts.
NameChanges ==
  /\ userRow.live /\ admins = 0 /\ nameTaken' = ~nameTaken
  /\ UNCHANGED <<starter, adminRow, userRow, nextRoleId, admins, setupCompleted, setupFaults>>

Restart ==
  /\ setupCompleted /\ setupCompleted' = FALSE
  /\ UNCHANGED <<starter, rowVars, nextRoleId, setupFaults>>

SetupNext ==
  \/ \E s \in Starter : \/ Begin(s) \/ TakeTheLock(s) \/ PrepareRoles(s) \/ InsertAdmin(s)
                        \/ SetupFails(s) \/ TryAgain(s)
  \/ NameChanges \/ Restart

SetupSpec == SetupInit /\ [][SetupNext]_setupVars

-----------------------------------------------------------------------------
(* However many setups and seeds overlap, fail and are repeated, they make one
   administrator, and his role is the one that permissions.guard knows.        *)
OneFirstAdmin ==
  /\ admins <= 1
  /\ admins = 1 => adminRow = [id |-> AdminRoleId, live |-> TRUE] /\ userRow.id = UserRoleId
=============================================================================
