----------------------------- MODULE RoleDialog -----------------------------
(***************************************************************************)
(* The dialog of the roles page that edits the permissions of a role.  The *)
(* boxes start from the codes the server gave for the role, cached for     *)
(* 30 s and fetched again when stale; what is ticked at the end is PUT as  *)
(* the role's whole set.  Dialogs of different roles follow one another    *)
(* while fetches and a PUT of earlier ones are still under way, and other  *)
(* administrators change the same roles.  A role's codes and the list of   *)
(* all permissions are asked for only while the caller's cached /auth/me   *)
(* has permission:view, which may come and go under the open page.         *)
(*                                                                         *)
(* The browser is online: the cache pauses no fetch and no PUT.  The       *)
(* caller keeps permission:update, which shows the button.                 *)
(***************************************************************************)
EXTENDS Naturals

CONSTANTS
  Role, Code, NoRole,
  MaxDialogs  \* bound on dialogs opened, changes by others or of the caller, and failures

ASSUME DialogAssumption == NoRole \notin Role /\ MaxDialogs \in Nat

VARIABLES
  canViewPerms,     \* can(PERMISSION_VIEW), from the cached /auth/me
  allPermissions,   \* ['permissions', 'all']: never asked for, asked (or failed), here
  granted,  \* the server's role_permissions
  cached,   \* cached[r]: ['role-permissions', r]
  fetch,    \* fetch[r]: a GET under way, and what it has read
  dialog,   \* the role selected, the boxes ticked, initializedForRoleId
  put,      \* the PUT under way
  had,      \* history: had[r], the sets role r has had
  dialogEvents    \* dialogs opened, changes by others or of the caller, and failures

dialogVars == <<canViewPerms, allPermissions, granted, cached, fetch, dialog, put, had, dialogEvents>>
callerVars == <<canViewPerms, allPermissions>>
serverVars == <<granted, had>>

CacheState == [present : BOOLEAN, codes : SUBSET Code, stale : BOOLEAN, failed : BOOLEAN]
FetchState == [pc : {"none", "sent", "read"}, codes : SUBSET Code]
NoFetch == [pc |-> "none", codes |-> {}]
Sent == [pc |-> "sent", codes |-> {}]
DialogState ==
  [role : Role \cup {NoRole}, codes : SUBSET Code, ready : BOOLEAN,
   touched : SUBSET Code]          \* history: the boxes the user has clicked
NoDialog == [role |-> NoRole, codes |-> {}, ready |-> FALSE, touched |-> {}]
PutState == [pc : {"none", "sent", "done", "failed"}, role : Role \cup {NoRole},
             codes : SUBSET Code, touched : SUBSET Code,
             viewed : BOOLEAN]         \* history: canViewPerms at the submit
NoPut == [pc |-> "none", role |-> NoRole, codes |-> {}, touched |-> {}, viewed |-> TRUE]

DialogTypeOK ==
  /\ canViewPerms \in BOOLEAN /\ allPermissions \in {"none", "asked", "here"}
  /\ granted \in [Role -> SUBSET Code] /\ had \in [Role -> SUBSET SUBSET Code]
  /\ cached \in [Role -> CacheState] /\ fetch \in [Role -> FetchState]
  /\ dialog \in DialogState /\ put \in PutState
  /\ dialogEvents \in 0..MaxDialogs

DialogInit ==
  /\ canViewPerms \in BOOLEAN /\ allPermissions = IF canViewPerms THEN "asked" ELSE "none"
  /\ granted \in [Role -> {S \in SUBSET Code : S # {}}]
  /\ had = [r \in Role |-> {granted[r]}]
  /\ cached = [r \in Role |-> [present |-> FALSE, codes |-> {}, stale |-> FALSE, failed |-> FALSE]]
  /\ fetch = [r \in Role |-> NoFetch]
  /\ dialog = NoDialog /\ put = NoPut /\ dialogEvents = 0

Counted == dialogEvents < MaxDialogs /\ dialogEvents' = dialogEvents + 1

\* The effect that copies the role's codes into the boxes, once per dialog.
Synced(d, c) ==
  IF d.role # NoRole /\ ~d.ready /\ c[d.role].present
    THEN [d EXCEPT !.codes = c[d.role].codes, !.ready = TRUE, !.touched = {}]
    ELSE d

\* A query that is enabled and has no fresh data fetches; without any, it is no longer failed.
Asks(r, enabled) ==
  LET asks == enabled /\ r # NoRole /\ fetch[r].pc = "none" /\ (~cached[r].present \/ cached[r].stale)
  IN /\ fetch' = IF asks THEN [fetch EXCEPT ![r] = Sent] ELSE fetch
     /\ cached' = IF asks /\ ~cached[r].present THEN [cached EXCEPT ![r].failed = FALSE] ELSE cached

-----------------------------------------------------------------------------
(* The dialog. *)

HandleOpenPermission(r) ==
  /\ dialog.role = NoRole /\ Counted
  /\ dialog' = Synced([NoDialog EXCEPT !.role = r], cached)
  /\ Asks(r, canViewPerms)
  /\ UNCHANGED <<callerVars, serverVars, put>>

Cancel ==
  /\ dialog.role # NoRole /\ dialog' = NoDialog
  /\ UNCHANGED <<callerVars, serverVars, cached, fetch, put, dialogEvents>>

\* There are boxes once the list of permissions is here; permsSyncing disables them
\* while the role's first codes are fetched.
MayTick ==
  /\ dialog.role # NoRole /\ allPermissions = "here"
  /\ dialog.ready \/ fetch[dialog.role].pc = "none"

HandlePermissionToggle(c) ==
  /\ MayTick
  /\ dialog' = [dialog EXCEPT !.codes = IF c \in @ THEN @ \ {c} ELSE @ \cup {c},
                              !.touched = @ \cup {c}]
  /\ UNCHANGED <<callerVars, serverVars, cached, fetch, put, dialogEvents>>

HandleToggleAll ==
  /\ MayTick
  /\ \E all \in {{}, Code} : dialog' = [dialog EXCEPT !.codes = all, !.touched = Code]
  /\ UNCHANGED <<callerVars, serverVars, cached, fetch, put, dialogEvents>>

Put ==
  /\ dialog.role # NoRole /\ put.pc = "none"
  /\ put' = [pc |-> "sent", role |-> dialog.role, codes |-> dialog.codes,
             touched |-> dialog.touched, viewed |-> canViewPerms]

\* Faulty: a fetch under way does not keep the dialog from being submitted.
SubmitWhileFetching ==
  /\ Put /\ allPermissions = "here" /\ ~cached[dialog.role].failed
  /\ UNCHANGED <<callerVars, serverVars, cached, fetch, dialog, dialogEvents>>

\* Refused without the list of permissions, and while the role's codes could not be
\* loaded or are being loaded; not while nobody asked for them.
HandlePermissionSubmit ==
  /\ Put /\ allPermissions = "here"
  /\ ~cached[dialog.role].failed /\ fetch[dialog.role].pc = "none"
  /\ UNCHANGED <<callerVars, serverVars, cached, fetch, dialog, dialogEvents>>

\* The retry button of the alert: refetch fetches whether or not the query is enabled.
RefetchCurrentPerms ==
  /\ dialog.role # NoRole /\ cached[dialog.role].failed /\ fetch[dialog.role].pc = "none"
  /\ fetch' = [fetch EXCEPT ![dialog.role] = Sent]
  /\ cached' = [cached EXCEPT ![dialog.role].failed = cached[dialog.role].present]
  /\ UNCHANGED <<callerVars, serverVars, dialog, put, dialogEvents>>

\* Success: every cached set is stale, the selected role's is fetched anew (a first fetch
\* of it is let finish) if that query is enabled, and whatever dialog is open now is closed.
PutSucceeds ==
  /\ put.pc = "done" /\ put' = NoPut /\ dialog' = NoDialog
  /\ cached' = [r \in Role |-> [cached[r] EXCEPT !.stale = cached[r].present]]
  /\ fetch' = IF canViewPerms /\ dialog.role # NoRole /\ (cached[dialog.role].present \/ fetch[dialog.role].pc = "none")
                THEN [fetch EXCEPT ![dialog.role] = Sent] ELSE fetch
  /\ UNCHANGED <<callerVars, serverVars, dialogEvents>>

PutRefused ==
  /\ put.pc = "failed" /\ put' = NoPut
  /\ UNCHANGED <<callerVars, serverVars, cached, fetch, dialog, dialogEvents>>

\* /auth/me is fetched again, after a PUT or in the course of time, with other permissions:
\* what they enable is asked for, what they disable stays as it is.
CanChanges ==
  /\ canViewPerms' = ~canViewPerms /\ Counted
  /\ allPermissions' = IF canViewPerms' /\ allPermissions = "none" THEN "asked" ELSE allPermissions
  /\ Asks(dialog.role, canViewPerms')
  /\ UNCHANGED <<serverVars, dialog, put>>

ListArrives ==
  /\ allPermissions = "asked" /\ allPermissions' = "here"
  /\ UNCHANGED <<canViewPerms, serverVars, cached, fetch, dialog, put, dialogEvents>>

-----------------------------------------------------------------------------
(* The server and the cache. *)

Grant(r, codes) ==
  /\ granted' = [granted EXCEPT ![r] = codes]
  /\ had' = [had EXCEPT ![r] = @ \cup {codes}]

ServerPuts ==
  /\ put.pc = "sent"
  /\ \/ Grant(put.role, put.codes) /\ put' = [put EXCEPT !.pc = "done"] /\ UNCHANGED dialogEvents
     \/ Counted /\ put' = [put EXCEPT !.pc = "failed"]
        /\ (Grant(put.role, put.codes) \/ UNCHANGED serverVars)   \* the reply is lost, or it is refused
  /\ UNCHANGED <<callerVars, cached, fetch, dialog>>

OtherAdmin(r) ==
  /\ Counted /\ \E codes \in SUBSET Code : Grant(r, codes)
  /\ UNCHANGED <<callerVars, cached, fetch, dialog, put>>

ServerReads(r) ==
  /\ fetch[r].pc = "sent"
  /\ fetch' = [fetch EXCEPT ![r] = [pc |-> "read", codes |-> granted[r]]]
  /\ UNCHANGED <<callerVars, serverVars, cached, dialog, put, dialogEvents>>

FetchSucceeds(r) ==
  /\ fetch[r].pc = "read"
  /\ fetch' = [fetch EXCEPT ![r] = NoFetch]
  /\ cached' = [cached EXCEPT ![r] = [present |-> TRUE, codes |-> fetch[r].codes,
                                      stale |-> FALSE, failed |-> FALSE]]
  /\ dialog' = Synced(dialog, cached')
  /\ UNCHANGED <<callerVars, serverVars, put, dialogEvents>>

FetchFails(r) ==
  /\ fetch[r].pc # "none" /\ Counted
  /\ fetch' = [fetch EXCEPT ![r] = NoFetch]
  /\ cached' = [cached EXCEPT ![r].failed = TRUE]
  /\ UNCHANGED <<callerVars, serverVars, dialog, put>>

\* staleTime, 30 s.
GoesStale(r) ==
  /\ cached[r].present /\ ~cached[r].stale
  /\ cached' = [cached EXCEPT ![r].stale = TRUE]
  /\ UNCHANGED <<callerVars, serverVars, fetch, dialog, put, dialogEvents>>

DialogNext ==
  \/ Cancel \/ HandleToggleAll \/ HandlePermissionSubmit \/ RefetchCurrentPerms
  \/ PutSucceeds \/ PutRefused \/ ServerPuts \/ CanChanges \/ ListArrives
  \/ \E c \in Code : HandlePermissionToggle(c)
  \/ \E r \in Role : \/ HandleOpenPermission(r) \/ OtherAdmin(r)
                     \/ ServerReads(r) \/ FetchSucceeds(r) \/ FetchFails(r) \/ GoesStale(r)

DialogSpec == DialogInit /\ [][DialogNext]_dialogVars

\* The PUT under way starts from a set the server had for its role, but for the boxes clicked.
StartsFromTheRole ==
  \E codes \in had[put.role] : codes \ put.touched = put.codes \ put.touched

(* What is sent for a role is a set the server had for that very role, but for the
   boxes the user clicked in this dialog: never an empty start, nor another role's
   codes, however dialogs, fetches and failures overlap.  The exception is a caller
   who may not see permissions at that moment: nothing is fetched for the dialog,
   which the submit does not notice, so an empty start may be sent with the boxes
   clicked on it; never another role's codes even then.                            *)
OnlyWhatWasTicked ==
  put.pc # "none" =>
    StartsFromTheRole \/ (~put.viewed /\ put.codes \subseteq put.touched)
=============================================================================
