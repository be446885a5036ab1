----------------------------- MODULE MCOverlaps -----------------------------
(***************************************************************************)
(* The components whose calls overlap with calls of their own only, for    *)
(* TLC: in a behaviour one of them acts and the others stay as they are.   *)
(***************************************************************************)
EXTENDS Backup, DailyQuota, ErrorLogs, Registration, Setup, SignIn, RoleDialog, FilePreview,
  Presence, Transfer, Mail, TLC

VARIABLE acting

OverlapsInit ==
  /\ acting \in {"backup", "quota", "logs", "code", "setup", "signIn", "dialog", "preview", "presence", "transfer", "mail"}
  /\ BackupInit /\ QuotaInit /\ LogInit /\ CodeInit /\ SetupInit /\ SignInInit
  /\ DialogInit /\ PreviewInit /\ PresenceInit /\ TransferInit /\ MailInit
  /\ acting # "dialog" => canViewPerms /\ granted = [r \in Role |-> Code]
  /\ acting # "transfer" =>
       /\ content = [size |-> 0, row |-> "none", stored |-> TRUE, inDir |-> TRUE]
       /\ transfer = [kind |-> "preview", header |-> [form |-> "absent", first |-> NoNumber, last |-> NoNumber],
                      mayRead |-> TRUE]
  /\ acting # "setup" => ~adminRow.live /\ ~userRow.live /\ adminRow.id = 0

BackupActs ==
  /\ acting = "backup" /\ BackupNext
  /\ UNCHANGED <<quotaVars, logVars, codeVars, setupVars, signInVars, dialogVars, previewVars, presenceVars, transferVars, mailVars>>

QuotaActs ==
  /\ acting = "quota" /\ QuotaNext
  /\ UNCHANGED <<backupVars, logVars, codeVars, setupVars, signInVars, dialogVars, previewVars, presenceVars, transferVars, mailVars>>

LogActs ==
  /\ acting = "logs" /\ LogNext
  /\ UNCHANGED <<backupVars, quotaVars, codeVars, setupVars, signInVars, dialogVars, previewVars, presenceVars, transferVars, mailVars>>

CodeActs ==
  /\ acting = "code" /\ CodeNext
  /\ UNCHANGED <<backupVars, quotaVars, logVars, setupVars, signInVars, dialogVars, previewVars, presenceVars, transferVars, mailVars>>

SetupActs ==
  /\ acting = "setup" /\ SetupNext
  /\ UNCHANGED <<backupVars, quotaVars, logVars, codeVars, signInVars, dialogVars, previewVars, presenceVars, transferVars, mailVars>>

SignInActs ==
  /\ acting = "signIn" /\ SignInNext
  /\ UNCHANGED <<backupVars, quotaVars, logVars, codeVars, setupVars, dialogVars, previewVars, presenceVars, transferVars, mailVars>>

DialogActs ==
  /\ acting = "dialog" /\ DialogNext
  /\ UNCHANGED <<backupVars, quotaVars, logVars, codeVars, setupVars, signInVars, previewVars, presenceVars, transferVars, mailVars>>

PreviewActs ==
  /\ acting = "preview" /\ PreviewNext
  /\ UNCHANGED <<backupVars, quotaVars, logVars, codeVars, setupVars, signInVars, dialogVars, presenceVars, transferVars, mailVars>>

PresenceActs ==
  /\ acting = "presence" /\ PresenceNext
  /\ UNCHANGED <<backupVars, quotaVars, logVars, codeVars, setupVars, signInVars, dialogVars, previewVars, transferVars, mailVars>>

TransferActs ==
  /\ acting = "transfer" /\ TransferNext
  /\ UNCHANGED <<backupVars, quotaVars, logVars, codeVars, setupVars, signInVars, dialogVars, previewVars, presenceVars, mailVars>>

MailActs ==
  /\ acting = "mail" /\ MailNext
  /\ UNCHANGED <<backupVars, quotaVars, logVars, codeVars, setupVars, signInVars, dialogVars, previewVars, presenceVars, transferVars>>

OverlapsNext ==
  /\ UNCHANGED acting
  /\ \/ BackupActs
     \/ QuotaActs
     \/ LogActs
     \/ CodeActs
     \/ SetupActs
     \/ SignInActs
     \/ DialogActs
     \/ PreviewActs
     \/ PresenceActs
     \/ TransferActs
     \/ MailActs

OverlapsSpec == OverlapsInit /\ [][OverlapsNext]_<<acting, backupVars, quotaVars, logVars, codeVars, setupVars, signInVars, dialogVars, previewVars, presenceVars, transferVars, mailVars>>

\* Entry and Role, Code and Image share their values, so that few permutations serve all.
OverlapsSymmetry == Permutations(Entry) \cup Permutations(Code)

(* Every variable of these components keeps its type. *)
OverlapsTypeOK ==
  /\ BackupTypeOK /\ QuotaTypeOK /\ LogTypeOK /\ CodeTypeOK /\ SetupTypeOK /\ SignInTypeOK
  /\ DialogTypeOK /\ PreviewTypeOK /\ PresenceTypeOK
  /\ TransferTypeOK /\ MailTypeOK

(* Of what is sent to an address nothing is there twice: a code is in one place
   or used, and one mail at a time is under way (Registration, Mail).        *)
OnceOnly == CodeOnce /\ MailOnce
=============================================================================
