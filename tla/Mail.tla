-------------------------------- MODULE Mail --------------------------------
(***************************************************************************)
(* The mails to one address: the codes of sendRegisterCode, which nobody   *)
(* waits for, and an administrator's welcome and test mails.  Each takes   *)
(* the address's lock in Redis before it is handed to the mail server, and *)
(* gives it back when that fails.  The lock's 60 s may end at any step.    *)
(***************************************************************************)
EXTENDS Naturals, FiniteSets

CONSTANTS
  Letter,        \* mails that may overlap
  MaxMailFaults  \* bound on failing calls to Redis

ASSUME MailAssumption == MaxMailFaults \in Nat

VARIABLES
  letter,    \* letter[l]: how far a mail is
  mailLock,  \* mail:limit:<email>
  overrun,   \* history: the lock has run out under a mail
  mailFaults

mailVars == <<letter, mailLock, overrun, mailFaults>>

MailTypeOK ==
  /\ letter \in [Letter -> {"none", "lock", "send", "release"}]
  /\ mailLock \in BOOLEAN /\ overrun \in BOOLEAN
  /\ mailFaults \in 0..MaxMailFaults

MailInit ==
  /\ letter = [l \in Letter |-> "none"]
  /\ mailLock = FALSE /\ overrun = FALSE /\ mailFaults = 0

MailFault == mailFaults < MaxMailFaults /\ mailFaults' = mailFaults + 1
LetterGoes(l, pc) == letter' = [letter EXCEPT ![l] = pc]
UnderDelivery == {l \in Letter : letter[l] \in {"send", "release"}}

-----------------------------------------------------------------------------
\* sendRegisterCode to an address without an account, sendWelcome, and
\* sendVerificationCode without a code.
Post(l) ==
  /\ letter[l] = "none" /\ LetterGoes(l, "lock")
  /\ UNCHANGED <<mailLock, overrun, mailFaults>>

\* Faulty: the lock is looked at, and is to be set when the mail has been sent.
LookAtMailLock(l) ==
  /\ letter[l] = "lock"
  /\ LetterGoes(l, IF mailLock THEN "none" ELSE "send")
  /\ UNCHANGED <<mailLock, overrun, mailFaults>>

\* SET NX; 409 when it is there.
TakeMailLock(l) ==
  /\ letter[l] = "lock"
  /\ LetterGoes(l, IF mailLock THEN "none" ELSE "send")
  /\ mailLock' = TRUE
  /\ UNCHANGED <<overrun, mailFaults>>

\* Redis fails, the SET done or not: the mail is sent all the same.
MailLockFails(l) ==
  /\ letter[l] = "lock" /\ MailFault
  /\ LetterGoes(l, "send") /\ mailLock' \in {mailLock, TRUE}
  /\ UNCHANGED overrun

\* sendMail settles, or without a transporter there is nothing to send; the lock stays.
Deliver(l) ==
  /\ letter[l] = "send" /\ LetterGoes(l, "none")
  /\ UNCHANGED <<mailLock, overrun, mailFaults>>

DeliverFails(l) ==
  /\ letter[l] = "send" /\ LetterGoes(l, "release")
  /\ UNCHANGED <<mailLock, overrun, mailFaults>>

\* The lock is deleted, whoever has it by then; a failing DEL is ignored.
ReleaseMailLock(l) ==
  /\ letter[l] = "release" /\ LetterGoes(l, "none")
  /\ \/ mailLock' = FALSE /\ UNCHANGED mailFaults
     \/ MailFault /\ UNCHANGED mailLock
  /\ UNCHANGED overrun

MailLockEnds ==
  /\ mailLock /\ mailLock' = FALSE
  /\ overrun' = (overrun \/ UnderDelivery # {})
  /\ UNCHANGED <<letter, mailFaults>>

MailNext ==
  \/ \E l \in Letter : \/ Post(l) \/ TakeMailLock(l) \/ MailLockFails(l)
                       \/ Deliver(l) \/ DeliverFails(l) \/ ReleaseMailLock(l)
  \/ MailLockEnds

MailSpec == MailInit /\ [][MailNext]_mailVars

-----------------------------------------------------------------------------
(* Of the mails to one address one is under way at a time, whichever call sends
   it, unless Redis fails or a mail takes longer than the lock's 60 s: then a
   late failure deletes the lock of another.                                 *)
MailOnce == mailFaults = 0 /\ ~overrun => Cardinality(UnderDelivery) <= 1
=============================================================================
