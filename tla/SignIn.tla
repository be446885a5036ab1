------------------------------- MODULE SignIn -------------------------------
(***************************************************************************)
(* What a sign-in has to pass before it is given tokens (Session): the     *)
(* counter login:fail:<ip>:<username> of one user and source, and for      *)
(* WeChat the state of a QR code and the account of an openId.             *)
(*                                                                         *)
(* The counter's 15 minutes and a state's 300 s may end at any step.       *)
(***************************************************************************)
EXTENDS Integers, FiniteSets

CONSTANTS
  Login,          \* sign-ins that may overlap
  QrState,        \* states handed out with QR codes
  NoState,
  LoginLimit,     \* LOGIN_FAIL_LIMIT
  MaxTries,       \* bound on the counter
  MaxSignInFaults \* bound on failing Redis calls

ASSUME SignInAssumption ==
  /\ LoginLimit \in Nat /\ MaxTries \in Nat /\ LoginLimit < MaxTries
  /\ MaxSignInFaults \in Nat

VARIABLES
  login,      \* login[l]: a sign-in under way
  tries,      \* the counter, 0 when there is none
  failed,     \* history: wrong passwords since the counter began
  qrStates,   \* wechat:state:<state> keys
  scanned,    \* history: states with which a sign-in has passed
  wechatUser, \* the account of the openId
  signInFaults

signInVars == <<login, tries, failed, qrStates, scanned, wechatUser, signInFaults>>
lockVars == <<tries, failed>>
wechatVars == <<qrStates, scanned, wechatUser>>

LoginState ==
  [pc      : {"idle", "verify", "clear", "exchange", "create"},
   counted : BOOLEAN]          \* history: by the counter there is now
NoLogin == [pc |-> "idle", counted |-> FALSE]

SignInTypeOK ==
  /\ login \in [Login -> LoginState]
  /\ tries \in 0..MaxTries /\ failed \in Nat
  /\ qrStates \subseteq QrState /\ scanned \in [QrState -> Nat]
  /\ wechatUser \in {"none", "live", "disabled", "deleted"}
  /\ signInFaults \in 0..MaxSignInFaults

SignInInit ==
  /\ login = [l \in Login |-> NoLogin] /\ tries = 0 /\ failed = 0
  /\ qrStates = {} /\ scanned = [q \in QrState |-> 0] /\ wechatUser = "none"
  /\ signInFaults = 0

SignInFault == signInFaults < MaxSignInFaults /\ signInFaults' = signInFaults + 1
Step(l, pc) == login' = [login EXCEPT ![l].pc = pc]
SignedOff(l) == login' = [login EXCEPT ![l] = NoLogin]

-----------------------------------------------------------------------------
(* With a password. *)

\* Faulty: GET before the password is looked at, INCR after it was wrong.
EnforceReadOnly(l) ==
  /\ login[l].pc = "idle"
  /\ IF tries < LoginLimit
       THEN login' = [login EXCEPT ![l] = [pc |-> "verify", counted |-> TRUE]]
       ELSE UNCHANGED login
  /\ tries' \in {tries, IF tries < MaxTries THEN tries + 1 ELSE tries}
  /\ UNCHANGED <<failed, wechatVars, signInFaults>>

\* enforceLoginAttemptLimit: one script counts the attempt and tells whether it may go
\* on.  MaxTries stands for every number from it on.
Enforce(l) ==
  /\ login[l].pc = "idle"
  /\ tries' = IF tries < MaxTries THEN tries + 1 ELSE tries
  /\ IF tries' <= LoginLimit
       THEN login' = [login EXCEPT ![l] = [pc |-> "verify", counted |-> TRUE]]
       ELSE UNCHANGED login
  /\ UNCHANGED <<failed, wechatVars, signInFaults>>

\* Redis fails: there is no lock.
EnforceFails(l) ==
  /\ login[l].pc = "idle" /\ SignInFault
  /\ tries' \in {tries, IF tries < MaxTries THEN tries + 1 ELSE tries}
  /\ Step(l, "verify")
  /\ UNCHANGED <<failed, wechatVars>>

\* Unknown, disabled or mistaken: the answer is the same, and so is the time it takes.
VerifyWrong(l) ==
  /\ login[l].pc = "verify"
  /\ failed' = IF login[l].counted THEN failed + 1 ELSE failed
  /\ SignedOff(l)
  /\ UNCHANGED <<tries, wechatVars, signInFaults>>

VerifyRight(l) ==
  /\ login[l].pc = "verify" /\ Step(l, "clear")
  /\ UNCHANGED <<lockVars, wechatVars, signInFaults>>

CounterGone == /\ tries' = 0 /\ failed' = 0
               /\ login' = [k \in Login |-> [login[k] EXCEPT !.counted = FALSE]]

\* clearLoginFailures, then the tokens; if the DEL fails the counter stays.
ClearFailures(l) ==
  /\ login[l].pc = "clear"
  /\ \/ /\ tries' = 0 /\ failed' = 0 /\ UNCHANGED signInFaults
        /\ login' = [k \in Login |-> IF k = l THEN NoLogin ELSE [login[k] EXCEPT !.counted = FALSE]]
     \/ SignInFault /\ SignedOff(l) /\ UNCHANGED lockVars
  /\ UNCHANGED wechatVars

CounterExpires ==
  /\ tries > 0 /\ CounterGone
  /\ UNCHANGED <<wechatVars, signInFaults>>

-----------------------------------------------------------------------------
(* With WeChat. *)

GetQrCode(q) ==
  /\ q \notin qrStates /\ scanned[q] = 0
  /\ qrStates' = qrStates \cup {q}
  /\ UNCHANGED <<login, lockVars, scanned, wechatUser, signInFaults>>

QrExpires(q) ==
  /\ q \in qrStates /\ qrStates' = qrStates \ {q}
  /\ UNCHANGED <<login, lockVars, scanned, wechatUser, signInFaults>>

\* GETDEL of the state; the mini-program has none.
Scan(l, q) ==
  /\ login[l].pc = "idle"
  /\ \/ q = NoState /\ UNCHANGED <<qrStates, scanned>>
     \/ /\ q \in qrStates /\ qrStates' = qrStates \ {q}
        /\ scanned' = [scanned EXCEPT ![q] = @ + 1]
  /\ Step(l, "exchange")
  /\ UNCHANGED <<lockVars, wechatUser, signInFaults>>

\* The code is exchanged for the openId and its user looked up, deleted ones included.
FindUser(l) ==
  /\ login[l].pc = "exchange"
  /\ \/ SignedOff(l)                        \* WeChat refuses, or the user is not admitted
     \/ wechatUser = "live" /\ SignedOff(l) \* tokens
     \/ wechatUser = "none" /\ Step(l, "create")
  /\ UNCHANGED <<lockVars, wechatVars, signInFaults>>

\* The unique index on the openId leaves one of two creations.
CreateUser(l) ==
  /\ login[l].pc = "create" /\ SignedOff(l)
  /\ wechatUser' = IF wechatUser \in {"none", "deleted"} THEN "live" ELSE wechatUser
  /\ UNCHANGED <<lockVars, qrStates, scanned, signInFaults>>

AdminChangesUser ==
  /\ wechatUser # "none" /\ wechatUser' \in {"live", "disabled", "deleted"}
  /\ UNCHANGED <<login, lockVars, qrStates, scanned, signInFaults>>

SignInNext ==
  \/ \E l \in Login :
       \/ Enforce(l) \/ EnforceFails(l) \/ VerifyWrong(l) \/ VerifyRight(l) \/ ClearFailures(l)
       \/ \E q \in QrState \cup {NoState} : Scan(l, q)
       \/ FindUser(l) \/ CreateUser(l)
  \/ \E q \in QrState : GetQrCode(q) \/ QrExpires(q)
  \/ CounterExpires \/ AdminChangesUser

SignInSpec == SignInInit /\ [][SignInNext]_signInVars

-----------------------------------------------------------------------------
(* However many sign-ins overlap, and whenever one of them clears the counter, no
   more than LoginLimit wrong passwords are looked at between two resets of it,
   the attempts under way included, as long as Redis answers; and one state of a
   QR code lets one sign-in through, whoever else presents it.                 *)
LimitsHold ==
  /\ failed + Cardinality({l \in Login : login[l].pc = "verify" /\ login[l].counted}) <= LoginLimit
  /\ \A q \in QrState : scanned[q] <= 1
=============================================================================
