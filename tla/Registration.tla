---------------------------- MODULE Registration ----------------------------
(***************************************************************************)
(* Registration with a code sent to an address, for one address: the code  *)
(* and its cooldown in Redis, the requests that take the code, guess wrong *)
(* or right and put it back, the accounts with the address, and the other  *)
(* ways an account comes and goes.  The mail is Mail's.                    *)
(*                                                                         *)
(* A code's 300 s, the cooldown's 60 s and the counter's 300 s may end at  *)
(* any step.  A number drawn twice is taken for two different codes.       *)
(***************************************************************************)
EXTENDS Integers, FiniteSets

CONSTANTS
  Request,        \* calls of registerWithCode that may overlap
  MaxCode,        \* bound on the codes sent, which are numbered
  GuessLimit,     \* the 5 failures that delete a code
  MaxCodeFaults   \* bound on failing calls

ASSUME RegistrationAssumption ==
  MaxCode \in Nat /\ GuessLimit \in Nat \ {0} /\ MaxCodeFaults \in Nat

VARIABLES
  code,      \* register:code:<email>, 0 when there is none
  cooling,   \* register:code:limit:<email>
  guesses,   \* register:code:attempts:<email>
  sent,      \* how many codes have been made
  request,   \* request[q]: a registration under way
  owner,     \* how the live account with the address was made
  served,    \* history: the codes with which a request has made an account
  codeFaults

codeVars == <<code, cooling, guesses, sent, request, owner, served, codeFaults>>

Held == {"taken", "wrong", "count", "clear", "select", "insert", "putBack"}
RequestState ==
  [pc   : {"idle", "take", "drop", "reset"} \cup Held,
   said : 0..MaxCode,    \* the code in the request
   held : 0..MaxCode]    \* what its GETDEL returned and it may put back
NoRequest == [pc |-> "idle", said |-> 0, held |-> 0]

CodeTypeOK ==
  /\ code \in 0..MaxCode /\ cooling \in BOOLEAN /\ guesses \in 0..GuessLimit
  /\ sent \in 0..MaxCode
  /\ request \in [Request -> RequestState]
  /\ owner \in {"nobody", "code", "other"}
  /\ served \in [1..MaxCode -> 0..2]
  /\ codeFaults \in 0..MaxCodeFaults

CodeInit ==
  /\ code = 0 /\ cooling = FALSE /\ guesses = 0 /\ sent = 0
  /\ request = [q \in Request |-> NoRequest]
  /\ owner = "nobody" /\ served = [c \in 1..MaxCode |-> 0] /\ codeFaults = 0

CodeFault == codeFaults < MaxCodeFaults /\ codeFaults' = codeFaults + 1
To(q, pc) == request' = [request EXCEPT ![q].pc = pc]
Leaves(q) == request' = [request EXCEPT ![q] = NoRequest]

-----------------------------------------------------------------------------
\* sendRegisterCode: the lock, then the code, whether or not the address has an account;
\* the mail, to addresses without one, is not waited for.
SendCode ==
  /\ ~cooling /\ sent < MaxCode
  /\ cooling' = TRUE
  /\ sent' = sent + 1 /\ code' = sent'
  /\ UNCHANGED <<guesses, request, owner, served, codeFaults>>

\* A call fails: the cooldown is on, and no mail goes out.
SendCodeFails ==
  /\ ~cooling /\ sent < MaxCode /\ CodeFault
  /\ cooling' = TRUE
  /\ sent' = sent + 1 /\ code' \in {code, sent'}
  /\ UNCHANGED <<guesses, request, owner, served>>

\* registerWithCode reads the TTL, for the case that it has to put the code back.
Ask(q, c) ==
  /\ request[q].pc = "idle"
  /\ request' = [request EXCEPT ![q] = [pc |-> "take", said |-> c, held |-> 0]]
  /\ UNCHANGED <<code, cooling, guesses, sent, owner, served, codeFaults>>

Compared(q, found) ==
  request' = [request EXCEPT ![q] =
    [@ EXCEPT !.held = found,
              !.pc = IF found = 0 THEN "count"
                     ELSE IF found = request[q].said THEN "clear" ELSE "wrong"]]

\* Faulty: GET, and a DEL whose answer is not looked at.
TakeRead(q) ==
  /\ request[q].pc = "take"
  /\ Compared(q, code)
  /\ UNCHANGED <<code, cooling, guesses, sent, owner, served, codeFaults>>

\* GETDEL: of two requests with one code, one finds nothing.
Take(q) ==
  /\ request[q].pc = "take"
  /\ Compared(q, code)
  /\ code' = 0
  /\ UNCHANGED <<cooling, guesses, sent, owner, served, codeFaults>>

\* A wrong guess puts the code back, over one that has been sent since.
PutWrongBack(q) ==
  /\ request[q].pc = "wrong"
  /\ code' = request[q].held
  /\ request' = [request EXCEPT ![q].pc = "count", ![q].held = 0]
  /\ UNCHANGED <<cooling, guesses, sent, owner, served, codeFaults>>

\* INCR; the failure that reaches the limit deletes the code, then the counter.
Count(q) ==
  /\ request[q].pc = "count"
  /\ guesses' = IF guesses < GuessLimit THEN guesses + 1 ELSE guesses
  /\ IF guesses' >= GuessLimit THEN To(q, "drop") ELSE Leaves(q)
  /\ UNCHANGED <<code, cooling, sent, owner, served, codeFaults>>

DropCode(q) ==
  /\ \/ /\ request[q].pc = "drop" /\ To(q, "reset")
        /\ code' = 0 /\ UNCHANGED guesses
     \/ /\ request[q].pc = "reset" /\ Leaves(q)
        /\ guesses' = 0 /\ UNCHANGED code
  /\ UNCHANGED <<cooling, sent, owner, served, codeFaults>>

ClearGuesses(q) ==
  /\ request[q].pc = "clear"
  /\ guesses' = 0 /\ To(q, "select")
  /\ UNCHANGED <<code, cooling, sent, owner, served, codeFaults>>

\* register: the name or the address is taken, the default role is missing, ...
Precheck(q) ==
  /\ request[q].pc = "select"
  /\ \/ owner = "nobody" /\ To(q, "insert")
     \/ To(q, "putBack")
  /\ UNCHANGED <<code, cooling, guesses, sent, owner, served, codeFaults>>

\* The unique index on the address decides; the login that follows is Session's.
InsertUser(q) ==
  /\ request[q].pc = "insert"
  /\ IF owner = "nobody"
       THEN /\ owner' = "code"
            /\ served' = [served EXCEPT ![request[q].held] = @ + 1]
            /\ Leaves(q)
       ELSE To(q, "putBack") /\ UNCHANGED <<owner, served>>
  /\ UNCHANGED <<code, cooling, guesses, sent, codeFaults>>

\* The answer to the INSERT is lost: the account may be there all the same.
InsertUserFails(q) ==
  /\ request[q].pc = "insert" /\ CodeFault
  /\ owner' \in {owner, IF owner = "nobody" THEN "code" ELSE owner}
  /\ To(q, "putBack")
  /\ UNCHANGED <<code, cooling, guesses, sent, served>>

\* Any failure puts the code back with the time it had left.
PutBack(q) ==
  /\ request[q].pc = "putBack"
  /\ code' = request[q].held
  /\ Leaves(q)
  /\ UNCHANGED <<cooling, guesses, sent, owner, served, codeFaults>>

\* A Redis call fails, done or not, or the process dies: the request ends there.
Broken(q) ==
  /\ request[q].pc # "idle" /\ CodeFault
  /\ code' \in {code, IF request[q].pc = "take" THEN 0 ELSE code,
                IF request[q].pc \in {"wrong", "putBack"} THEN request[q].held ELSE code}
  /\ Leaves(q)
  /\ UNCHANGED <<cooling, guesses, sent, owner, served>>

-----------------------------------------------------------------------------
\* An administrator creates, restores or renames an account with the address.
OtherAccount ==
  /\ owner = "nobody" /\ owner' = "other"
  /\ UNCHANGED <<code, cooling, guesses, sent, request, served, codeFaults>>

\* The account is deleted, or gets another address.
AccountGoes ==
  /\ owner # "nobody" /\ owner' = "nobody"
  /\ UNCHANGED <<code, cooling, guesses, sent, request, served, codeFaults>>

TimePasses ==
  /\ \/ code # 0 /\ code' = 0 /\ UNCHANGED <<cooling, guesses>>
     \/ cooling /\ cooling' = FALSE /\ UNCHANGED <<code, guesses>>
     \/ guesses # 0 /\ guesses' = 0 /\ UNCHANGED <<code, cooling>>
  /\ UNCHANGED <<sent, request, owner, served, codeFaults>>

CodeNext ==
  \/ SendCode \/ SendCodeFails
  \/ \E q \in Request :
       \/ \E c \in 1..MaxCode : Ask(q, c)
       \/ Take(q) \/ PutWrongBack(q) \/ Count(q) \/ DropCode(q) \/ ClearGuesses(q)
       \/ Precheck(q) \/ InsertUser(q) \/ InsertUserFails(q) \/ PutBack(q) \/ Broken(q)
  \/ OtherAccount \/ AccountGoes \/ TimePasses

CodeSpec == CodeInit /\ [][CodeNext]_codeVars

-----------------------------------------------------------------------------
(* A code is in one place, in Redis or in the hand of one request, or it has
   made an account, as far as the server knows: two requests with one code do
   not both register, and a code that has been used does not come back, whoever
   puts one back.                                                             *)
Places(c) ==
  Cardinality({q \in Request : request[q].held = c}) + (IF code = c THEN 1 ELSE 0) + served[c]
CodeOnce == \A c \in 1..MaxCode : Places(c) <= 1
=============================================================================
