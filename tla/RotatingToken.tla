---------------------------- MODULE RotatingToken ----------------------------
(***************************************************************************)
(* What the server promises about refresh tokens, independently of Redis,  *)
(* of the requests and of the clock: a token is claimed by at most one     *)
(* refresh at a time, a claim ends in exactly one of "exchanged for a      *)
(* successor", "given back" or "lost", and an exchanged or void token is   *)
(* never usable again.                                                     *)
(***************************************************************************)
CONSTANT Jti                  \* identifiers of the tokens

VARIABLE token                \* token[j]: the stage of token j's life

Stage == {"unissued", "live", "claimed", "spent", "void"}

TokenTypeOK == token \in [Jti -> Stage]

\* At most one token (a session that is already open) is usable at first.
TokenInit ==
  \E Live \in SUBSET Jti :
    token = [j \in Jti |-> IF j \in Live THEN "live" ELSE "unissued"]

\* Tokens that were signed but never stored may fall away beside any step.
Kept(k) == token'[k] = token[k] \/ (token[k] = "unissued" /\ token'[k] = "void")

Move(j, from, to) ==
  /\ token[j] = from /\ token'[j] = to
  /\ \A k \in Jti \ {j} : Kept(k)
  /\ token' \in [Jti -> Stage]

Issue(j)    == Move(j, "unissued", "live")
Abandon(j)  == Move(j, "unissued", "void")
Claim(j)    == Move(j, "live", "claimed")
Exchange(j) == Move(j, "claimed", "spent")
GiveBack(j) == Move(j, "claimed", "live")
Lose(j)     == Move(j, "claimed", "void")
Drop(j)     == Move(j, "live", "void")

\* A logout, a password change or an administrator voids whatever is usable.
Revoke ==
  token' = [j \in Jti |-> IF token[j] = "live" THEN "void" ELSE token[j]]

TokenNext ==
  \/ \E j \in Jti : \/ Issue(j) \/ Abandon(j) \/ Claim(j) \/ Exchange(j)
                    \/ GiveBack(j) \/ Lose(j) \/ Drop(j)
  \/ Revoke

TokenSpec == TokenInit /\ [][TokenNext]_token

(* An exchanged token and a void token stay so: no later request, retry or
   restoration of a consumed key makes one usable again.                   *)
SpentIsFinal ==
  [][\A j \in Jti : token[j] \in {"spent", "void"} => token'[j] = token[j]]_token
=============================================================================
