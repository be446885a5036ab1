------------------------------ MODULE Throttle ------------------------------
(***************************************************************************)
(* RedisThrottlerStorage: one counter throttle:<name>:<key> that all server *)
(* instances share.  The first hit opens a window, the first one too many   *)
(* begins a block, and while Redis fails every request is let through.      *)
(***************************************************************************)
EXTENDS Integers

CONSTANTS
  HitLimit,   \* limit
  Window,     \* ttl, in ticks
  Block,      \* blockDuration, in ticks; 0: none
  MaxHits     \* bound on the counter

ASSUME ThrottleAssumption ==
  /\ HitLimit \in Nat /\ Window \in Nat \ {0} /\ Block \in Nat
  /\ MaxHits \in Nat /\ HitLimit + 1 < MaxHits

VARIABLES
  hits,      \* the counter, 0 when there is none
  left,      \* ticks until it expires
  admitted   \* history: requests it let through since it was created

throttleVars == <<hits, left, admitted>>

ThrottleTypeOK ==
  /\ hits \in 0..MaxHits
  /\ left \in 0..(Window + Block) /\ (left = 0 <=> hits = 0)
  /\ admitted \in 0..MaxHits

ThrottleInit == hits = 0 /\ left = 0 /\ admitted = 0

-----------------------------------------------------------------------------
\* MaxHits stands for every number from it on.
Raised == IF hits < MaxHits THEN hits + 1 ELSE hits

\* Faulty: every blocked hit begins the block anew.
ExpiryRenewed ==
  IF hits = 0 THEN Window ELSE IF Raised > HitLimit /\ Block > 0 THEN Block ELSE left

\* EXPIRE by the first hit, and once more by the first one too many.
Expiry ==
  IF Raised = HitLimit + 1 /\ hits = HitLimit /\ Block > 0 THEN Block
  ELSE IF hits = 0 THEN Window ELSE left

\* increment: one script.
Hit ==
  /\ hits' = Raised /\ left' = Expiry
  /\ admitted' = IF Raised > HitLimit THEN admitted ELSE admitted + 1

\* The script or the TTL after it fails: the request passes, counted or not.
HitFailsOpen ==
  \/ UNCHANGED throttleVars
  \/ hits' = Raised /\ left' = Expiry /\ UNCHANGED admitted

ThrottleTick ==
  /\ left > 0 /\ left' = left - 1
  /\ IF left = 1 THEN hits' = 0 /\ admitted' = 0 ELSE UNCHANGED <<hits, admitted>>

ThrottleNext == Hit \/ HitFailsOpen \/ ThrottleTick

ThrottleFairness == WF_throttleVars(ThrottleTick)

ThrottleSpec == ThrottleInit /\ [][ThrottleNext]_throttleVars /\ ThrottleFairness

-----------------------------------------------------------------------------
(* Whoever is blocked is let in again, however often he tries meanwhile: a hit
   that is refused does not put the end of the block off.                     *)
Blocked == hits > HitLimit
BlockEnds == Blocked ~> ~Blocked
=============================================================================
