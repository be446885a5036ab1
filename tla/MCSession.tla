------------------------------ MODULE MCSession ------------------------------
(* Session for TLC: interchangeable clients, revokers and token pairs. *)
EXTENDS Session, TLC

SessionSymmetry ==
  Permutations(Request \ Revoker) \cup Permutations(Revoker) \cup Permutations(Jti)
=============================================================================
