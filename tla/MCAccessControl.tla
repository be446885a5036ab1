-------------------------- MODULE MCAccessControl --------------------------
(* AccessControl with a reserved permission and one that opens its route. *)
EXTENDS AccessControl, TLC

CONSTANTS r1, r2, known, custom, k, c, d

MCOpens == known :> {} @@ custom :> {k}

AccessSymmetry == Permutations(Request)
=============================================================================
