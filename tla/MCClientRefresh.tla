-------------------------- MODULE MCClientRefresh --------------------------
(* ClientRefresh for TLC: a tab with two requests, and one with its socket only. *)
EXTENDS ClientRefresh

CONSTANT t1
Homes == [r \in Request |-> t1]
=============================================================================
