----------------------------- MODULE MCFileVault -----------------------------
(* FileVault for TLC. *)
EXTENDS FileVault, TLC

VaultSymmetry == Permutations(Request)
=============================================================================
