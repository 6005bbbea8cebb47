----------------------------- MODULE MCAccounts -----------------------------
(* Instances of Accounts for TLC. *)
EXTENDS Accounts, TLC

Symmetry == Permutations(Tokens) \union Permutations(Threads)
=============================================================================
