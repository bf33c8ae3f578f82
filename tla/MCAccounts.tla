----------------------------- MODULE MCAccounts -----------------------------
(* Requests are interchangeable. *)
EXTENDS Accounts, TLC

Symmetry == Permutations(Call)
=============================================================================
