------------------------------- MODULE MCBans -------------------------------
(* Requests and administrators are interchangeable. *)
EXTENDS Bans, TLC

Symmetry == Permutations(Checker) \cup Permutations(Admin)
=============================================================================
