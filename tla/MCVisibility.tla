---------------------------- MODULE MCVisibility ----------------------------
(* Small instances of Visibility for TLC. *)
EXTENDS Visibility, TLC

\* Calls, reporters and readers are interchangeable.
Symmetry == Permutations(Call) \cup Permutations(Reporter)
=============================================================================
