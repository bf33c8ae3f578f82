----------------------------- MODULE MCSignUp -----------------------------
(* Small instances of SignUp for TLC. *)
EXTENDS SignUp, TLC

\* Each kind of id is interchangeable.
Symmetry == Permutations(Google) \cup Permutations(Name) \cup Permutations(Ticket) \cup Permutations(Code)
              \cup Permutations(Session) \cup Permutations(Exchange) \cup Permutations(Call)
=============================================================================
