--------------------------- MODULE MCCredentials ---------------------------
(***************************************************************************)
(* Small instances of SessionTokens and SendTicket for TLC.  The two share *)
(* no state, so every behaviour of one is explored with the other at rest, *)
(* instead of the product of the two.                                      *)
(***************************************************************************)
EXTENDS SessionTokens, SendTicket, TLC

CredentialInit == TokenInit /\ SendInit

CredentialNext ==
  \/ SendInit /\ TokenNext /\ UNCHANGED sendVars
  \/ TokenInit /\ SendNext /\ UNCHANGED tokenVars

CredentialSpec == CredentialInit /\ [][CredentialNext]_<<tokenVars, sendVars>>

\* Token ids and calls are interchangeable.  The instance names tickets and send
\* calls with the same model values, so that they are permuted along.
Symmetry == Permutations(Token \cup TicketId) \cup Permutations(Request \cup SendCall)
=============================================================================
