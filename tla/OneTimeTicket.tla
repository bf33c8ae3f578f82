--------------------------- MODULE OneTimeTicket ---------------------------
(***************************************************************************)
(* What a send ticket promises: it is issued once, it is either redeemed   *)
(* or expires, and it gives out at most one media URL, only after it was   *)
(* redeemed.                                                               *)
(***************************************************************************)
EXTENDS Naturals

CONSTANT Ticket

VARIABLES state,   \* "none", "active", "redeemed", "expired" or "deleted"
          served   \* how many media URLs the ticket has given out

vars == <<state, served>>

Init ==
  /\ state = [t \in Ticket |-> "none"]
  /\ served = [t \in Ticket |-> 0]

Move(t, from, to) ==
  /\ state[t] \in from
  /\ state' = [state EXCEPT ![t] = to]
  /\ UNCHANGED served

\* The media URL goes out: once, for a redeemed ticket (whose row an
\* administrator may have removed since).
Serve(t) ==
  /\ state[t] \in {"redeemed", "deleted"}
  /\ served[t] = 0
  /\ served' = [served EXCEPT ![t] = 1]
  /\ UNCHANGED state

Next ==
  \E t \in Ticket :
    \/ Move(t, {"none"}, "active")
    \/ Move(t, {"active"}, "redeemed")
    \/ Move(t, {"active"}, "expired")
    \/ Move(t, {"active", "redeemed", "expired"}, "deleted")
    \/ Serve(t)

Spec == Init /\ [][Next]_vars
=============================================================================
