-------------------------- MODULE VideoLifecycle --------------------------
(***************************************************************************)
(* What the life of a video looks like to its owner: the row that is read, *)
(* the copy that is played and the changes of status that were announced.  *)
(* The status goes forward, an outcome is replaced by an outcome only, a   *)
(* video is published with its copy, a row goes after its object, and      *)
(* nothing is announced that is not so yet.                                *)
(***************************************************************************)
CONSTANT Video

VARIABLES state,     \* the status of the row; "absent" before, "purged" after it
          copy,      \* the copy to play: "none" yet, "stored", or "erased" by a hard delete
          announced  \* the statuses announced so far

vars == <<state, copy, announced>>

Outcome == {"PUBLISHED", "FAILED"}
Row == {"DRAFT", "PROCESSING"} \cup Outcome

Init ==
  /\ state = [v \in Video |-> "absent"]
  /\ copy = [v \in Video |-> "none"]
  /\ announced = [v \in Video |-> {}]

Move(v, from, to) ==
  /\ state[v] \in from
  /\ state' = [state EXCEPT ![v] = to]

Say(v, s) == announced' = [announced EXCEPT ![v] = @ \cup {s}]

\* The upload begins, and is confirmed.
Insert(v) == Move(v, {"absent"}, "DRAFT") /\ UNCHANGED <<copy, announced>>
Confirm(v) == Move(v, {"DRAFT"}, "PROCESSING") /\ UNCHANGED <<copy, announced>>

\* The copy is made, of a video whose row may meanwhile be gone.
Store(v) ==
  /\ state[v] # "absent"
  /\ copy[v] = "none"
  /\ copy' = [copy EXCEPT ![v] = "stored"]
  /\ UNCHANGED <<state, announced>>

\* An outcome, at first or instead of another one.  A job whose confirmation was
\* rolled back gives a DRAFT one.
Publish(v) ==
  /\ copy[v] # "none"
  /\ Move(v, Row, "PUBLISHED")
  /\ UNCHANGED <<copy, announced>>

Fail(v) ==
  /\ Move(v, Row, "FAILED")
  /\ Say(v, "FAILED") \/ UNCHANGED announced
  /\ UNCHANGED copy

\* An administrator has the object removed, then the row.
Erase(v) ==
  /\ state[v] \in Row
  /\ copy' = [copy EXCEPT ![v] = "erased"]
  /\ UNCHANGED <<state, announced>>

Remove(v) ==
  /\ copy[v] = "erased"
  /\ Move(v, Row, "purged")
  /\ UNCHANGED <<copy, announced>>

\* What has happened is announced, now or late.
Announce(v, s) ==
  /\ state[v] \in Outcome \cup {"purged"} \/ (s = "PROCESSING" /\ state[v] = "PROCESSING")
  /\ s = "PUBLISHED" => copy[v] # "none"
  /\ Say(v, s)
  /\ UNCHANGED <<state, copy>>

Next ==
  \E v \in Video :
    \/ Insert(v) \/ Confirm(v) \/ Store(v) \/ Publish(v) \/ Fail(v) \/ Erase(v) \/ Remove(v)
    \/ \E s \in {"PROCESSING", "PUBLISHED"} : Announce(v, s)

Spec == Init /\ [][Next]_vars
=============================================================================
