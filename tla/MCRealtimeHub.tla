--------------------------- MODULE MCRealtimeHub ---------------------------
(* Small instances of RealtimeHub for TLC. *)
EXTENDS RealtimeHub, TLC

CONSTANTS u1, u2, c1, c2, c3

\* Connections c1 and c2 belong to u1, c3 to u2.
OwnerOf == [c \in Conn |-> IF c = c3 THEN u2 ELSE u1]

\* c1 and c2 are interchangeable.
Symmetry == Permutations(Conn \ {c3})
=============================================================================
