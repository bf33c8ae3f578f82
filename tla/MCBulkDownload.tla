-------------------------- MODULE MCBulkDownload --------------------------
(* Small instances of BulkDownload for TLC. *)
EXTENDS BulkDownload, TLC

\* Jobs and calls are interchangeable.
Symmetry == Permutations(Job) \cup Permutations(Call)
=============================================================================
