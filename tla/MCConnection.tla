---------------------------- MODULE MCConnection ----------------------------
(* Instances of Connection for TLC. *)
EXTENDS Connection, TLC

\* Tasks are interchangeable (no liveness is checked with it).
TaskSymmetry == Permutations(Tasks)
=============================================================================
