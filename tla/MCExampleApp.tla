---------------------------- MODULE MCExampleApp ----------------------------
(***************************************************************************)
(* Small instances of ExampleApp for TLC.                                  *)
(***************************************************************************)
EXTENDS ExampleApp, TLC

\* The clients and the slots of the invocations are interchangeable.
Symmetry == Permutations(Clients) \cup Permutations(Tasks)
=============================================================================
