---------------------------- MODULE MCEmulator -----------------------------
(***************************************************************************)
(* Small instances of Emulator for TLC.                                    *)
(***************************************************************************)
EXTENDS Emulator

MCErrors ==
    {[shape |-> "rejected", status |-> 200], [shape |-> "rejected", status |-> 503],
     [shape |-> "http", status |-> 302], [shape |-> "http", status |-> 403],
     [shape |-> "ws", status |-> 200], [shape |-> "other", status |-> 404]}
=============================================================================
