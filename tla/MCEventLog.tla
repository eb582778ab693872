----------------------------- MODULE MCEventLog ------------------------------
(* Small instances of EventLog for TLC.                                     *)
EXTENDS EventLog, TLC

Symmetry == Permutations(Handles)
=============================================================================
