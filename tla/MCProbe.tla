------------------------------ MODULE MCProbe ------------------------------
(* Probe beside the clients of MCDriver. *)
EXTENDS Probe, MCDriver
=============================================================================
