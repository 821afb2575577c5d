-------------------------- MODULE MCControlLoop --------------------------
(* ControlLoop with a few handles. *)
EXTENDS ControlLoop
=============================================================================
