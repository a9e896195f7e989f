---------------------------- MODULE MCSessionInput ----------------------------
(* TLC runs of SessionInput; the bounds are given in the configurations. *)
EXTENDS SessionInput
===============================================================================
