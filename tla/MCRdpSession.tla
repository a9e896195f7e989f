---------------------------- MODULE MCRdpSession ----------------------------
(* Model values for TLC runs of RdpSession. *)
EXTENDS RdpSession

CONSTANTS i1, i2

MCInputs == {i1, i2}
=============================================================================
