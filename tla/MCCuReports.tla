----------------------------- MODULE MCCuReports -----------------------------
(* TLC runs of CuReports; the bound is given in the configurations. *)
EXTENDS CuReports
=============================================================================
