---------------------------- MODULE MCConnectTimer ----------------------------
(* TLC runs of ConnectTimer; the bound is given in the configurations. *)
EXTENDS ConnectTimer
===============================================================================
