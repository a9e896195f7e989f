-------------------------------- MODULE MCNego --------------------------------
(* TLC runs of Nego: it has no parameters, the initial states are all configurations. *)
EXTENDS Nego
===============================================================================
