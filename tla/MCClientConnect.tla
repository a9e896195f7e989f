---------------------------- MODULE MCClientConnect ----------------------------
(* TLC runs of ClientConnect: one static channel, two redirections or deactivations in all. *)
EXTENDS ClientConnect

MCStaticChannels == <<"drdynvc">>
===============================================================================
