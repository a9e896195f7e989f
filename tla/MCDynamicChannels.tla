------------------------- MODULE MCDynamicChannels -------------------------
(* Queues of one slot, so that they double and wrap. The channel ids are     *)
(* interchangeable.                                                          *)
EXTENDS DynamicChannels, TLC

ChannelSymmetry == Permutations(ChannelIds)
=============================================================================
