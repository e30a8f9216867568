------------------------- MODULE MCReliableChannel -------------------------
(* Instances of ReliableChannel for TLC.                                   *)
EXTENDS ReliableChannel
=============================================================================
