---------------------------- MODULE MCNetService ----------------------------
(* Instances of NetService for TLC.                                        *)
EXTENDS NetService
=============================================================================
