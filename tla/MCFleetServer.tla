---------------------------- MODULE MCFleetServer ----------------------------
(***************************************************************************)
(* Two clients for one place, one unit, and an enrolled peer for each role *)
(* that matters, beside one that is not enrolled.                          *)
(***************************************************************************)
EXTENDS FleetServer, TLC

CONSTANTS admin, agent, stranger

MCEnrolled == admin :> "Admin" @@ agent :> "AiAgent"
=============================================================================
