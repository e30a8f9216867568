--------------------------- MODULE MCModeMachine ----------------------------
(***************************************************************************)
(* The mode machine with the safety loop as the one thread that requests   *)
(* transitions, and another that does no more than stop the unit, which is *)
(* "Callable from any thread" (machine.rs, doc of force_emergency_stop).   *)
(***************************************************************************)
EXTENDS ModeMachine

CONSTANTS loop, other

RaceNext ==
    \/ Call(loop) \/ TakeTransition
    \/ ForceEmergencyStop(other) \/ CommitStore(other) \/ CommitPush(other)

RaceSpec == Init /\ [][RaceNext]_vars
=============================================================================
