------------------------------ MODULE MCUnit ------------------------------
(***************************************************************************)
(* Parts of a unit that run beside each other and share no state: the mode *)
(* machine and a domain session, the flight recorder, the neighbor table,  *)
(* the bandwidth estimator with the encoder governor, and the io_uring     *)
(* transmit path.  A behaviour is one of a single part; which one is       *)
(* chosen at the start, as the product of their states would show nothing  *)
(* more.  The mode machine and the session are taken together.             *)
(***************************************************************************)
EXTENDS ModeMachine, DomainSession, FlightRecorder, NeighborTable, Backpressure, UringTx

\* Both units start to probe at the last slot.
MCHomeSlot == [u \in Neighbor |-> TableCap - 1]

VARIABLE part

parts == <<vars, sessionVars, recVars, tableVars, pressureVars, uringVars>>

UnitInit ==
    /\ part \in {"authority", "recorder", "mesh", "bitrate", "uring"}
    /\ Init /\ SessionInit /\ RecInit /\ TableInit /\ PressureInit /\ UringInit
    /\ part # "bitrate" => capacity = Max(Capacity)

Authority ==
    /\ part = "authority"
    /\ \/ Next /\ UNCHANGED sessionVars
       \/ SessionNext /\ UNCHANGED vars
    /\ UNCHANGED <<part, recVars, tableVars, pressureVars, uringVars>>

Record ==
    /\ part = "recorder" /\ RecNext
    /\ UNCHANGED <<part, vars, sessionVars, tableVars, pressureVars, uringVars>>

Discover ==
    /\ part = "mesh" /\ TableNext
    /\ UNCHANGED <<part, vars, sessionVars, recVars, pressureVars, uringVars>>

Govern ==
    /\ part = "bitrate" /\ PressureNext
    /\ UNCHANGED <<part, vars, sessionVars, recVars, tableVars, uringVars>>

Transmit ==
    /\ part = "uring" /\ UringNext
    /\ UNCHANGED <<part, vars, sessionVars, recVars, tableVars, pressureVars>>

UnitNext == Authority \/ Record \/ Discover \/ Govern \/ Transmit

\* The fairness of the parts, each for the behaviours it runs in.
UnitFair ==
    /\ WF_recVars(part = "recorder" /\ Storage)
    /\ WF_pressureVars(part = "bitrate" /\ GovernorTick)

UnitSpec == UnitInit /\ [][UnitNext]_<<part, parts>> /\ UnitFair

\* Where the governor runs, the encoder's bitrate gets to a target that stays
\* what it is and stays there: rounding in slew neither stops it short nor
\* makes it oscillate.
GovernorFollows == (part = "bitrate") => BitrateFollows
=============================================================================
