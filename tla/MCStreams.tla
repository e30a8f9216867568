----------------------------- MODULE MCStreams ------------------------------
(***************************************************************************)
(* Streams and what their readers make of them: the reliable channel, the  *)
(* MAVLink bytes, and the fleet, with the commands to a unit apart from    *)
(* its frames.  They share no state; a behaviour is one of a single part,  *)
(* chosen at the start.  Units of a fleet share nothing but the transport, *)
(* whose sends fail or not independently of each other, so that one unit   *)
(* shows what is to be seen.                                               *)
(***************************************************************************)
EXTENDS ReliableChannel, MavParser, Fleet, TLC

\* One known message, with a payload of one byte.
MCDialect == 0 :> 1

VARIABLE part

StreamsInit ==
    /\ part \in {"channel", "mavlink", "modes", "media"}
    /\ Init /\ ParserInit /\ FleetInit

ChannelPart ==
    /\ part = "channel" /\ Next
    /\ UNCHANGED <<part, parserVars, fleetVars>>

MavlinkPart ==
    /\ part = "mavlink" /\ ParserNext
    /\ UNCHANGED <<part, vars, fleetVars>>

ModesPart ==
    /\ part = "modes"
    /\ UNCHANGED <<part, vars, parserVars, views, published, disk, stored, torn>>
    /\ FleetNext

\* Whom a unit is assigned to makes no difference to its frames.
MediaPart ==
    /\ part = "media" /\ UNCHANGED <<part, vars, parserVars, commanded>>
    /\ FleetNext
    /\ \A u \in Unit : Known(u)' => units'[u].operator = Nobody

StreamsNext == ChannelPart \/ MavlinkPart \/ ModesPart \/ MediaPart

StreamsSpec == StreamsInit /\ [][StreamsNext]_<<part, vars, parserVars, fleetVars>>
=============================================================================
