---------------------------- MODULE DomainSession ----------------------------
(***************************************************************************)
(* The handover driver between tpt-teleop and a domain adapter             *)
(* (src/crates/tpt-t-domain-bridge/src/session.rs, lifecycle.rs, dti.rs).  *)
(* The session keeps the handover state and the operator.  The adapter is  *)
(* the code of another project, known by the hooks the session calls on    *)
(* it: it may refuse any of them but the emergency stop, and so may the    *)
(* link that carries a request for help.  A call that is out of order is   *)
(* an error and changes nothing: no step here.                             *)
(***************************************************************************)
EXTENDS Modes

CONSTANTS
    Operator,   \* operator ids
    None        \* not an operator

ASSUME SessionAssumption == None \notin Operator

HandoverState ==
    {"Autonomous", "RequestingTeleop", "TeleopActive", "ReturningToAutonomy", "EmergencyStop"}

VARIABLES
    hstate,     \* DomainSession.state
    operator,   \* DomainSession.operator
    holder,     \* adapter: the operator of the last on_teleop_engage it accepted,
                \* None once it accepted on_teleop_disengage
    moving      \* adapter: it carries out an operator's command

sessionVars == <<hstate, operator, holder, moving>>

-----------------------------------------------------------------------------
\* HandoverState::can_transition_to
CanTransition(f, t) ==
    \/ t = "EmergencyStop"
    \/ <<f, t>> \in
          {<<"Autonomous", "RequestingTeleop">>, <<"RequestingTeleop", "Autonomous">>,
           <<"RequestingTeleop", "TeleopActive">>, <<"TeleopActive", "ReturningToAutonomy">>,
           <<"ReturningToAutonomy", "TeleopActive">>, <<"ReturningToAutonomy", "Autonomous">>,
           <<"EmergencyStop", "ReturningToAutonomy">>}

\* HandoverState::to_mode, what mode() reports.
ToMode(s) ==
    CASE s \in {"Autonomous", "RequestingTeleop"} -> "Auto"
      [] s = "ReturningToAutonomy" -> "Assist"
      [] s = "TeleopActive" -> "FullTeleop"
      [] s = "EmergencyStop" -> "EmergencyStop"

\* check(from, to): the call is in order.
Check(froms, t) == hstate \in froms /\ CanTransition(hstate, t)

\* new(adapter)
SessionInit ==
    /\ hstate = "Autonomous" /\ operator = None
    /\ holder = None /\ moving = FALSE

\* request_assistance: the link is called first; its error keeps the state.
RequestAssistance ==
    /\ Check({"Autonomous"}, "RequestingTeleop")
    /\ hstate' \in {"RequestingTeleop", hstate}
    /\ UNCHANGED <<operator, holder, moving>>

CancelRequest ==
    /\ Check({"RequestingTeleop"}, "Autonomous")
    /\ hstate' = "Autonomous"
    /\ UNCHANGED <<operator, holder, moving>>

\* engage: on_teleop_engage, and then the session's own state.  The second
\* disjunct is the adapter's refusal.
Engage(op) ==
    /\ Check({"RequestingTeleop", "ReturningToAutonomy"}, "TeleopActive")
    /\ \/ holder' = op /\ hstate' = "TeleopActive" /\ operator' = op
       \/ UNCHANGED <<holder, hstate, operator>>
    /\ UNCHANGED moving

\* A mutated form: control is released although the adapter refused.
DisengageAnyway ==
    /\ Check({"TeleopActive"}, "ReturningToAutonomy")
    /\ \/ holder' = None /\ moving' = FALSE
       \/ UNCHANGED <<holder, moving>>
    /\ hstate' = "ReturningToAutonomy" /\ operator' = None

\* disengage: on_teleop_disengage (the adapter ramps down), then the state.
Disengage ==
    /\ Check({"TeleopActive"}, "ReturningToAutonomy")
    /\ \/ /\ holder' = None /\ moving' = FALSE
          /\ hstate' = "ReturningToAutonomy" /\ operator' = None
       \/ UNCHANGED sessionVars

CompleteHandover ==
    /\ Check({"ReturningToAutonomy"}, "Autonomous")
    /\ hstate' = "Autonomous"
    /\ UNCHANGED <<operator, holder, moving>>

\* emergency_stop: on_emergency_stop is called once per stop; the adapter is not
\* told that the operator let go.  That the hook cuts the actuators is an
\* assumption on the adapter: "the default does nothing. Override it to cut
\* actuators immediately" (dti.rs, doc of the hook).
EmergencyStop ==
    /\ hstate # "EmergencyStop"
    /\ moving' = FALSE
    /\ hstate' = "EmergencyStop" /\ operator' = None
    /\ UNCHANGED holder

\* command: a stop in the command stream is routed to emergency_stop, another
\* command reaches the adapter, which may refuse it.  Outside TELEOP_ACTIVE
\* both are refused with NotEngaged.
Command(m) ==
    /\ hstate = "TeleopActive"
    /\ \/ m = "EmergencyStop" /\ EmergencyStop
       \/ /\ m # "EmergencyStop"
          /\ moving' \in {TRUE, moving}
          /\ UNCHANGED <<hstate, operator, holder>>

AcknowledgeEmergencyStop ==
    /\ Check({"EmergencyStop"}, "ReturningToAutonomy")
    /\ hstate' = "ReturningToAutonomy"
    /\ UNCHANGED <<operator, holder, moving>>

SessionNext ==
    \/ RequestAssistance \/ CancelRequest \/ Disengage \/ CompleteHandover
    \/ EmergencyStop \/ AcknowledgeEmergencyStop
    \/ \E op \in Operator : Engage(op)
    \/ \E m \in Mode : Command(m)

SessionSpec == SessionInit /\ [][SessionNext]_sessionVars

-----------------------------------------------------------------------------
(* Properties.                                                             *)

\* Types of the session and of what is known of the adapter.
SessionTypeOK ==
    /\ hstate \in HandoverState
    /\ operator \in Operator \cup {None} /\ holder \in Operator \cup {None}
    /\ moving \in BOOLEAN

\* "An adapter can assume it is only engaged while a human holds the unit"
\* (dti.rs, doc of DomainTeleopInterface), of what moves: the unit carries out
\* a command only while the session is active, for the operator the session
\* names, who is the one the adapter was engaged for.  No order of refused
\* hooks, re-engagements and stops leaves it moving for nobody, as long as its
\* own hook for the stop does stop it (see EmergencyStop).
MotionHeld ==
    /\ (hstate = "TeleopActive") = (operator # None)
    /\ operator # None => holder = operator
    /\ moving => operator # None

\* The same sentence read literally: with the robot back on its own autonomy,
\* no operator holds the adapter.  It fails: a stop releases the session's
\* operator and never calls on_teleop_disengage.
ReleaseReported == hstate = "Autonomous" => holder = None
=============================================================================
