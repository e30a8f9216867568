---------------------------- MODULE CommandRoute ----------------------------
(***************************************************************************)
(* The way of a command from a device or a planner to the safety loop:     *)
(* the input stages (src/crates/tpt-t-input/src/pipeline.rs), the message  *)
(* bus (src/crates/tpt-t-core/src/bus.rs) and the routing stage that joins *)
(* them (src/crates/tpt-t-integration/src/pipeline.rs).                    *)
(*                                                                         *)
(* The input thread ticks the stages, the router thread drains their ring  *)
(* and publishes on the bus, the safety thread takes from its own ring.    *)
(* Each ring has one producer and one consumer, so a push or a pop is one  *)
(* step.  A command is its number and its origin.  Besides publish, a      *)
(* caller may fan a message out with the loop over try_deliver that the    *)
(* bus documents; here that is an alarm, numbered from the other end.      *)
(***************************************************************************)
EXTENDS Integers, Sequences, FiniteSets

CONSTANTS
    RingCap,        \* capacity of every ring
    MaxCommands,    \* bound on the reports and planner commands
    MaxAlarms       \* bound on the messages fanned out with try_deliver

ASSUME RouteAssumption ==
    RingCap \in Nat \ {0} /\ MaxCommands \in Nat /\ MaxAlarms \in Nat

VARIABLES
    polled,     \* commands the stages have produced
    input,      \* ring from the stages to the router
    moving,     \* router: commands drained from a subscriber, not yet passed on
    bus,        \* subscriber rings
    safetyIn,   \* ring of the safety loop
    taken,      \* commands the safety loop has taken
    logged,     \* messages the logger has drained
    alarms,     \* alarms begun
    waiting,    \* subscribers the alarm has not reached
    lost        \* commands dropped at a full ring, by ring

routeVars == <<polled, input, moving, bus, safetyIn, taken, logged, alarms, waiting, lost>>

Subscriber == {"safety", "logger"}

\* An alarm is told from a command by its number.
AlarmNo(n) == MaxCommands + n

-----------------------------------------------------------------------------
\* MessageBus::new and two subscribe; PipelineHarness::build_with.
RouteInit ==
    /\ polled = 0 /\ alarms = 0
    /\ input = << >> /\ moving = << >> /\ safetyIn = << >>
    /\ taken = << >> /\ logged = << >>
    /\ bus = [s \in Subscriber |-> << >>]
    /\ waiting = {}
    /\ lost = [r \in {"input", "safetyIn"} \cup Subscriber |-> {}]

HasRoom(ring) == Len(ring) < RingCap

\* InputStage::tick and CommandStage::tick: a fresh report, mapped and stamped,
\* or the planner's command; a full ring loses it.
Ingest ==
    /\ polled < MaxCommands
    /\ polled' = polled + 1
    /\ IF HasRoom(input)
       THEN input' = Append(input, polled') /\ UNCHANGED lost
       ELSE lost' = [lost EXCEPT !["input"] = @ \cup {polled'}] /\ UNCHANGED input
    /\ UNCHANGED <<moving, bus, safetyIn, taken, logged, alarms, waiting>>

\* A mutated form: publish stops at the first subscriber that is full.
PublishedTogether(m, s) == \A t \in Subscriber : HasRoom(bus[t])

\* The ring of `s` takes the message.
Accepts(m, s) == HasRoom(bus[s])

\* route: a command from the ingest ring, published to every subscriber; each
\* accepts or drops it for itself.
Publish ==
    /\ input # << >> /\ moving = << >>
    /\ LET m == Head(input)
       IN  /\ bus' = [s \in Subscriber |-> IF Accepts(m, s) THEN Append(bus[s], m) ELSE bus[s]]
           /\ lost' = [r \in DOMAIN lost |->
                  IF r \in Subscriber /\ ~HasRoom(bus[r]) THEN lost[r] \cup {m} ELSE lost[r]]
    /\ input' = Tail(input)
    /\ UNCHANGED <<polled, moving, safetyIn, taken, logged, alarms, waiting>>

\* An alarm begins: every subscriber is to get it.
BeginAlarm ==
    /\ waiting = {} /\ alarms < MaxAlarms
    /\ alarms' = alarms + 1
    /\ waiting' = Subscriber
    /\ UNCHANGED <<polled, input, moving, bus, safetyIn, taken, logged, lost>>

\* The subscribers still to be served once `s` has accepted.
Rest(s) == waiting \ {s}

\* try_deliver, in the loop that goes on until every subscriber has accepted.
TryDeliver(s) ==
    /\ s \in waiting
    /\ HasRoom(bus[s])
    /\ bus' = [bus EXCEPT ![s] = Append(@, AlarmNo(alarms))]
    /\ waiting' = Rest(s)
    /\ UNCHANGED <<polled, input, moving, safetyIn, taken, logged, alarms, lost>>

\* route: poll drains the safety subscriber into the scratch vector...
PollSafety ==
    /\ moving = << >> /\ bus["safety"] # << >>
    /\ moving' = bus["safety"]
    /\ bus' = [bus EXCEPT !["safety"] = << >>]
    /\ UNCHANGED <<polled, input, safetyIn, taken, logged, alarms, waiting, lost>>

\* ...which is passed on one by one; a full ring loses the command.
PassOn ==
    /\ moving # << >>
    /\ moving' = Tail(moving)
    /\ IF HasRoom(safetyIn)
       THEN safetyIn' = Append(safetyIn, Head(moving)) /\ UNCHANGED lost
       ELSE lost' = [lost EXCEPT !["safetyIn"] = @ \cup {Head(moving)}] /\ UNCHANGED safetyIn
    /\ UNCHANGED <<polled, input, bus, taken, logged, alarms, waiting>>

\* route: the logger's copy is drained and counted.
PollLogger ==
    /\ bus["logger"] # << >>
    /\ logged' = logged \o bus["logger"]
    /\ bus' = [bus EXCEPT !["logger"] = << >>]
    /\ UNCHANGED <<polled, input, moving, safetyIn, taken, alarms, waiting, lost>>

\* The safety loop pops a command.
Take ==
    /\ safetyIn # << >>
    /\ taken' = Append(taken, Head(safetyIn))
    /\ safetyIn' = Tail(safetyIn)
    /\ UNCHANGED <<polled, input, moving, bus, logged, alarms, waiting, lost>>

\* The stages of a pass: the harness runs them in this order on one thread; here
\* they interleave freely, as they do with a thread for each.
Router == Publish \/ PollSafety \/ PassOn \/ PollLogger

RouteNext ==
    \/ Ingest \/ Router \/ Take \/ BeginAlarm
    \/ \E s \in Subscriber : TryDeliver(s)

RouteSpec == RouteInit /\ [][RouteNext]_routeVars

-----------------------------------------------------------------------------
(***************************************************************************)
(* Properties                                                              *)
(***************************************************************************)
\* Everything a subscriber got or will get, oldest first.
Course(s) ==
    IF s = "safety" THEN taken \o safetyIn \o moving \o bus[s] ELSE logged \o bus[s]

Elements(seq) == {seq[i] : i \in DOMAIN seq}

\* What was dropped at a full ring on the way of a subscriber.
Gone(s) ==
    lost["input"] \cup lost[s] \cup (IF s = "safety" THEN lost["safetyIn"] ELSE {})

\* Commands reach each subscriber in the order they were produced and at most
\* once; one that is missing on a subscriber's way was dropped at a full ring
\* of that way: a slow logger costs the safety loop nothing.
CommandsInOrder ==
    \A s \in Subscriber :
        LET way == Course(s)
            commands == {i \in DOMAIN way : way[i] <= MaxCommands}
        IN  /\ \A i, j \in commands : i < j => way[i] < way[j]
            /\ {way[i] : i \in commands} = (1 .. polled) \ (Gone(s) \cup Elements(input))

\* The documented loop over try_deliver is exactly-once: an alarm is on the way
\* of every subscriber it no longer waits for, once, unless the ring in front
\* of the safety loop dropped it.
AlarmOnce ==
    \A s \in Subscriber, n \in 1 .. alarms :
        LET copies == {i \in DOMAIN Course(s) : Course(s)[i] = AlarmNo(n)}
            got    == n < alarms \/ s \notin waiting
        IN  AlarmNo(n) \notin Gone(s) =>
                Cardinality(copies) = IF got THEN 1 ELSE 0

\* The bus of the integration pipeline (bus.rs, docs of publish and
\* try_deliver) with rings that fill up at every stage: best-effort commands
\* keep their order on each way, and alarms are delivered exactly once.
RoutedInOrder == CommandsInOrder /\ AlarmOnce
=============================================================================
