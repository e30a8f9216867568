----------------------------- MODULE ModeMachine -----------------------------
(***************************************************************************)
(* The central mode state machine of tpt-t-core                            *)
(* (src/crates/tpt-t-core/src/machine.rs and mode.rs): an atomic holding   *)
(* the control-authority mode, a table of legal transitions, and a ring of *)
(* transition records for the HUD and the flight recorder.                 *)
(*                                                                         *)
(* A call is the load of the atomic with the check of the table, the store *)
(* of the new mode, and the push of the record: three steps that other     *)
(* threads may come between.  The record ring is an SpscRing, a queue of   *)
(* EventCap records when one thread pushes (SpscRingProofs,                *)
(* ImplementsFifo).                                                        *)
(***************************************************************************)
EXTENDS Modes, Naturals, Sequences

CONSTANTS
    Mutators,   \* threads that call try_transition and force_emergency_stop
    EventCap,   \* capacity of the record ring (DEFAULT_EVENT_RING in the program)
    MaxCommits  \* bound on the number of committed transitions

ASSUME ModeAssumption == EventCap \in Nat \ {0} /\ MaxCommits \in Nat

VARIABLES
    mode,       \* current: AtomicU8
    pc,         \* per mutator: "idle", "store", "push"
    from, to,   \* per mutator: the mode loaded, the mode requested
    events,     \* the record ring
    seen,       \* what the consumer has drained with take_transitions
    dropped,    \* records refused by a full ring (not counted by the program)
    commits     \* stores made so far

vars == <<mode, pc, from, to, events, seen, dropped, commits>>

-----------------------------------------------------------------------------
Init ==
    /\ mode = "Auto"
    /\ pc = [t \in Mutators |-> "idle"]
    /\ from = [t \in Mutators |-> "Auto"]
    /\ to = [t \in Mutators |-> "Auto"]
    /\ events = << >>
    /\ seen = << >>
    /\ dropped = 0
    /\ commits = 0

\* The load of `current` that starts a call of t which commits to m.
Begin(t, m) ==
    /\ pc[t] = "idle"
    /\ commits < MaxCommits
    /\ pc' = [pc EXCEPT ![t] = "store"]
    /\ from' = [from EXCEPT ![t] = mode]
    /\ to' = [to EXCEPT ![t] = m]
    /\ UNCHANGED <<mode, events, seen, dropped, commits>>

\* try_transition(m): refused with Disallowed, nothing changes, unless the
\* table allows the edge.
TryTransition(t, m) ==
    /\ Allows(mode, m)
    /\ Begin(t, m)

\* force_emergency_stop(): returns at once when already stopped.
ForceEmergencyStop(t) ==
    /\ mode # "EmergencyStop"
    /\ Begin(t, "EmergencyStop")

\* commit: current.store(to, Release).
CommitStore(t) ==
    /\ pc[t] = "store"
    /\ mode' = to[t]
    /\ commits' = commits + 1
    /\ pc' = [pc EXCEPT ![t] = "push"]
    /\ UNCHANGED <<from, to, events, seen, dropped>>

\* A mutated form: a full ring makes room by discarding its oldest record.
CommitPushOverwriting(t) ==
    /\ pc[t] = "push"
    /\ pc' = [pc EXCEPT ![t] = "idle"]
    /\ events' = Append(IF Len(events) < EventCap THEN events ELSE Tail(events),
                        [from |-> from[t], to |-> to[t]])
    /\ UNCHANGED <<mode, from, to, seen, dropped, commits>>

\* commit: events.push(Transition), the record dropped when the ring is full.
CommitPush(t) ==
    /\ pc[t] = "push"
    /\ pc' = [pc EXCEPT ![t] = "idle"]
    /\ \/ /\ Len(events) < EventCap
          /\ events' = Append(events, [from |-> from[t], to |-> to[t]])
          /\ dropped' = dropped
       \/ /\ Len(events) >= EventCap
          /\ events' = events
          /\ dropped' = dropped + 1
    /\ UNCHANGED <<mode, from, to, seen, commits>>

\* take_transitions: one pop of its drain loop.
TakeTransition ==
    /\ events # << >>
    /\ seen' = Append(seen, Head(events))
    /\ events' = Tail(events)
    /\ UNCHANGED <<mode, pc, from, to, dropped, commits>>

-----------------------------------------------------------------------------
Call(t) ==
    \/ \E m \in Mode : TryTransition(t, m)
    \/ ForceEmergencyStop(t)
    \/ CommitStore(t)
    \/ CommitPush(t)

Next == (\E t \in Mutators : Call(t)) \/ TakeTransition

Spec == Init /\ [][Next]_vars

-----------------------------------------------------------------------------
(* Properties.                                                             *)

\* One thread at most calls the mutating methods, as in the program, where
\* the safety loop is the only caller.
SingleMutator == \A t, u \in Mutators : t = u

\* The mode, the calls in progress and the records keep their types (the
\* fallback of current() for unknown discriminants is never taken).
TypeOK ==
    /\ mode \in Mode
    /\ pc \in [Mutators -> {"idle", "store", "push"}]
    /\ from \in [Mutators -> Mode] /\ to \in [Mutators -> Mode]
    /\ events \in Seq(Transition) /\ Len(events) <= EventCap
    /\ seen \in Seq(Transition)
    /\ dropped \in Nat /\ commits \in Nat

\* "The default table forbids direct Auto <-> FullTeleop jumps: both directions
\* must stage through Assist" and "latched hard stop; exit requires explicit
\* operator acknowledgment into Assist" (mode.rs, module doc), of the modes
\* that really follow each other in the atomic, whichever threads call: the
\* stop is "Callable from any thread" (machine.rs, doc of
\* force_emergency_stop).
StagedHandover ==
    [][/\ {mode, mode'} # {"Auto", "FullTeleop"}
       /\ mode = "EmergencyStop" => mode' \in {"EmergencyStop", "Assist"}]_mode

\* The records of the transitions, drained ones first.
Log == seen \o events

\* The record stream tells the story of the atomic: as long as no record was
\* dropped, the records drained and pending form an unbroken chain from Auto
\* that ends, between calls, in the current mode; and every commit is either
\* recorded or was dropped by a full ring.
LogReplaysMode ==
    (\A t \in Mutators : pc[t] = "idle") =>
       /\ Len(Log) + dropped = commits
       /\ dropped = 0 =>
             /\ \A i \in 1 .. Len(Log) :
                   Log[i].from = IF i = 1 THEN "Auto" ELSE Log[i - 1].to
             /\ mode = IF Log = << >> THEN "Auto" ELSE Log[Len(Log)].to
=============================================================================
