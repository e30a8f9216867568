------------------------------ MODULE CoPilot ------------------------------
(***************************************************************************)
(* The arbitration of operators, CoPilotHub in                             *)
(* src/crates/tpt-t-input/src/copilot.rs: heartbeats and releases of each  *)
(* operator against a query of the owner, every atomic load and store a    *)
(* step.  Callers read the clock before they call.                         *)
(***************************************************************************)
EXTENDS Naturals

CONSTANTS
    MaxOperators,   \* MAX_OPERATORS
    HubTimeout,     \* timeout_ns, in ticks
    MaxHubClock     \* bound on the clock

ASSUME HubAssumption == MaxOperators \in Nat \ {0} /\ HubTimeout \in Nat /\ MaxHubClock \in Nat

OpId == 0 .. MaxOperators - 1
NoOwner == MaxOperators

VARIABLES
    hubClock,   \* the clock the callers read
    lastSeen,   \* CoPilotHub.last_seen
    released,   \* CoPilotHub.released
    beating,    \* operators between the two stores of a heartbeat
    query,      \* effective_operator: what it does next, for whom, when it was called
    lively,     \* operators heard of within the timeout in every state since the query began
    mute        \* operators silent for longer or released in all of them, without a heartbeat

hubVars == <<hubClock, lastSeen, released, beating, query, lively, mute>>

\* A mutated form: a heartbeat later than the query wraps to a great age.
AgeWrapping(id, now) ==
    IF now >= lastSeen[id] THEN now - lastSeen[id] ELSE HubTimeout + MaxHubClock + 1

\* How long ago an operator was heard of (saturating_sub).
Age(id, now) == IF now > lastSeen[id] THEN now - lastSeen[id] ELSE 0

\* The second condition of live.
Young(id, now) == Age(id, now) <= HubTimeout

-----------------------------------------------------------------------------
HubInit ==
    /\ hubClock = 0
    /\ lastSeen = [id \in OpId |-> 0]
    /\ released = [id \in OpId |-> TRUE]
    /\ beating = {}
    /\ query = [step |-> "idle", id |-> 0, now |-> 0]
    /\ lively = {} /\ mute = OpId

\* For the query in progress, who was heard of less than the timeout ago, and
\* who longer ago than that or has released.  An operator whose age is the
\* timeout is neither: the doc of CoPilotHub and live disagree about it.
Younger == {id \in OpId : ~released[id] /\ query.now < lastSeen[id] + HubTimeout}
Silent == {id \in OpId : released[id] \/ query.now > lastSeen[id] + HubTimeout}

Witness ==
    /\ lively' = IF query'.step = "idle" THEN {} ELSE lively \cap Younger'
    /\ mute' = IF query'.step = "idle" THEN OpId ELSE (mute \cap Silent') \ (beating \cup beating')

\* heartbeat: the time first, then the flag.
HeartbeatSeen(id) ==
    /\ id \notin beating
    /\ lastSeen' = [lastSeen EXCEPT ![id] = hubClock]
    /\ beating' = beating \cup {id}
    /\ UNCHANGED <<hubClock, released, query>>
    /\ Witness

HeartbeatHeld(id) ==
    /\ id \in beating
    /\ released' = [released EXCEPT ![id] = FALSE]
    /\ beating' = beating \ {id}
    /\ UNCHANGED <<hubClock, lastSeen, query>>
    /\ Witness

\* release, by any thread.
Release(id) ==
    /\ released' = [released EXCEPT ![id] = TRUE]
    /\ UNCHANGED <<hubClock, lastSeen, beating, query>>
    /\ Witness

\* effective_operator and authority_for: the operators in turn.
BeginQuery ==
    /\ query.step = "idle"
    /\ query' = [step |-> "released", id |-> 0, now |-> hubClock]
    /\ UNCHANGED <<hubClock, lastSeen, released, beating>>
    /\ lively' = Younger'
    /\ mute' = Silent' \ beating

\* The next operator, or no owner.
NextId(q) == [q EXCEPT !.id = @ + 1, !.step = IF q.id + 1 = NoOwner THEN "answered" ELSE "released"]

LoadReleased ==
    /\ query.step = "released"
    /\ query' = IF released[query.id] THEN NextId(query) ELSE [query EXCEPT !.step = "age"]
    /\ UNCHANGED <<hubClock, lastSeen, released, beating>>
    /\ Witness

LoadLastSeen ==
    /\ query.step = "age"
    /\ query' = IF Young(query.id, query.now) THEN [query EXCEPT !.step = "answered"] ELSE NextId(query)
    /\ UNCHANGED <<hubClock, lastSeen, released, beating>>
    /\ Witness

EndQuery ==
    /\ query.step = "answered"
    /\ query' = [step |-> "idle", id |-> 0, now |-> 0]
    /\ UNCHANGED <<hubClock, lastSeen, released, beating>>
    /\ Witness

HubTime ==
    /\ hubClock < MaxHubClock
    /\ hubClock' = hubClock + 1
    /\ UNCHANGED <<lastSeen, released, beating, query>>
    /\ Witness

HubNext ==
    \/ \E id \in OpId : HeartbeatSeen(id) \/ HeartbeatHeld(id) \/ Release(id)
    \/ BeginQuery \/ LoadReleased \/ LoadLastSeen \/ EndQuery \/ HubTime

HubSpec == HubInit /\ [][HubNext]_hubVars

-----------------------------------------------------------------------------
\* What effective_operator answers while heartbeats and releases run: no one
\* takes control from an operator of a lower number that was heard of within
\* the timeout throughout, and an operator that was silent for longer than the
\* timeout, or that has released, and that sent no heartbeat during the query,
\* is not the owner.
LowestLiveOwns ==
    query.step = "answered" =>
        /\ \A id \in lively : query.id <= id
        /\ query.id \notin mute

\* "An operator is *live* while its last heartbeat is younger than
\* `timeout_ns`" (doc of CoPilotHub): who is named as the owner was heard of
\* less than the timeout before the query.  live compares with <=, so an
\* operator whose last heartbeat is exactly that old is named too.
OwnerIsYounger ==
    (query.step = "answered" /\ query.id # NoOwner) => Age(query.id, query.now) < HubTimeout
=============================================================================
