----------------------------- MODULE BufferPool -----------------------------
(***************************************************************************)
(* The pre-allocated buffer pool of tpt-t-core                             *)
(* (src/crates/tpt-t-core/src/pool.rs), composed with the MpmcRing that is *)
(* its free list: the values in the ring are slot indices.  get_with pops  *)
(* an index, counts it, initialises the slot on first use and returns a    *)
(* guard; dropping the guard, in any thread, pushes the index back and     *)
(* uncounts it.  Every step of the free list is a step here.               *)
(***************************************************************************)
EXTENDS MpmcRing, FiniteSets

CONSTANT Size   \* slots of the pool

Slots == 0 .. Size - 1

\* The free list is with_capacity(size): the next power of two.
ASSUME PoolAssumption ==
    /\ Size \in Nat \ {0}
    /\ Size <= Cap
    /\ Val = Slots

VARIABLES
    st,             \* per thread: the step of get_with or release it is at
    guards,         \* per slot: live Pooled guards on it
    ready,          \* slots whose value has been written by init()
    initialized,    \* slots whose flag is set
    outstanding     \* what in_use() reports

poolVars == <<st, guards, ready, initialized, outstanding>>
vars     == <<ringVars, poolVars>>

-----------------------------------------------------------------------------
\* new(): the free list holds every index, in order.
Init ==
    /\ enq = Size % Wrap /\ deq = 0
    /\ seq = [i \in Index |-> IF i < Size THEN i + 1 ELSE i]
    /\ cell = [i \in Index |-> IF i < Size THEN i ELSE NoVal]
    /\ pc = [t \in Thread |-> "idle"]
    /\ pos = [t \in Thread |-> 0]
    /\ val = [t \in Thread |-> NoVal]
    /\ claimed = [i \in 1 .. Size |-> i - 1]
    /\ expect = [t \in Thread |-> NoVal]
    /\ st = [t \in Thread |-> "out"]
    /\ guards = [s \in Slots |-> 0]
    /\ ready = {}
    /\ initialized = {}
    /\ outstanding = 0

\* A call moves from one of its steps to the next.
Goto(t, here, next) ==
    /\ st[t] = here
    /\ st' = [st EXCEPT ![t] = next]

(***************************************************************************)
(* get_with                                                                *)
(***************************************************************************)
\* self.free.pop() begins.
GetStart(t) ==
    /\ Goto(t, "out", "popping")
    /\ PopStart(t)
    /\ UNCHANGED <<guards, ready, initialized, outstanding>>

\* The `?` on its None.
GetNone(t) ==
    /\ Goto(t, "popping", "out")
    /\ pc[t] = "idle" /\ val[t] = NoVal
    /\ UNCHANGED <<ringVars, guards, ready, initialized, outstanding>>

\* outstanding.fetch_add(1)
GetCount(t) ==
    /\ Goto(t, "popping", "check")
    /\ pc[t] = "idle" /\ val[t] # NoVal
    /\ outstanding' = outstanding + 1
    /\ UNCHANGED <<ringVars, guards, ready, initialized>>

\* The flag is set: the guard on the old contents is returned.
GetReuse(t) ==
    /\ Goto(t, "check", "out")
    /\ val[t] \in initialized
    /\ guards' = [guards EXCEPT ![val[t]] = @ + 1]
    /\ val' = [val EXCEPT ![t] = NoVal]
    /\ UNCHANGED <<posVars, cellVars, pc, pos, orderVars, ready, initialized, outstanding>>

\* The flag is not set: the slot gets the result of init().
GetInit(t) ==
    /\ Goto(t, "check", "flag")
    /\ val[t] \notin initialized
    /\ ready' = ready \cup {val[t]}
    /\ UNCHANGED <<ringVars, guards, initialized, outstanding>>

\* initialized.store(true, Release); the guard is returned.
GetFlag(t) ==
    /\ Goto(t, "flag", "out")
    /\ initialized' = initialized \cup {val[t]}
    /\ guards' = [guards EXCEPT ![val[t]] = @ + 1]
    /\ val' = [val EXCEPT ![t] = NoVal]
    /\ UNCHANGED <<posVars, cellVars, pc, pos, orderVars, ready, outstanding>>

(***************************************************************************)
(* Drop of a guard: release                                                *)
(***************************************************************************)
\* A mutated form: a guard that is still used after it released its slot.
ReleaseKeepingGuard(t, s) ==
    /\ Goto(t, "out", "pushing")
    /\ guards[s] > 0
    /\ PushStart(t, s)
    /\ UNCHANGED <<guards, ready, initialized, outstanding>>

\* self.free.push(idx) begins.
ReleaseStart(t, s) ==
    /\ Goto(t, "out", "pushing")
    /\ guards[s] > 0
    /\ guards' = [guards EXCEPT ![s] = @ - 1]
    /\ PushStart(t, s)
    /\ UNCHANGED <<ready, initialized, outstanding>>

\* The result of the push is ignored; outstanding.fetch_sub(1).
ReleaseCount(t) ==
    /\ Goto(t, "pushing", "out")
    /\ pc[t] = "idle"
    /\ outstanding' = outstanding - 1
    /\ val' = [val EXCEPT ![t] = NoVal]
    /\ UNCHANGED <<posVars, cellVars, pc, pos, orderVars, guards, ready, initialized>>

-----------------------------------------------------------------------------
Next ==
    \E t \in Thread :
       \/ GetStart(t) \/ GetNone(t) \/ GetCount(t) \/ GetReuse(t) \/ GetInit(t) \/ GetFlag(t)
       \/ \E s \in Slots : ReleaseStart(t, s)
       \/ ReleaseCount(t)
       \/ Step(t) /\ UNCHANGED poolVars

Spec == Init /\ [][Next]_vars

-----------------------------------------------------------------------------
(* Properties.                                                             *)

\* The free list keeps its types and so does the pool's own state; the count
\* of release never takes `outstanding` below zero.
TypeOK ==
    /\ RingTypeOK
    /\ st \in [Thread -> {"out", "popping", "check", "flag", "pushing"}]
    /\ guards \in [Slots -> Nat]
    /\ ready \subseteq Slots /\ initialized \subseteq Slots
    /\ outstanding \in Nat

\* Calls in progress that carry slot s between the free list and a guard: a
\* pop that claimed it, or a push that has not claimed a cell for it yet.
Carriers(s) ==
    {t \in Thread :
        \/ st[t] = "popping" /\ IF pc[t] = "popRead" THEN expect[t] = s ELSE val[t] = s
        \/ st[t] \in {"check", "flag"} /\ val[t] = s
        \/ st[t] = "pushing" /\ val[t] = s /\ pc[t] \notin {"pushWrite", "pushStore"}}

\* Entries of the free list for slot s.
Listed(s) == {i \in 1 .. Len(claimed) : claimed[i] = s}

Owners(s) == guards[s] + Cardinality(Carriers(s)) + Cardinality(Listed(s))

\* "A slot index is handed to exactly one owner at a time" (pool.rs, SAFETY of
\* Send and Sync): never two guards, or a guard and a free-list entry, on one
\* slot.
SlotExclusive == \A s \in Slots : Owners(s) <= 1

\* "Initialized at first checkout" (pool.rs, SAFETY of Deref): a guard is only
\* ever on a slot that init() has filled, and the flag never runs ahead.
GuardInitialised == \A s \in Slots : (guards[s] > 0 \/ s \in initialized) => s \in ready

Quiet == \A t \in Thread : st[t] = "out"

\* in_use() is "slots currently checked out" (pool.rs): with no call in
\* progress it is the number of guards.
InUseExact == Quiet => outstanding = Cardinality({s \in Slots : guards[s] > 0})

\* A slot of the pool has one owner, its guard reads an initialised value, and
\* in_use() counts the guards (pool.rs, SAFETY comments and docs), at every
\* interleaving of get_with and release with each other and inside the free
\* list.
PoolSound == TypeOK /\ SlotExclusive /\ GuardInitialised /\ InUseExact

\* "Dropping returns the slot to the pool" (pool.rs, doc of Pooled): with no
\* call in progress, every slot is on the free list or has a guard.
NoSlotLost == Quiet => \A s \in Slots : Owners(s) >= 1
=============================================================================
