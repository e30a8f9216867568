------------------------------ MODULE SpscRing ------------------------------
(***************************************************************************)
(* The wait-free single-producer single-consumer ring of tpt-t-ring        *)
(* (src/crates/tpt-t-ring/src/spsc.rs), at the grain of its atomic loads   *)
(* and stores.  do_push and do_pop are three steps each: the check against *)
(* the other endpoint's cursor, the access to the slot, and the Release    *)
(* store of the own cursor.  An Acquire load may return any value the      *)
(* other cursor has had since this endpoint last looked at it (coherence   *)
(* is all the memory model gives), so phead and ctail remember what each   *)
(* endpoint has seen.                                                      *)
(*                                                                         *)
(* Cursors are usize counters that wrap at Wrap (2^64 in the program);     *)
(* "t & mask" is t % Cap because the capacity is a power of two.           *)
(***************************************************************************)
EXTENDS Integers, Sequences

CONSTANTS
    Cap,        \* slots in the ring, a power of two
    Wrap,       \* number of values of a cursor
    Val,        \* values pushed
    NoVal,      \* content of a slot that holds no value (MaybeUninit::uninit)
    LenCallers  \* threads that call len(): "producer", "consumer", "observer"

\* with_capacity rounds the capacity up to a power of two (at least 1), so it
\* divides the number of usize values and is smaller than it.
ASSUME CapAssumption ==
    /\ Cap \in Nat \ {0}
    /\ Wrap \in Nat
    /\ Wrap > Cap
    /\ Wrap % Cap = 0

ASSUME ValAssumption == NoVal \notin Val

ASSUME CallersAssumption == LenCallers \subseteq {"producer", "consumer", "observer"}

VARIABLES
    head, tail,         \* the two shared cursors
    slots,              \* the cells
    live,               \* FALSE once the ring has been dropped
    ppc, pval, phead,   \* producer: step, value in hand, last head it saw
    cpc, cval, ctail,   \* consumer: step, value in hand, last tail it saw
    lpc, ltail, llen    \* per len() caller: step, tail it loaded, last result

prodVars == <<ppc, pval, phead>>
consVars == <<cpc, cval, ctail>>
lenVars  == <<lpc, ltail, llen>>
vars     == <<head, tail, slots, live, prodVars, consVars, lenVars>>

-----------------------------------------------------------------------------
(* usize arithmetic.                                                       *)

Cursor == 0 .. Wrap - 1
Index  == 0 .. Cap - 1

\* a.wrapping_sub(b)
WrappingSub(a, b) == (a - b) % Wrap

\* a.wrapping_add(1)
WrappingInc(a) == (a + 1) % Wrap

\* The cell of cursor position a: slots.add(a & mask).
SlotOf(a) == a % Cap

\* What an Acquire load of a cursor may return to a thread that last saw
\* `seen` when the cursor is now `now`: anything it held in between.
Visible(seen, now) == {c \in Cursor : WrappingSub(c, seen) <= WrappingSub(now, seen)}

\* An endpoint is a sequential thread: it is not inside len() while it pushes
\* or pops.
Between(c) == c \in LenCallers => lpc[c] = "idle"

-----------------------------------------------------------------------------
Init ==
    /\ head = 0 /\ tail = 0
    /\ slots = [i \in Index |-> NoVal]
    /\ live = TRUE
    /\ ppc = "idle" /\ pval = NoVal /\ phead = 0
    /\ cpc = "idle" /\ cval = NoVal /\ ctail = 0
    /\ lpc = [c \in LenCallers |-> "idle"]
    /\ ltail = [c \in LenCallers |-> 0]
    /\ llen = [c \in LenCallers |-> 0]

(***************************************************************************)
(* do_push                                                                 *)
(***************************************************************************)
\* A mutated form: the full test is off by one.
LateFull(h) == WrappingSub(tail, h) > Cap

\* t.wrapping_sub(head.load(Acquire)) >= cap
Full(h) == WrappingSub(tail, h) >= Cap

\* The check fails: Err(value), nothing is written.
PushRefused ==
    /\ live /\ ppc = "idle" /\ Between("producer")
    /\ \E h \in Visible(phead, head) :
          /\ Full(h)
          /\ phead' = h
    /\ UNCHANGED <<head, tail, slots, live, ppc, pval, consVars, lenVars>>

\* The check succeeds: the cell at tail is the producer's.
PushClaim(v) ==
    /\ live /\ ppc = "idle" /\ Between("producer")
    /\ \E h \in Visible(phead, head) :
          /\ ~Full(h)
          /\ phead' = h
    /\ pval' = v
    /\ ppc' = "write"
    /\ UNCHANGED <<head, tail, slots, live, consVars, lenVars>>

\* (*slots.add(t & mask)).write(value)
PushWrite ==
    /\ ppc = "write"
    /\ slots' = [slots EXCEPT ![SlotOf(tail)] = pval]
    /\ ppc' = "publish"
    /\ UNCHANGED <<head, tail, live, pval, phead, consVars, lenVars>>

\* tail.store(t.wrapping_add(1), Release); Ok(())
PushPublish ==
    /\ ppc = "publish"
    /\ tail' = WrappingInc(tail)
    /\ ppc' = "idle"
    /\ UNCHANGED <<head, slots, live, pval, phead, consVars, lenVars>>

(***************************************************************************)
(* do_pop                                                                  *)
(***************************************************************************)
\* A mutated form: a reader that always leaves one value behind.
NearlyEmpty(t) == WrappingSub(t, head) <= 1

\* h == tail.load(Acquire)
Empty(t) == head = t

\* The check fails: None.
PopNone ==
    /\ live /\ cpc = "idle" /\ Between("consumer")
    /\ \E t \in Visible(ctail, tail) :
          /\ Empty(t)
          /\ ctail' = t
    /\ UNCHANGED <<head, tail, slots, live, cpc, cval, prodVars, lenVars>>

\* The check succeeds: the cell at head is the consumer's.
PopClaim ==
    /\ live /\ cpc = "idle" /\ Between("consumer")
    /\ \E t \in Visible(ctail, tail) :
          /\ ~Empty(t)
          /\ ctail' = t
    /\ cpc' = "read"
    /\ UNCHANGED <<head, tail, slots, live, cval, prodVars, lenVars>>

\* assume_init_read moves the value out; the cell is uninitialised after it.
PopRead ==
    /\ cpc = "read"
    /\ cval' = slots[SlotOf(head)]
    /\ slots' = [slots EXCEPT ![SlotOf(head)] = NoVal]
    /\ cpc' = "release"
    /\ UNCHANGED <<head, tail, live, ctail, prodVars, lenVars>>

\* head.store(h.wrapping_add(1), Release); Some(value)
PopRelease ==
    /\ cpc = "release"
    /\ head' = WrappingInc(head)
    /\ cpc' = "idle"
    /\ UNCHANGED <<tail, slots, live, cval, ctail, prodVars, lenVars>>

(***************************************************************************)
(* len(): two Acquire loads, tail first, then head.  An endpoint reads its *)
(* own cursor exactly and the other one as fresh as coherence makes it.    *)
(***************************************************************************)
LenLoadTail(c) ==
    /\ live /\ lpc[c] = "idle"
    /\ c = "producer" => ppc = "idle"
    /\ c = "consumer" => cpc = "idle"
    /\ \E t \in (IF c = "consumer" THEN Visible(ctail, tail) ELSE {tail}) :
          /\ ltail' = [ltail EXCEPT ![c] = t]
          /\ ctail' = IF c = "consumer" THEN t ELSE ctail
    /\ lpc' = [lpc EXCEPT ![c] = "head"]
    /\ UNCHANGED <<head, tail, slots, live, prodVars, cpc, cval, llen>>

LenLoadHead(c) ==
    /\ lpc[c] = "head"
    /\ \E h \in (IF c = "producer" THEN Visible(phead, head) ELSE {head}) :
          /\ llen' = [llen EXCEPT ![c] = WrappingSub(ltail[c], h)]
          /\ phead' = IF c = "producer" THEN h ELSE phead
    /\ lpc' = [lpc EXCEPT ![c] = "idle"]
    /\ UNCHANGED <<head, tail, slots, live, ppc, pval, consVars, ltail>>

\* Drop: `&mut self`, so no other call is in progress; pops until a pop finds
\* the ring empty.
DropRing ==
    /\ live
    /\ ppc = "idle" /\ cpc = "idle"
    /\ \A c \in LenCallers : lpc[c] = "idle"
    /\ live' = FALSE
    /\ head' = tail
    /\ slots' = [i \in Index |-> NoVal]
    /\ ctail' = tail
    /\ UNCHANGED <<tail, prodVars, cpc, cval, lenVars>>

-----------------------------------------------------------------------------
Producer == PushRefused \/ (\E v \in Val : PushClaim(v)) \/ PushWrite \/ PushPublish

Consumer == PopNone \/ PopClaim \/ PopRead \/ PopRelease

Observe == \E c \in LenCallers : LenLoadTail(c) \/ LenLoadHead(c)

Next == Producer \/ Consumer \/ Observe \/ DropRing

Spec == Init /\ [][Next]_vars

\* Both endpoints run on threads of their own that never stop between two
\* steps of a call, and the consumer keeps polling: a published tail is seen
\* after finitely many polls.
Fairness ==
    /\ WF_vars(PushWrite) /\ WF_vars(PushPublish)
    /\ SF_vars(PopClaim) /\ WF_vars(PopRead) /\ WF_vars(PopRelease)
    /\ \A c \in LenCallers : WF_vars(LenLoadHead(c))

FairSpec == Spec /\ Fairness

-----------------------------------------------------------------------------
(* Properties.                                                             *)

\* Cursors stay usize values, cells and the values in hand are what do_push
\* and do_pop put there.
TypeOK ==
    /\ head \in Cursor /\ tail \in Cursor
    /\ slots \in [Index -> Val \cup {NoVal}]
    /\ live \in BOOLEAN
    /\ ppc \in {"idle", "write", "publish"}
    /\ pval \in Val \cup {NoVal} /\ phead \in Cursor
    /\ cpc \in {"idle", "read", "release"}
    /\ cval \in Val \cup {NoVal} /\ ctail \in Cursor
    /\ lpc \in [LenCallers -> {"idle", "head"}]
    /\ ltail \in [LenCallers -> Cursor]
    /\ llen \in [LenCallers -> Cursor]

\* The SAFETY comments of do_push and do_pop: the producer never writes a cell
\* that the consumer has not fully consumed, the consumer never reads one that
\* is not fully published.  A write and a read of one cell are never both
\* about to happen, and what a write replaces is an empty cell.
NoSlotRace ==
    /\ ~(ppc = "write" /\ cpc = "read" /\ SlotOf(tail) = SlotOf(head))
    /\ ppc = "write" => slots[SlotOf(tail)] = NoVal
    /\ cpc = "read" => slots[SlotOf(head)] # NoVal

\* len() is "racy-but-bounded while both threads operate concurrently"
\* (spsc.rs, doc of len): no caller ever sees more than the capacity.
LenBounded == \A c \in LenCallers : llen[c] <= Cap

\* The number of values between the cursors, and the first of them that the
\* consumer has not moved out of its cell yet.
Pending == WrappingSub(tail, head)
Taken   == IF cpc = "release" THEN 1 ELSE 0

\* The queue the ring implements: a push takes effect at the store of tail, a
\* pop when its value is moved out of the cell.
Queue == [i \in 1 .. Pending - Taken |-> slots[SlotOf((head + Taken + i - 1) % Wrap)]]

Fifo == INSTANCE BoundedFifo WITH queue <- Queue, out <- cval, open <- live

\* The ring is a bounded first-in first-out queue: every value pushed is
\* popped once, in order, across the wrap-around of the cursors ("correctness
\* holds across the full usize range", spsc.rs module doc), or discarded by
\* Drop.
IsFifo == Fifo!Spec

\* A value that reached the ring does not stay at its front: the consumer
\* gets it, whatever the interleaving with the producer, unless the ring is
\* dropped.
FrontConsumed ==
    \A h \in Cursor : (head = h /\ head # tail) ~> (head # h \/ ~live)
=============================================================================
