------------------------------ MODULE MpmcRing ------------------------------
(***************************************************************************)
(* The bounded lock-free queue of tpt-t-core                               *)
(* (src/crates/tpt-t-core/src/mpmc.rs) that any number of threads push to  *)
(* and pop from.  Each cell carries a sequence number; a call loads a      *)
(* position, compares the cell's sequence number with it, claims the cell  *)
(* by a compare-and-swap of the position, accesses the value, and stores   *)
(* the next sequence number.  Each of these is a step other threads may    *)
(* come between, and a thread may stay between two of them for long.       *)
(*                                                                         *)
(* Positions and sequence numbers are usize counters that wrap at Wrap.    *)
(* They are compared by the sign of their difference, so a thread may not  *)
(* sleep through half their range: MaxLag bounds how far a position moves  *)
(* on while a thread holds an old value of it (2^63 in the program).       *)
(***************************************************************************)
EXTENDS Integers, Sequences

CONSTANTS
    Thread,     \* threads that call push and pop
    Cap,        \* number of cells, a power of two
    Wrap,       \* number of values of a position
    MaxLag,     \* how far a position may move on under a waiting thread
    Val,        \* values queued
    NoVal       \* no value

\* with_capacity rounds up to a power of two, "min 1".
ASSUME RingAssumption ==
    /\ Cap \in Nat \ {0}
    /\ Wrap \in Nat /\ Wrap % (2 * Cap) = 0
    /\ MaxLag \in Nat \ {0} /\ MaxLag + Cap <= Wrap \div 2
    /\ NoVal \notin Val

VARIABLES
    enq, deq,   \* enqueue_pos, dequeue_pos
    seq, cell,  \* sequence number and value of each cell
    pc,         \* per thread: the step its call is at
    pos,        \* per thread: the position it works on
    val,        \* per thread: the value it brought or got
    claimed,    \* values whose push has claimed a cell, no pop yet, in order
    expect      \* per thread: the value its pop must return

posVars   == <<enq, deq>>
cellVars  == <<seq, cell>>
orderVars == <<claimed, expect>>
ringVars  == <<posVars, cellVars, pc, pos, val, orderVars>>

-----------------------------------------------------------------------------
Index == 0 .. Cap - 1
Position == 0 .. Wrap - 1

CellOf(p) == p % Cap

\* p.wrapping_add(1)
Inc(p) == (p + 1) % Wrap

\* a.wrapping_sub(b)
Ahead(a, b) == (a - b) % Wrap

\* a.wrapping_sub(b) as isize
Diff(a, b) == IF Ahead(a, b) < Wrap \div 2 THEN Ahead(a, b) ELSE Ahead(a, b) - Wrap

\* Steps of push and pop that work on a position they have not claimed.
Pushing == {"pushSeq", "pushCas"}
Popping == {"popSeq", "popCas"}

\* Nobody else is left too far behind when a position moves past p.
KeepsUp(p, steps) ==
    \A u \in Thread : pc[u] \in steps => Ahead(Inc(p), pos[u]) <= MaxLag

RingInit ==
    /\ enq = 0 /\ deq = 0
    /\ seq = [i \in Index |-> i]
    /\ cell = [i \in Index |-> NoVal]
    /\ pc = [t \in Thread |-> "idle"]
    /\ pos = [t \in Thread |-> 0]
    /\ val = [t \in Thread |-> NoVal]
    /\ claimed = << >>
    /\ expect = [t \in Thread |-> NoVal]

(***************************************************************************)
(* push                                                                    *)
(***************************************************************************)
\* The load of enqueue_pos.
PushStart(t, v) ==
    /\ pc[t] = "idle"
    /\ pc' = [pc EXCEPT ![t] = "pushSeq"]
    /\ pos' = [pos EXCEPT ![t] = enq]
    /\ val' = [val EXCEPT ![t] = v]
    /\ UNCHANGED <<posVars, cellVars, orderVars>>

\* seq.load(Acquire).wrapping_sub(pos) as isize
PushDiff(t) == Diff(seq[CellOf(pos[t])], pos[t])

\* diff == 0: the cell is free, go for the position.
PushSeqFree(t) ==
    /\ pc[t] = "pushSeq" /\ PushDiff(t) = 0
    /\ pc' = [pc EXCEPT ![t] = "pushCas"]
    /\ UNCHANGED <<posVars, cellVars, pos, val, orderVars>>

\* diff < 0: Err(value), the value goes back to the caller.
PushSeqFull(t) ==
    /\ pc[t] = "pushSeq" /\ PushDiff(t) < 0
    /\ pc' = [pc EXCEPT ![t] = "idle"]
    /\ UNCHANGED <<posVars, cellVars, pos, val, orderVars>>

\* diff > 0: others moved on, load the position again.
PushSeqStale(t) ==
    /\ pc[t] = "pushSeq" /\ PushDiff(t) > 0
    /\ pos' = [pos EXCEPT ![t] = enq]
    /\ UNCHANGED <<posVars, cellVars, pc, val, orderVars>>

\* compare_exchange_weak succeeds: the cell is this thread's.
PushCasOk(t) ==
    /\ pc[t] = "pushCas" /\ enq = pos[t]
    /\ KeepsUp(enq, Pushing)
    /\ enq' = Inc(pos[t])
    /\ pc' = [pc EXCEPT ![t] = "pushWrite"]
    /\ claimed' = Append(claimed, val[t])
    /\ UNCHANGED <<deq, cellVars, pos, val, expect>>

\* It fails, because the position moved or spuriously: retry on the latest.
PushCasFail(t) ==
    /\ pc[t] = "pushCas"
    /\ pc' = [pc EXCEPT ![t] = "pushSeq"]
    /\ pos' = [pos EXCEPT ![t] = enq]
    /\ UNCHANGED <<posVars, cellVars, val, orderVars>>

\* The value is written into the cell.
PushWrite(t) ==
    /\ pc[t] = "pushWrite"
    /\ cell' = [cell EXCEPT ![CellOf(pos[t])] = val[t]]
    /\ pc' = [pc EXCEPT ![t] = "pushStore"]
    /\ UNCHANGED <<posVars, seq, pos, val, orderVars>>

\* seq.store(pos + 1, Release); Ok(())
PushStore(t) ==
    /\ pc[t] = "pushStore"
    /\ seq' = [seq EXCEPT ![CellOf(pos[t])] = Inc(pos[t])]
    /\ pc' = [pc EXCEPT ![t] = "idle"]
    /\ val' = [val EXCEPT ![t] = NoVal]
    /\ UNCHANGED <<posVars, cell, pos, orderVars>>

(***************************************************************************)
(* pop                                                                     *)
(***************************************************************************)
\* The load of dequeue_pos.
PopStart(t) ==
    /\ pc[t] = "idle"
    /\ pc' = [pc EXCEPT ![t] = "popSeq"]
    /\ pos' = [pos EXCEPT ![t] = deq]
    /\ val' = [val EXCEPT ![t] = NoVal]
    /\ UNCHANGED <<posVars, cellVars, orderVars>>

\* A mutated form: a claimed cell is taken for a published one.
PopDiffClaimed(t) == Diff(seq[CellOf(pos[t])], pos[t])

\* seq.load(Acquire).wrapping_sub(pos + 1) as isize
PopDiff(t) == Diff(seq[CellOf(pos[t])], Inc(pos[t]))

\* diff == 0: the cell is published, go for the position.
PopSeqReady(t) ==
    /\ pc[t] = "popSeq" /\ PopDiff(t) = 0
    /\ pc' = [pc EXCEPT ![t] = "popCas"]
    /\ UNCHANGED <<posVars, cellVars, pos, val, orderVars>>

\* diff < 0: None.
PopSeqEmpty(t) ==
    /\ pc[t] = "popSeq" /\ PopDiff(t) < 0
    /\ pc' = [pc EXCEPT ![t] = "idle"]
    /\ UNCHANGED <<posVars, cellVars, pos, val, orderVars>>

\* diff > 0: others moved on, load the position again.
PopSeqStale(t) ==
    /\ pc[t] = "popSeq" /\ PopDiff(t) > 0
    /\ pos' = [pos EXCEPT ![t] = deq]
    /\ UNCHANGED <<posVars, cellVars, pc, val, orderVars>>

\* compare_exchange_weak succeeds: the value is this thread's.
PopCasOk(t) ==
    /\ pc[t] = "popCas" /\ deq = pos[t]
    /\ KeepsUp(deq, Popping)
    /\ deq' = Inc(pos[t])
    /\ pc' = [pc EXCEPT ![t] = "popRead"]
    /\ expect' = [expect EXCEPT ![t] = IF claimed = << >> THEN NoVal ELSE Head(claimed)]
    /\ claimed' = IF claimed = << >> THEN claimed ELSE Tail(claimed)
    /\ UNCHANGED <<enq, cellVars, pos, val>>

\* It fails, because the position moved or spuriously: retry on the latest.
PopCasFail(t) ==
    /\ pc[t] = "popCas"
    /\ pc' = [pc EXCEPT ![t] = "popSeq"]
    /\ pos' = [pos EXCEPT ![t] = deq]
    /\ UNCHANGED <<posVars, cellVars, val, orderVars>>

\* The value is moved out of the cell.
PopRead(t) ==
    /\ pc[t] = "popRead"
    /\ val' = [val EXCEPT ![t] = cell[CellOf(pos[t])]]
    /\ cell' = [cell EXCEPT ![CellOf(pos[t])] = NoVal]
    /\ pc' = [pc EXCEPT ![t] = "popStore"]
    /\ UNCHANGED <<posVars, seq, pos, orderVars>>

\* pos.wrapping_add(self.cap)
ReleasedSeq(p) == (p + Cap) % Wrap

\* seq.store(pos + cap, Release); Some(value)
PopStore(t) ==
    /\ pc[t] = "popStore"
    /\ seq' = [seq EXCEPT ![CellOf(pos[t])] = ReleasedSeq(pos[t])]
    /\ pc' = [pc EXCEPT ![t] = "idle"]
    /\ expect' = [expect EXCEPT ![t] = NoVal]
    /\ UNCHANGED <<posVars, cell, pos, val, claimed>>

-----------------------------------------------------------------------------
\* The rest of a call of t, once started.
Step(t) ==
    \/ PushSeqFree(t) \/ PushSeqFull(t) \/ PushSeqStale(t)
    \/ PushCasOk(t) \/ PushCasFail(t) \/ PushWrite(t) \/ PushStore(t)
    \/ PopSeqReady(t) \/ PopSeqEmpty(t) \/ PopSeqStale(t)
    \/ PopCasOk(t) \/ PopCasFail(t) \/ PopRead(t) \/ PopStore(t)

RingNext ==
    \E t \in Thread : (\E v \in Val : PushStart(t, v)) \/ PopStart(t) \/ Step(t)

RingSpec == RingInit /\ [][RingNext]_ringVars

-----------------------------------------------------------------------------
(* Properties.                                                             *)

\* Positions and sequence numbers stay usize values; the cells and the threads
\* hold values.
RingTypeOK ==
    /\ enq \in Position /\ deq \in Position
    /\ seq \in [Index -> Position]
    /\ cell \in [Index -> Val \cup {NoVal}]
    /\ pc \in [Thread -> {"idle", "pushSeq", "pushCas", "pushWrite", "pushStore",
                          "popSeq", "popCas", "popRead", "popStore"}]
    /\ pos \in [Thread -> Position]
    /\ val \in [Thread -> Val \cup {NoVal}]
    /\ claimed \in Seq(Val)
    /\ expect \in [Thread -> Val \cup {NoVal}]

\* "Exactly one producer owns a cell between claim and publish, ditto one
\* consumer" (mpmc.rs, SAFETY of Send): two threads between their claim and
\* their store of the sequence number never work on the same cell.
CellExclusive ==
    \A t, u \in Thread :
       /\ t # u
       /\ {pc[t], pc[u]} \subseteq {"pushWrite", "pushStore", "popRead", "popStore"}
       => CellOf(pos[t]) # CellOf(pos[u])

\* "Dequeues the oldest element" (mpmc.rs, doc of pop): the values come out in
\* the order in which the pushes claimed their cells, each once, and no read
\* finds the cell empty.
PopReturnsOldest ==
    \A t \in Thread :
       /\ pc[t] = "popRead" => cell[CellOf(pos[t])] = expect[t]
       /\ pc[t] = "popStore" => val[t] = expect[t]

\* "Err(value) when full" (mpmc.rs, doc of push): never more values than cells.
NeverOverfull == Len(claimed) <= Cap /\ Ahead(enq, deq) = Len(claimed)

\* A bounded lock-free queue of several producers and consumers (mpmc.rs,
\* module doc): at every interleaving of the loads, compare-and-swaps and
\* stores of push and pop, a cell has one owner between claim and publish,
\* values come out oldest first, once each, and a push that would exceed the
\* capacity is refused.
QueueExact == RingTypeOK /\ CellExclusive /\ PopReturnsOldest /\ NeverOverfull

\* What a pop that has claimed a cell will return: the value in the cell until
\* it is moved out, then the value moved out.
Result ==
    [t \in Thread |->
       IF pc[t] = "popRead" THEN cell[CellOf(pos[t])]
       ELSE IF pc[t] = "popStore" THEN val[t] ELSE NoVal]

Queue == INSTANCE ConcurrentQueue WITH queue <- claimed, result <- Result

\* push and pop each take effect at their successful compare-and-swap, however
\* the other steps of the calls interleave: what a pop finds in its cell is
\* then the oldest value, and no other call changes it until it is returned
\* (mpmc.rs, docs of push and pop).
IsQueue == Queue!Spec
=============================================================================
