------------------------------- MODULE MCPool -------------------------------
(***************************************************************************)
(* The lock-free queue under any pushes and pops, and the buffer pool with *)
(* the queue as its free list.  Which of the two is chosen at the start.   *)
(***************************************************************************)
EXTENDS BufferPool, TLC

MCVal == 0 .. Size - 1

\* Threads are interchangeable.
MCSymmetry == Permutations(Thread)

VARIABLE part

\* In the queue alone the pool has handed out nothing.
MCInit ==
    \/ part = "pool" /\ Init
    \/ /\ part = "queue" /\ RingInit
       /\ st = [t \in Thread |-> "out"]
       /\ guards = [s \in Slots |-> 0]
       /\ ready = {} /\ initialized = {} /\ outstanding = 0

MCNext ==
    \/ part = "pool" /\ Next /\ UNCHANGED part
    \/ part = "queue" /\ RingNext /\ UNCHANGED <<part, poolVars>>

MCSpec == MCInit /\ [][MCNext]_<<part, vars>>

\* Used alone or as the free list of a pool, the queue is exact: one owner per
\* claimed cell, oldest first, once each, never overfull (push and pop of
\* mpmc.rs).  Where there is a pool, a slot has one owner at a time, a guard
\* reads an initialised value, and in_use() counts the guards (pool.rs).
PoolExact == QueueExact /\ (part = "pool" => PoolSound)
=============================================================================
