-------------------------- MODULE ConcurrentQueue --------------------------
(***************************************************************************)
(* What a lock-free queue promises the threads that share it: each push    *)
(* that succeeds appends its value at one moment of the call, each pop     *)
(* that succeeds takes the oldest value at one moment of its call and      *)
(* returns that value, and never more than Cap values are queued.  A push  *)
(* that is refused and a pop that finds nothing are stuttering steps, and  *)
(* neither is promised to be right about what is queued: a cell that       *)
(* another call has claimed and not yet handed on counts for neither side. *)
(***************************************************************************)
EXTENDS Naturals, Sequences

CONSTANTS
    Thread,     \* threads that share the queue
    Cap,        \* largest number of values queued
    Val,        \* values queued
    NoVal       \* no value

VARIABLES
    queue,      \* the values queued, oldest first
    result      \* per thread: the value its pop has taken and not returned yet

queueVars == <<queue, result>>

\* The queue may start with something in it, as the free list of a pool does.
Init ==
    /\ queue \in Seq(Val) /\ Len(queue) <= Cap
    /\ result = [t \in Thread |-> NoVal]

Put(v) ==
    /\ Len(queue) < Cap
    /\ queue' = Append(queue, v)
    /\ UNCHANGED result

Take(t) ==
    /\ result[t] = NoVal /\ queue # << >>
    /\ result' = [result EXCEPT ![t] = Head(queue)]
    /\ queue' = Tail(queue)

Return(t) ==
    /\ result' = [result EXCEPT ![t] = NoVal]
    /\ UNCHANGED queue

Next == (\E v \in Val : Put(v)) \/ (\E t \in Thread : Take(t) \/ Return(t))

Spec == Init /\ [][Next]_queueVars
=============================================================================
