---------------------------- MODULE BoundedFifo ----------------------------
(***************************************************************************)
(* What a bounded ring promises its endpoints: a first-in first-out queue  *)
(* of at most Cap values.  A push that returns Ok appends, a pop that      *)
(* returns Some hands over the oldest value, and dropping the ring         *)
(* discards what is left, after which nothing more happens.  A push        *)
(* refused with Err(value) and a pop that returns None are stuttering      *)
(* steps here.                                                             *)
(***************************************************************************)
EXTENDS Naturals, Sequences

CONSTANTS
    Cap,    \* largest number of values held at once
    Val,    \* the values that travel through the queue
    NoVal   \* what the consumer holds before its first successful pop

VARIABLES
    queue,  \* the values accepted and not yet handed over, oldest first
    out,    \* the value handed over last
    open    \* FALSE once the ring has been dropped

fifoVars == <<queue, out, open>>

Init ==
    /\ queue = << >>
    /\ out = NoVal
    /\ open = TRUE

Push(v) ==
    /\ open
    /\ Len(queue) < Cap
    /\ queue' = Append(queue, v)
    /\ UNCHANGED <<out, open>>

Pop ==
    /\ open
    /\ queue # << >>
    /\ out' = Head(queue)
    /\ queue' = Tail(queue)
    /\ UNCHANGED open

Drop ==
    /\ open
    /\ open' = FALSE
    /\ queue' = << >>
    /\ UNCHANGED out

Next == (\E v \in Val : Push(v)) \/ Pop \/ Drop

Spec == Init /\ [][Next]_fifoVars
=============================================================================
