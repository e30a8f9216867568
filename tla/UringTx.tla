------------------------------ MODULE UringTx ------------------------------
(***************************************************************************)
(* The io_uring transmit queue (src/crates/tpt-t-link/src/uring.rs) and    *)
(* the transmit path of the network service that uses it, falling back to  *)
(* the socket (ServiceCore::transmit in src/crates/tpt-t-link/src/         *)
(* service.rs, UdpMux::send_framed in mux.rs).                             *)
(*                                                                         *)
(* The network thread transmits one datagram at a time: it stages it in a  *)
(* free slot, submits, waits and reaps.  The kernel completes what it was  *)
(* given in any order, well or badly; its system calls may fail, and then  *)
(* leave what was pushed in the submission queue, which the next call      *)
(* hands over.  The submission queue has room for every slot.              *)
(***************************************************************************)
EXTENDS Integers, Sequences, FiniteSets

CONSTANTS
    Slots,          \* submission slots
    MaxTransmit     \* bound on the datagrams transmitted

ASSUME UringAssumption == Slots \in Nat \ {0} /\ MaxTransmit \in Nat

VARIABLES
    slotState,      \* Slot.state
    held,           \* the datagram in a slot's buffer, 0 before the first
    freeList,       \* the free slots, the head first
    staged,         \* UringTx.staged
    inflight,       \* UringTx.inflight
    submission,     \* entries pushed and not yet seen by the kernel
    kernel,         \* entries the kernel works on
    completion,     \* completion queue: slot and whether the send went well
    at,             \* where transmit is
    datagram,       \* the datagram being transmitted: its number
    onWire,         \* datagrams that left, by either path
    reported        \* datagrams transmit reported as sent

queueVars == <<slotState, held, freeList, staged, inflight>>
kernelVars == <<submission, kernel, completion>>
uringVars == <<queueVars, kernelVars, at, datagram, onWire, reported>>

Slot == 1 .. Slots

-----------------------------------------------------------------------------
\* UringTx::new.
UringInit ==
    /\ slotState = [s \in Slot |-> "Free"]
    /\ held = [s \in Slot |-> 0]
    /\ freeList = [i \in Slot |-> i]
    /\ staged = 0 /\ inflight = 0
    /\ submission = << >> /\ kernel = {} /\ completion = << >>
    /\ at = "idle" /\ datagram = 0
    /\ onWire = {} /\ reported = {}

\* transmit: stage the next datagram, or go to the socket when every slot is busy.
Stage ==
    /\ at = "idle" /\ datagram < MaxTransmit
    /\ datagram' = datagram + 1
    /\ \/ /\ freeList = << >>
          /\ at' = "socket"
          /\ UNCHANGED queueVars
       \/ /\ freeList # << >>
          /\ freeList' = Tail(freeList)
          /\ held' = [held EXCEPT ![Head(freeList)] = datagram']
          /\ slotState' = [slotState EXCEPT ![Head(freeList)] = "Staged"]
          /\ staged' = staged + 1
          /\ at' = "submit"
          /\ UNCHANGED inflight
    /\ UNCHANGED <<kernelVars, onWire, reported>>

\* The kernel takes the submission queue.
Handed == kernel \cup {submission[i] : i \in 1 .. Len(submission)}

\* The staged slots, in the order of the array.
StagedSlots ==
    LET stagedSet == {s \in Slot : slotState[s] = "Staged"}
    IN  CHOOSE q \in [1 .. Cardinality(stagedSet) -> stagedSet] :
           \A i, j \in 1 .. Cardinality(stagedSet) : i < j => q[i] < q[j]

\* submit_staged: push an entry for every staged slot and submit.  An error of
\* submit leaves the entries in the queue and the slots in flight.
SubmitStaged ==
    /\ at = "submit"
    /\ slotState' = [s \in Slot |-> IF slotState[s] = "Staged" THEN "InFlight" ELSE slotState[s]]
    /\ staged' = staged - Len(StagedSlots)
    /\ inflight' = inflight + Len(StagedSlots)
    /\ \/ /\ kernel' = Handed \cup {StagedSlots[i] : i \in DOMAIN StagedSlots}
          /\ submission' = << >>
          /\ at' = IF Len(StagedSlots) = 1 THEN "wait" ELSE "reapFailed"
       \/ /\ submission' = submission \o StagedSlots
          /\ at' = "reapFailed"
          /\ UNCHANGED kernel
    /\ UNCHANGED <<held, freeList, completion, datagram, onWire, reported>>

\* wait(inflight()): submit_and_wait returns when every completion is there,
\* or fails, interrupted.
Wait ==
    /\ at = "wait"
    /\ \/ /\ Len(completion) >= inflight
          /\ at' = "reap"
       \/ at' = "reapFailed"
    /\ UNCHANGED <<queueVars, kernelVars, datagram, onWire, reported>>

\* A mutated form: a failed transmit puts its own slot back, too.
CompletedOrFailed ==
    LET done == [i \in 1 .. Len(completion) |-> completion[i].slot]
        mine == {s \in Slot : slotState[s] = "InFlight" /\ held[s] = datagram}
    IN  done \o SelectSeq([i \in Slot |-> i], LAMBDA s :
            s \in mine /\ at = "reapFailed" /\ \A i \in DOMAIN done : done[i] # s)

\* The slots the completion queue names.
CompletedSlots == [i \in 1 .. Len(completion) |-> completion[i].slot]

\* on_error was not called for any completion.
AllSent == \A i \in 1 .. Len(completion) : completion[i].sent

\* reap, and transmit's verdict: sent, or try the socket.
Reap ==
    /\ at \in {"reap", "reapFailed"}
    /\ LET done == CompletedSlots
       IN  /\ inflight' = inflight - Len(done)
           /\ slotState' = [s \in Slot |->
                  IF \E i \in DOMAIN done : done[i] = s THEN "Free" ELSE slotState[s]]
           /\ freeList' = [i \in DOMAIN done |-> done[Len(done) + 1 - i]] \o freeList
    /\ completion' = << >>
    /\ IF at = "reap" /\ AllSent
       THEN at' = "idle" /\ reported' = reported \cup {datagram}
       ELSE at' = "socket" /\ UNCHANGED reported
    /\ UNCHANGED <<held, staged, submission, kernel, datagram, onWire>>

\* send_framed: the socket takes the datagram, or would block.
SocketSend ==
    /\ at = "socket"
    /\ at' = "idle"
    /\ \/ onWire' = onWire \cup {datagram} /\ reported' = reported \cup {datagram}
       \/ UNCHANGED <<onWire, reported>>
    /\ UNCHANGED <<queueVars, kernelVars, datagram>>

\* The kernel finishes a send.
Complete(s, sent) ==
    /\ s \in kernel
    /\ kernel' = kernel \ {s}
    /\ completion' = Append(completion, [slot |-> s, sent |-> sent])
    /\ onWire' = IF sent THEN onWire \cup {held[s]} ELSE onWire
    /\ UNCHANGED <<queueVars, submission, at, datagram, reported>>

UringNext ==
    \/ Stage \/ SubmitStaged \/ Wait \/ Reap \/ SocketSend
    \/ \E s \in Slot, sent \in BOOLEAN : Complete(s, sent)

\* The thread goes on, and the kernel completes what it was given.
UringSpec ==
    /\ UringInit /\ [][UringNext]_uringVars
    /\ WF_uringVars(SubmitStaged \/ Reap \/ SocketSend \/ Wait)
    /\ WF_uringVars(\E s \in Slot, sent \in BOOLEAN : Complete(s, sent))

-----------------------------------------------------------------------------
(***************************************************************************)
(* Properties                                                              *)
(***************************************************************************)
\* A slot the kernel may still read is never on the free list, so the buffer
\* of a datagram is not written over while it is being sent; every slot is
\* free once, staged or in flight, and the counters say how many.  A datagram
\* transmit reported as sent did leave, whichever system calls failed on the
\* way and whatever earlier submissions completed with it.
SlotsAccounted ==
    LET free == {freeList[i] : i \in DOMAIN freeList}
        busy == Handed \cup {completion[i].slot : i \in DOMAIN completion}
    IN  /\ free \cap busy = {}
        /\ Cardinality(free) = Len(freeList)
        /\ free = {s \in Slot : slotState[s] = "Free"}
        /\ staged = Cardinality({s \in Slot : slotState[s] = "Staged"})
        /\ inflight = Cardinality({s \in Slot : slotState[s] = "InFlight"})
        /\ busy = {s \in Slot : slotState[s] = "InFlight"}
        /\ reported \subseteq onWire
=============================================================================
