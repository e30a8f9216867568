----------------------------- MODULE NetService -----------------------------
(***************************************************************************)
(* The control path of the network service of tpt-t-link                   *)
(* (src/crates/tpt-t-link/src/service.rs with the transmit and demultiplex *)
(* halves of mux.rs), composed with the ends of the reliable channel it    *)
(* owns.  A unit takes the commands its safety loop approved from the      *)
(* outbox and transmits them; its peer hands every command that arrives to *)
(* its sink and answers with an acknowledgement.                           *)
(*                                                                         *)
(* Of ReliableChannel the state and the handlers are used, not the next    *)
(* step: `sent` counts the commands stamped by the safety loop, command n  *)
(* has the sequence number n % M, and as the service never calls drain,    *)
(* `next`, `rxSlots` and `delivered` keep their initial values.  The unit  *)
(* runs on one thread: a poll receives, then empties the outbox, then      *)
(* serves the timers.  The peer does the same; only its receiving matters  *)
(* here.                                                                   *)
(***************************************************************************)
EXTENDS ReliableChannel

CONSTANT OutCap     \* capacity of the outbox

\* Sequence numbers of the commands do not come round (2^32 in the program).
ASSUME ServiceAssumption == OutCap \in Nat \ {0} /\ MaxSend <= M

VARIABLES
    reliable,   \* cfg.reliable_control
    primary,    \* cfg.primary_peer is set
    known,      \* the neighbor table has the peer
    outbox,     \* the ring the safety loop pushes to
    phase,      \* what the unit's thread is at: "recv", "outbox", "timers"
    retained,   \* commands rel_tx.send has accepted
    got         \* commands the peer's sink has got

configVars  == <<reliable, primary>>
serviceVars == <<known, outbox, phase, retained, got>>
allVars     == <<vars, configVars, serviceVars>>

-----------------------------------------------------------------------------
\* NetService::new, for every configuration.
ServiceInit ==
    /\ Init
    /\ reliable \in BOOLEAN /\ primary \in BOOLEAN
    /\ known = FALSE
    /\ outbox = << >>
    /\ phase = "recv"
    /\ retained = {} /\ got = {}

\* primary_dst() is Some.
HasDst(k) == primary \/ k

\* The outbox takes another command.
Room == Len(outbox) < OutCap

\* The safety loop stamps its next command and pushes it, unless the ring is
\* full or a newer command made the loop discard it.
Approve ==
    /\ sent < MaxSend
    /\ sent' = sent + 1
    /\ \/ outbox' = outbox
       \/ Room /\ outbox' = Append(outbox, sent)
    /\ UNCHANGED <<oldest, slots, rxVars, netVars, configVars, known, phase, retained, got>>

(***************************************************************************)
(* poll, on the unit: receive until the socket is empty                    *)
(***************************************************************************)
\* Frame::Ack: on_ack.
TakeAck(ack) ==
    /\ phase = "recv"
    /\ ReceiveAck(ack)
    /\ UNCHANGED <<configVars, serviceVars>>

\* Frame::Beacon from the peer: observe puts it into the neighbor table.
TakeBeacon ==
    /\ phase = "recv" /\ ~known
    /\ known' = TRUE
    /\ UNCHANGED <<vars, configVars, outbox, phase, retained, got>>

\* recv_frame says the socket would block.
EndReceive ==
    /\ phase = "recv"
    /\ phase' = "outbox"
    /\ UNCHANGED <<vars, configVars, known, outbox, retained, got>>

(***************************************************************************)
(* background(), the outbox                                                *)
(***************************************************************************)
\* In reliable mode the frame is retained before it is transmitted, unless the
\* window is full; TxFull is ignored.
Retains(n) == reliable /\ ~TxFull(n % M)

\* send_control: the frame is retained and transmitted; `ok` says whether the
\* kernel took it.  A failure ends the pass.
SendControl(ok) ==
    LET n == Head(outbox) IN
    /\ phase = "outbox" /\ outbox # << >> /\ HasDst(known)
    /\ outbox' = Tail(outbox)
    /\ IF Retains(n)
       THEN slots' = [slots EXCEPT ![(n % M) % Window] = Frame(n)] /\ retained' = retained \cup {n}
       ELSE UNCHANGED <<slots, retained>>
    /\ frames' = IF ok THEN frames \cup {Frame(n)} ELSE frames
    /\ phase' = IF ok THEN "outbox" ELSE "timers"
    /\ UNCHANGED <<sent, oldest, rxVars, acks, configVars, known, got>>

\* Nobody to talk to: the command is popped and the pass ends.
DropControl ==
    /\ phase = "outbox" /\ outbox # << >> /\ ~HasDst(known)
    /\ outbox' = Tail(outbox)
    /\ phase' = "timers"
    /\ UNCHANGED <<vars, configVars, known, retained, got>>

\* The outbox is empty.
EndOutbox ==
    /\ phase = "outbox" /\ outbox = << >>
    /\ phase' = "timers"
    /\ UNCHANGED <<vars, configVars, known, outbox, retained, got>>

(***************************************************************************)
(* background(), the timers                                                *)
(***************************************************************************)
\* A mutated form: the loop over the slots begins at the second one.
OverdueAfterFirst(i) == Live(i) /\ i > 0

\* tick sends a slot again only when it is live.
Overdue(i) == Live(i)

\* The beacon round expires a silent neighbor; then rel_tx.tick sends the
\* overdue frames again, those of `out` successfully.
Timers(expired, out) ==
    /\ phase = "timers"
    /\ known' = (known /\ ~expired)
    /\ \A i \in out : Overdue(i)
    /\ out # {} => HasDst(known')
    /\ frames' = frames \cup {slots[i] : i \in out}
    /\ phase' = "recv"
    /\ UNCHANGED <<txVars, rxVars, acks, configVars, outbox, retained, got>>

(***************************************************************************)
(* poll, on the peer                                                       *)
(***************************************************************************)
\* A mutated form: the bit of the following frame is set.
TrackedNext(m, seq) == IF Accepts(seq) THEN m \cup {(Sub(seq, next) + 1) % SackBits} ELSE m

\* rel_rx.accept, its verdict ignored.
Tracked(m, seq) == IF Accepts(seq) THEN m \cup {Sub(seq, next)} ELSE m

\* Frame::Cmd: a reliable command is tracked and acknowledged at once, then
\* every command goes to the sink.  The transmission of the acknowledgement
\* may fail; the network may keep a copy of the frame.
TakeControl(f) ==
    /\ f \in frames
    /\ frames' \in {frames, frames \ {f}}
    /\ got' = got \cup {f.payload}
    /\ IF reliable
       THEN /\ map' = Tracked(map, f.seq)
            /\ \/ acks' = acks
               \/ /\ Cardinality(acks \ {BuildAck(map')}) < MaxAcks
                  /\ acks' = acks \cup {BuildAck(map')}
       ELSE UNCHANGED <<map, acks>>
    /\ UNCHANGED <<txVars, next, rxSlots, delivered, configVars, known, outbox, phase, retained>>

\* demux rejects a damaged datagram, or the network loses it.
RejectFrame(f) == LoseFrame(f) /\ UNCHANGED <<configVars, serviceVars>>
RejectAck(a) == LoseAck(a) /\ UNCHANGED <<configVars, serviceVars>>

-----------------------------------------------------------------------------
Background ==
    \/ \E ok \in BOOLEAN : SendControl(ok)
    \/ DropControl
    \/ EndOutbox
    \/ \E expired \in BOOLEAN, out \in SUBSET DOMAIN slots : Timers(expired, out)

ServiceNext ==
    \/ Approve
    \/ \E ack \in acks : TakeAck(ack) \/ RejectAck(ack)
    \/ TakeBeacon
    \/ EndReceive
    \/ Background
    \/ \E f \in frames : TakeControl(f) \/ RejectFrame(f)

ServiceSpec == ServiceInit /\ [][ServiceNext]_allVars

\* The thread polls for ever, so an overdue frame is sent again whenever a
\* pass of the timers has a destination and the kernel has room; the peer's
\* beacons keep coming, and the network does not lose every copy of a frame
\* that is sent again and again.
Resend(i) == \E expired \in BOOLEAN, out \in SUBSET DOMAIN slots : i \in out /\ Timers(expired, out)

ServiceFairness ==
    /\ WF_allVars(EndReceive) /\ WF_allVars(Background)
    /\ SF_allVars(TakeBeacon)
    /\ \A i \in 0 .. Window - 1 : SF_allVars(Resend(i))
    /\ \A n \in 0 .. MaxSend - 1 : SF_allVars(TakeControl(Frame(n)))

FairServiceSpec == ServiceSpec /\ ServiceFairness

-----------------------------------------------------------------------------
(* Properties.                                                             *)

\* "Sender retains each frame until acknowledged" (reliable.rs, module doc), as
\* the service uses it: a command the sender has freed is one the peer's sink
\* has got, through lost, repeated and late acknowledgements.
FreedIsDelivered ==
    \A n \in retained : slots[n % Window] = Frame(n) \/ n \in got

\* "Kernel buffer full; retry next tick" (service.rs, background): a command
\* that entered the retention window reaches the peer's sink in the end, also
\* when its first transmission failed or the peer was forgotten in between.
RetainedIsDelivered ==
    \A n \in 0 .. MaxSend - 1 : n \in retained ~> n \in got

\* "Ordered, duplicate-free [...] delivery" (reliable.rs, module doc): what the
\* sink gets in reliable mode is newer than all it has got.
SinkInOrderOnce ==
    [][reliable => \A f \in frames : TakeControl(f) => \A n \in got : n < f.payload]_allVars
=============================================================================
