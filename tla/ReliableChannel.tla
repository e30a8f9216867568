--------------------------- MODULE ReliableChannel ---------------------------
(***************************************************************************)
(* The reliable control channel of tpt-t-link                              *)
(* (src/crates/tpt-t-link/src/reliable.rs): the selective-repeat sender    *)
(* ReliableTx and receiver ReliableRx, joined by a datagram network that   *)
(* loses, duplicates and reorders frames and acknowledgements.             *)
(*                                                                         *)
(* Frame n of the stream (n = 0, 1, 2, ...) travels under the sequence     *)
(* number n % M; its payload is n itself, which only the properties look   *)
(* at.  The program has M = 2^32, a window of 128 and SackBits = 32.  A    *)
(* datagram is not delivered once the receiver is MaxAge frames further    *)
(* than when it was sent: sequence numbers cannot tell older ones apart.   *)
(***************************************************************************)
EXTENDS Integers, Sequences, FiniteSets

CONSTANTS
    M,          \* number of sequence numbers
    Window,     \* retention slots of the sender
    SackBits,   \* reorder slots of the receiver
    MaxAge,     \* how far behind the receiver a delivered datagram may be
    MaxSend,    \* bound on the frames of the stream
    MaxAcks     \* bound on the acknowledgements in the network at once

\* Window is rounded up to a power of two, so it divides M.
ASSUME ChannelAssumption ==
    /\ Window \in Nat \ {0} /\ SackBits \in Nat \ {0}
    /\ M \in Nat /\ M % 2 = 0 /\ M % Window = 0
    /\ MaxAge <= M \div 2 /\ Window <= M \div 2 /\ SackBits <= M \div 2
    /\ MaxAge \in Nat /\ MaxSend \in Nat /\ MaxAcks \in Nat

VARIABLES
    sent,       \* frames of the stream accepted by send
    oldest,     \* sender: lowest possibly unacknowledged sequence number
    slots,      \* sender: the retention slots
    next,       \* receiver: sequence number expected next
    map,        \* receiver: bits set in the reorder bitmap
    rxSlots,    \* receiver: payloads in the reorder slots
    delivered,  \* payloads handed over by drain
    frames,     \* frames in the network
    acks        \* acknowledgements in the network

txVars  == <<sent, oldest, slots>>
rxVars  == <<next, map, rxSlots, delivered>>
netVars == <<frames, acks>>
vars    == <<txVars, rxVars, netVars>>

-----------------------------------------------------------------------------
Seq32 == 0 .. M - 1
Bits  == 0 .. SackBits - 1

\* a.wrapping_sub(b)
Sub(a, b) == (a - b) % M

\* a.wrapping_add(b)
Add(a, b) == (a + b) % M

\* Payload of a slot that holds none.
Nothing == -1

\* A free slot: len = 0.
FreeSlot(s) == [seq |-> s, payload |-> Nothing]

Live(i) == slots[i].payload # Nothing

Frame(n) == [seq |-> n % M, payload |-> n]

Init ==
    /\ sent = 0 /\ oldest = 0
    /\ slots = [i \in 0 .. Window - 1 |-> FreeSlot(i)]
    /\ next = 0 /\ map = {}
    /\ rxSlots = [i \in Bits |-> Nothing]
    /\ delivered = << >>
    /\ frames = {} /\ acks = {}

(***************************************************************************)
(* ReliableTx                                                              *)
(***************************************************************************)
\* send refuses a sequence number outside the window, or one still queued.
TxFull(seq) ==
    \/ Sub(seq, oldest) >= Window
    \/ Live(seq % Window) /\ slots[seq % Window].seq = seq

\* send, and the first transmission of the frame by the link layer.
Send ==
    /\ sent < MaxSend
    /\ ~TxFull(sent % M)
    /\ slots' = [slots EXCEPT ![(sent % M) % Window] = Frame(sent)]
    /\ frames' = frames \cup {Frame(sent)}
    /\ sent' = sent + 1
    /\ UNCHANGED <<oldest, rxVars, acks>>

\* How far on_ack moves oldest toward base_seq: the loop leaves at once when
\* the distance is the whole window or more.
Advance(base) == IF Sub(base, oldest) < Window THEN Sub(base, oldest) ELSE 0

\* A mutated form: the bitmap is read as if it began at base_seq.
SackedFromBase(ack) == {Add(ack.base, i) : i \in ack.bitmap}

\* The sequence numbers an acknowledgement reports beyond base_seq.
Sacked(ack) == {Add(ack.base, 1 + i) : i \in ack.bitmap}

\* on_ack: free cumulatively up to base_seq, then the SACKed stragglers that
\* are inside the window and still in their slot.
OnAck(ack) ==
    LET adv   == Advance(ack.base)
        low   == Add(oldest, adv)
        cum   == {Add(oldest, k) % Window : k \in 0 .. adv - 1}
        sacks == {s \in Sacked(ack) :
                    Sub(s, low) < Window /\ slots[s % Window].seq = s}
        freed == cum \cup {s % Window : s \in sacks}
    IN  /\ oldest' = low
        /\ slots' = [i \in DOMAIN slots |->
                       IF i \in freed THEN FreeSlot(slots[i].seq) ELSE slots[i]]

\* An acknowledgement arrives; the network may keep a copy for later.
ReceiveAck(ack) ==
    /\ ack \in acks
    /\ OnAck(ack)
    /\ acks' \in {acks, acks \ {ack}}
    /\ UNCHANGED <<sent, rxVars, frames>>

\* tick: the frames overdue by rto_ns are transmitted again.
Tick(overdue) ==
    /\ overdue # {}
    /\ \A i \in overdue : Live(i)
    /\ frames' = frames \cup {slots[i] : i \in overdue}
    /\ UNCHANGED <<txVars, rxVars, acks>>

(***************************************************************************)
(* ReliableRx                                                              *)
(***************************************************************************)
\* A mutated form: only frames ahead of the reorder window are refused.
AcceptsOld(seq) == Sub(seq, next) < SackBits \/ Sub(seq, next) >= M \div 2

\* accept stores the frame unless it is older than the cumulative point,
\* beyond the reorder window, or there already.
Accepts(seq) ==
    /\ Sub(seq, next) < M \div 2
    /\ Sub(seq, next) < SackBits
    /\ Sub(seq, next) \notin map

\* A frame arrives and is offered to accept; the network may keep a copy.
ReceiveFrame(f) ==
    /\ f \in frames
    /\ LET bit == Sub(f.seq, next) % SackBits IN
          IF Accepts(f.seq)
          THEN /\ map' = map \cup {bit}
               /\ rxSlots' = [rxSlots EXCEPT ![bit] = f.payload]
          ELSE UNCHANGED <<map, rxSlots>>
    /\ frames' \in {frames, frames \ {f}}
    /\ UNCHANGED <<txVars, next, delivered, acks>>

\* Frames at the front of the reorder window without a gap.
ReadyChain == CHOOSE k \in 0 .. SackBits :
                 (\A i \in 0 .. k - 1 : i \in map) /\ k \notin map

\* The datagrams the network may still deliver when the receiver has got n.
Young(n) == {f \in frames : n - f.payload <= MaxAge}
YoungAcks(n) == {a \in acks : n - a.at <= MaxAge}

\* The reorder slots moved down by k.
Shift(k) == [i \in Bits |-> IF i + k \in Bits THEN rxSlots[i + k] ELSE Nothing]

\* drain: deliver the ready chain and move the window past it.
Drain ==
    LET k == ReadyChain IN
    /\ k > 0
    /\ delivered' = delivered \o [i \in 1 .. k |-> rxSlots[i - 1]]
    /\ map' = {b - k : b \in {c \in map : c >= k}}
    /\ rxSlots' = Shift(k)
    /\ next' = Add(next, k)
    /\ frames' = Young(Len(delivered'))
    /\ acks' = YoungAcks(Len(delivered'))
    /\ UNCHANGED txVars

\* build_ack: base_seq = next, bitmap = map >> 1, for the bits m.  `at` only
\* dates the acknowledgement.
BuildAck(m) == [base |-> next, bitmap |-> {b - 1 : b \in m \ {0}}, at |-> Len(delivered)]

\* The receiver acknowledges what it has.
SendAck ==
    /\ Cardinality(acks \ {BuildAck(map)}) < MaxAcks
    /\ acks' = acks \cup {BuildAck(map)}
    /\ UNCHANGED <<txVars, rxVars, frames>>

(***************************************************************************)
(* The network loses datagrams.                                            *)
(***************************************************************************)
LoseFrame(f) == f \in frames /\ frames' = frames \ {f} /\ UNCHANGED <<txVars, rxVars, acks>>
LoseAck(a) == a \in acks /\ acks' = acks \ {a} /\ UNCHANGED <<txVars, rxVars, frames>>

-----------------------------------------------------------------------------
TickNext == \E overdue \in SUBSET DOMAIN slots : Tick(overdue)

Next ==
    \/ Send
    \/ TickNext
    \/ \E ack \in acks : ReceiveAck(ack) \/ LoseAck(ack)
    \/ \E f \in frames : ReceiveFrame(f) \/ LoseFrame(f)
    \/ Drain
    \/ SendAck

Spec == Init /\ [][Next]_vars

\* The service drains and acknowledges whatever arrives, ticks for ever, and
\* the network does not lose every copy of a frame that is sent again and
\* again, nor every acknowledgement.
RetransmitSlot(i) == Tick({i})
Fairness ==
    /\ WF_vars(Send) /\ WF_vars(Drain) /\ WF_vars(SendAck)
    /\ \A i \in 0 .. Window - 1 : WF_vars(RetransmitSlot(i))
    /\ \A n \in 0 .. MaxSend - 1 : SF_vars(ReceiveFrame(Frame(n)))
    /\ SF_vars(\E ack \in acks : ReceiveAck(ack))

FairSpec == Spec /\ Fairness

-----------------------------------------------------------------------------
(* Properties.                                                             *)

\* Sequence numbers, slots and payloads keep their types.
TypeOK ==
    /\ sent \in 0 .. MaxSend /\ oldest \in Seq32 /\ next \in Seq32
    /\ slots \in [0 .. Window - 1 -> [seq : Seq32, payload : Nat \cup {Nothing}]]
    /\ map \subseteq Bits
    /\ rxSlots \in [Bits -> Nat \cup {Nothing}]
    /\ delivered \in Seq(Nat)
    /\ frames \subseteq [seq : Seq32, payload : Nat]
    /\ acks \subseteq [base : Seq32, bitmap : SUBSET Nat, at : Nat]

\* "Ordered, duplicate-free [...] delivery" (reliable.rs, module doc): drain
\* hands over the payloads of the stream in order, each once, whatever the
\* network does and across the wrap-around of the sequence numbers.
InOrderOnce == \A i \in 1 .. Len(delivered) : delivered[i] = i - 1

\* "Sender retains each frame until acknowledged" (reliable.rs, module doc): a
\* frame the sender no longer retains has reached the receiver.
RetainedUntilReceived ==
    \A n \in Len(delivered) .. sent - 1 :
       \/ slots[n % Window] = Frame(n)
       \/ \E b \in map : rxSlots[b] = n

\* "Bit i set => slot i holds the frame at sequence next + i" (reliable.rs, doc
\* of ReliableRx), also after drain has shifted the slots.
BitmapMatchesSlots == \A b \in map : rxSlots[b] = Len(delivered) + b

\* What the receiver has handed over and what it holds back are the stream,
\* each frame under its own number (reliable.rs, docs of accept and drain).
DeliveryExact == TypeOK /\ InOrderOnce /\ BitmapMatchesSlots

\* "Loss-recovering delivery" (reliable.rs, module doc): every frame send
\* accepted is delivered in the end (the stream is MaxSend frames long, so
\* delivery catches up with it).
SentIsDelivered == []<>(Len(delivered) = sent)
=============================================================================
