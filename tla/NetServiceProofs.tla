-------------------------- MODULE NetServiceProofs --------------------------
(***************************************************************************)
(* Proof about NetService, for every window, reorder window and number of  *)
(* commands short of the sequence space: the service frees a command only  *)
(* when the sink of the peer has got it.  As the service never drains its  *)
(* receiver, neither end of the window ever moves, and the argument rests  *)
(* on that.                                                                *)
(***************************************************************************)
EXTENDS NetService, SequenceTheorems, TLAPS

Stamped == 0 .. MaxSend - 1

-----------------------------------------------------------------------------
(* The inductive invariant.                                                *)

\* Both ends of the window stay where they began.
Fixed == next = 0 /\ oldest = 0 /\ delivered = << >>

\* Commands on their way carry their own sequence number.
Commands ==
    /\ sent \in Nat
    /\ outbox \in Seq(Stamped)
    /\ frames \subseteq {Frame(n) : n \in Stamped}
    /\ got \subseteq Stamped

\* A retention slot holds the command of its own index, or nothing.
Retention ==
    /\ slots \in [0 .. Window - 1 -> [seq : Nat, payload : Nat \cup {Nothing}]]
    /\ \A i \in 0 .. Window - 1 : slots[i] \in {FreeSlot(i), Frame(i)}
    /\ retained \subseteq Stamped \cap 0 .. Window - 1
    /\ \A i \in 0 .. Window - 1 : slots[i] = Frame(i) => i \in Stamped

\* What the receiver has tracked, and what an acknowledgement reports, the
\* sink has got.
Truthful ==
    /\ map \subseteq got
    /\ \A a \in acks : a.base = 0 /\ a.bitmap \subseteq Nat /\ \A i \in a.bitmap : i + 1 \in got

SInv == Fixed /\ Commands /\ Retention /\ Truthful /\ FreedIsDelivered

-----------------------------------------------------------------------------
(* Arithmetic of the sequence numbers.                                     *)

\* The constants are natural numbers; there are more sequence numbers than
\* slots and at least as many as commands.
LEMMA Sizes ==
    /\ M \in Nat /\ Window \in Nat /\ Window > 0 /\ Window < M
    /\ MaxSend \in Nat /\ MaxSend <= M /\ SackBits \in Nat /\ OutCap \in Nat
  <1>1. M \in Nat /\ Window \in Nat \ {0} /\ Window <= M \div 2
    BY ChannelAssumption
  <1>2. Window < M
    BY <1>1
  <1> QED
    BY <1>1, <1>2, ChannelAssumption, ServiceAssumption

\* A number short of the sequence space is its own sequence number.
LEMMA SmallMod ==
    ASSUME NEW d \in Nat \ {0}, NEW n \in 0 .. d - 1
    PROVE  n % d = n
  OBVIOUS

\* The frame of a command.
LEMMA FrameOf ==
    ASSUME NEW n \in Stamped
    PROVE  Frame(n) = [seq |-> n, payload |-> n] /\ n \in Nat /\ n < M
  <1>1. n \in 0 .. M - 1 /\ M \in Nat \ {0}
    BY Sizes DEF Stamped
  <1>2. n % M = n
    BY <1>1, SmallMod
  <1> QED
    BY <1>1, <1>2 DEF Frame

\* Distances from the beginning of the window.
LEMMA SubBase ==
    ASSUME NEW n \in Nat, n < M
    PROVE  Sub(n, 0) = n
  <1>1. n \in 0 .. M - 1 /\ M \in Nat \ {0}
    BY Sizes
  <1> QED
    BY <1>1, SmallMod DEF Sub

-----------------------------------------------------------------------------
(* The invariant holds initially and every action preserves it.            *)

\* A new service has sent, retained and tracked nothing.
LEMMA SInvInit == ServiceInit => SInv
  <1> SUFFICES ASSUME ServiceInit PROVE SInv
    OBVIOUS
  <1>1. Window \in Nat
    BY Sizes
  <1>2. Fixed /\ Truthful
    BY DEF ServiceInit, Init, Fixed, Truthful
  <1>3. Commands
    BY EmptySeq DEF ServiceInit, Init, Commands
  <1>4. Retention
    BY <1>1 DEF ServiceInit, Init, Retention, FreeSlot, Frame, Nothing
  <1>5. FreedIsDelivered
    BY DEF ServiceInit, FreedIsDelivered
  <1> QED
    BY <1>2, <1>3, <1>4, <1>5 DEF SInv

\* An acknowledgement that tells the truth moves no end of the window and
\* frees only what the sink has got.
LEMMA AckFrees ==
    ASSUME SInv, NEW ack \in acks, OnAck(ack)
    PROVE  /\ oldest' = 0
           /\ slots' \in [0 .. Window - 1 -> [seq : Nat, payload : Nat \cup {Nothing}]]
           /\ \A i \in 0 .. Window - 1 :
                 slots'[i] = slots[i] \/ (slots'[i] = FreeSlot(i) /\ i \in got)
  <1>1. ack.base = 0 /\ oldest = 0 /\ ack.bitmap \subseteq Nat
    BY DEF SInv, Truthful, Fixed
  <1>2. Sub(0, 0) = 0 /\ Add(0, 0) = 0 /\ Window > 0
    BY Sizes, SmallMod DEF Sub, Add
  <1>3. Advance(ack.base) = 0
    BY <1>1, <1>2 DEF Advance
  <1> DEFINE adv   == Advance(ack.base)
             low   == Add(oldest, adv)
             cum   == {Add(oldest, k) % Window : k \in 0 .. adv - 1}
             sacks == {s \in Sacked(ack) : Sub(s, low) < Window /\ slots[s % Window].seq = s}
             freed == cum \cup {s % Window : s \in sacks}
  <1>4. low = 0 /\ cum = {}
    BY <1>1, <1>2, <1>3
  <1>5. ASSUME NEW s \in sacks PROVE s \in got /\ s \in 0 .. Window - 1 /\ s % Window = s
    <2>1. PICK i \in ack.bitmap : s = Add(0, 1 + i)
      BY <1>1 DEF Sacked
    <2>2. i \in Nat /\ i + 1 \in got /\ i + 1 \in Stamped
      BY <1>1 DEF SInv, Truthful, Commands
    <2>3. i + 1 \in 0 .. M - 1 /\ M \in Nat \ {0}
      BY <2>2, Sizes DEF Stamped
    <2>4. s = i + 1
      <3>1. (i + 1) % M = i + 1
        BY <2>3, SmallMod
      <3>2. Add(0, 1 + i) = (i + 1) % M
        BY <2>2 DEF Add
      <3> QED
        BY <2>1, <3>1, <3>2
    <2>5. Sub(s, 0) = s /\ Sub(s, low) < Window
      BY <2>3, <2>4, SubBase
    <2>6. s \in 0 .. Window - 1
      BY <1>4, <2>2, <2>4, <2>5, Sizes
    <2> QED
      BY <2>2, <2>4, <2>6, SmallMod, Sizes
  <1>6. freed \subseteq got
    BY <1>4, <1>5
  <1>7. oldest' = low /\ slots' = [i \in DOMAIN slots |->
                       IF i \in freed THEN FreeSlot(slots[i].seq) ELSE slots[i]]
    BY DEF OnAck
  <1>8. DOMAIN slots = 0 .. Window - 1
    BY DEF SInv, Retention
  <1>9. \A i \in 0 .. Window - 1 : slots[i].seq = i
    <2> TAKE i \in 0 .. Window - 1
    <2>1. i \in 0 .. M - 1 /\ M \in Nat \ {0}
      BY Sizes
    <2>2. i % M = i
      BY <2>1, SmallMod
    <2> QED
      BY <2>2 DEF SInv, Retention, FreeSlot, Frame
  <1>10. \A i \in 0 .. Window - 1 :
            slots'[i] = slots[i] \/ (slots'[i] = FreeSlot(i) /\ i \in got)
    BY <1>6, <1>7, <1>8, <1>9
  <1>11. \A i \in 0 .. Window - 1 :
            /\ slots[i] \in [seq : Nat, payload : Nat \cup {Nothing}]
            /\ FreeSlot(i) \in [seq : Nat, payload : Nat \cup {Nothing}]
    BY Sizes DEF SInv, Retention, FreeSlot
  <1>12. slots' \in [0 .. Window - 1 -> [seq : Nat, payload : Nat \cup {Nothing}]]
    BY <1>7, <1>8, <1>9, <1>11
  <1> QED
    BY <1>4, <1>7, <1>10, <1>12

\* A command taken from the outbox: its own number, and what is left.
LEMMA OutboxHead ==
    ASSUME Commands, outbox # << >>
    PROVE  Head(outbox) \in Stamped /\ Tail(outbox) \in Seq(Stamped)
  BY HeadTailProperties DEF Commands

\* The safety loop approves a command.
LEMMA ApproveStep == SInv /\ Approve => SInv'
  <1> SUFFICES ASSUME SInv, Approve PROVE SInv'
    OBVIOUS
  <1>1. UNCHANGED <<next, oldest, delivered, frames, got, slots, retained, map, acks>>
    BY DEF Approve, rxVars, netVars
  <1>2. sent \in Stamped /\ sent' \in Nat
    BY Sizes DEF SInv, Commands, Approve, Stamped
  <1>3. outbox' \in Seq(Stamped)
    BY <1>2, AppendProperties DEF SInv, Commands, Approve
  <1> QED
    BY <1>1, <1>2, <1>3 DEF SInv, Fixed, Commands, Retention, Truthful, FreedIsDelivered

\* A retained command sits in the slot of its own number.
LEMMA SlotOfRetained ==
    ASSUME NEW n \in 0 .. Window - 1
    PROVE  n % Window = n
  BY SmallMod, Sizes

\* The unit takes an acknowledgement.
LEMMA TakeAckStep == ASSUME NEW ack \in acks, SInv, TakeAck(ack) PROVE SInv'
  <1>1. OnAck(ack) /\ acks' \subseteq acks
    BY DEF TakeAck, ReceiveAck
  <1>2. UNCHANGED <<next, delivered, sent, outbox, frames, got, retained, map>>
    BY DEF TakeAck, ReceiveAck, rxVars, serviceVars
  <1>3. /\ oldest' = 0
        /\ slots' \in [0 .. Window - 1 -> [seq : Nat, payload : Nat \cup {Nothing}]]
        /\ \A i \in 0 .. Window - 1 :
              slots'[i] = slots[i] \/ (slots'[i] = FreeSlot(i) /\ i \in got)
    BY <1>1, AckFrees
  <1>4. Fixed' /\ Commands' /\ Truthful'
    BY <1>1, <1>2, <1>3 DEF SInv, Fixed, Commands, Truthful
  <1>5. \A i \in 0 .. Window - 1 : FreeSlot(i) # Frame(i)
    BY Sizes DEF FreeSlot, Frame, Nothing
  <1>6. Retention'
    BY <1>2, <1>3, <1>5 DEF SInv, Retention
  <1>7. FreedIsDelivered'
    <2> SUFFICES ASSUME NEW n \in retained' PROVE slots'[n % Window] = Frame(n) \/ n \in got'
      BY DEF FreedIsDelivered
    <2>1. n \in retained /\ n \in 0 .. Window - 1 /\ n % Window = n
      BY <1>2, SlotOfRetained DEF SInv, Retention
    <2>2. slots[n] = Frame(n) \/ n \in got
      BY <2>1 DEF SInv, FreedIsDelivered
    <2> QED
      BY <1>2, <1>3, <2>1, <2>2
  <1> QED
    BY <1>4, <1>6, <1>7 DEF SInv

\* A command is retained and transmitted.
LEMMA SendControlStep == ASSUME NEW ok \in BOOLEAN, SInv, SendControl(ok) PROVE SInv'
  <1> DEFINE n == Head(outbox)
  <1>1. n \in Stamped /\ outbox' \in Seq(Stamped)
    BY OutboxHead DEF SInv, SendControl
  <1>2. Frame(n) = [seq |-> n, payload |-> n] /\ n \in Nat /\ n < M
    BY <1>1, FrameOf
  <1>3. UNCHANGED <<next, oldest, delivered, sent, got, map, acks>>
    BY DEF SendControl, rxVars
  <1>4. Fixed' /\ Truthful'
    BY <1>3 DEF SInv, Fixed, Truthful
  <1>5. frames' \subseteq frames \cup {Frame(n)}
    BY DEF SendControl
  <1>6. Commands'
    BY <1>1, <1>3, <1>5 DEF SInv, Commands
  <1>7. CASE ~Retains(n)
    <2>1. UNCHANGED <<slots, retained>>
      BY <1>7 DEF SendControl
    <2> QED
      BY <1>3, <1>4, <1>6, <2>1 DEF SInv, Retention, FreedIsDelivered
  <1>8. CASE Retains(n)
    <2>1. n % M = n
      BY <1>2, SmallMod, Sizes
    <2>2. n \in 0 .. Window - 1 /\ n % Window = n
      <3>1. Sub(n, oldest) = n
        BY <1>2, SubBase DEF SInv, Fixed
      <3>2. n < Window
        BY <1>2, <1>8, <2>1, <3>1, Sizes DEF Retains, TxFull
      <3> QED
        BY <1>2, <3>2, Sizes, SlotOfRetained
    <2>3. slots' = [slots EXCEPT ![n] = Frame(n)] /\ retained' = retained \cup {n}
      BY <1>8, <2>1, <2>2 DEF SendControl
    <2>4. Retention'
      BY <1>1, <1>2, <2>2, <2>3 DEF SInv, Retention
    <2>5. FreedIsDelivered'
      <3> SUFFICES ASSUME NEW k \in retained' PROVE slots'[k % Window] = Frame(k) \/ k \in got'
        BY DEF FreedIsDelivered
      <3>1. k \in 0 .. Window - 1 /\ k % Window = k
        BY <2>4, SlotOfRetained DEF Retention
      <3>2. CASE k = n
        BY <2>2, <2>3, <3>2 DEF SInv, Retention
      <3>3. CASE k # n
        BY <1>3, <2>3, <3>1, <3>3 DEF SInv, Retention, FreedIsDelivered
      <3> QED
        BY <3>2, <3>3
    <2> QED
      BY <1>4, <1>6, <2>4, <2>5 DEF SInv
  <1> QED
    BY <1>7, <1>8

\* A command popped without a destination is gone.
LEMMA DropControlStep == SInv /\ DropControl => SInv'
  <1> SUFFICES ASSUME SInv, DropControl PROVE SInv'
    OBVIOUS
  <1>1. outbox' \in Seq(Stamped)
    BY OutboxHead DEF SInv, DropControl
  <1>2. UNCHANGED <<next, oldest, delivered, sent, frames, got, slots, retained, map, acks>>
    BY DEF DropControl, vars, txVars, rxVars, netVars
  <1> QED
    BY <1>1, <1>2 DEF SInv, Fixed, Commands, Retention, Truthful, FreedIsDelivered

\* The timers put retained frames on the wire again.
LEMMA TimersStep ==
    ASSUME NEW expired \in BOOLEAN, NEW out \in SUBSET DOMAIN slots, SInv, Timers(expired, out)
    PROVE  SInv'
  <1>1. UNCHANGED <<next, oldest, delivered, sent, outbox, got, slots, retained, map, acks>>
    BY DEF Timers, txVars, rxVars
  <1>2. \A i \in out : slots[i] \in {Frame(k) : k \in Stamped}
    <2> TAKE i \in out
    <2>1. i \in 0 .. Window - 1
      BY DEF SInv, Retention
    <2>2. slots[i].payload # Nothing
      BY DEF Timers, Overdue, Live
    <2>3. slots[i] = Frame(i)
      BY <2>1, <2>2 DEF SInv, Retention, FreeSlot
    <2> QED
      BY <2>1, <2>3 DEF SInv, Retention
  <1>3. frames' \subseteq {Frame(k) : k \in Stamped}
    BY <1>2 DEF Timers, SInv, Commands
  <1> QED
    BY <1>1, <1>3 DEF SInv, Fixed, Commands, Retention, Truthful, FreedIsDelivered

\* The peer takes a command, tracks it, acknowledges it and hands it over.
LEMMA TakeControlStep == ASSUME NEW f \in frames, SInv, TakeControl(f) PROVE SInv'
  <1>1. PICK n \in Stamped : f = Frame(n)
    BY DEF SInv, Commands
  <1>2. f.seq = n /\ f.payload = n /\ n \in Nat /\ n < M
    BY <1>1, FrameOf
  <1>3. UNCHANGED <<next, oldest, delivered, sent, outbox, slots, retained>> /\ got' = got \cup {n}
    BY <1>2 DEF TakeControl, txVars
  <1>4. frames' \subseteq frames
    BY DEF TakeControl
  <1>5. Fixed' /\ Commands'
    BY <1>3, <1>4 DEF SInv, Fixed, Commands
  <1>6. Retention' /\ FreedIsDelivered'
    BY <1>3 DEF SInv, Retention, FreedIsDelivered
  <1>7. map' \subseteq got'
    BY <1>2, <1>3, SubBase DEF TakeControl, Tracked, SInv, Truthful, Fixed
  <1>8. acks' \subseteq acks \cup {BuildAck(map')}
    BY DEF TakeControl
  <1>9. \A b \in map' : b \in Nat
    BY <1>5, <1>7 DEF Commands, Stamped
  <1>10. /\ BuildAck(map').base = 0
         /\ BuildAck(map').bitmap \subseteq Nat
         /\ \A i \in BuildAck(map').bitmap : i + 1 \in got'
    BY <1>7, <1>9 DEF BuildAck, SInv, Fixed
  <1>11. Truthful'
    BY <1>3, <1>7, <1>8, <1>10 DEF SInv, Truthful
  <1> QED
    BY <1>5, <1>6, <1>11 DEF SInv

\* Datagrams disappear.
LEMMA LossStep ==
    ASSUME SInv, frames' \subseteq frames, acks' \subseteq acks,
           UNCHANGED <<next, oldest, delivered, sent, outbox, got, slots, retained, map>>
    PROVE  SInv'
  BY DEF SInv, Fixed, Commands, Retention, Truthful, FreedIsDelivered

\* Every step of the service preserves the invariant.
LEMMA SInvStep == SInv /\ [ServiceNext]_allVars => SInv'
  <1> SUFFICES ASSUME SInv, [ServiceNext]_allVars PROVE SInv'
    OBVIOUS
  <1>1. CASE Approve
    BY <1>1, ApproveStep
  <1>2. ASSUME NEW ack \in acks, TakeAck(ack) PROVE SInv'
    BY <1>2, TakeAckStep
  <1>3. ASSUME NEW ack \in acks, RejectAck(ack) PROVE SInv'
    BY <1>3, LossStep DEF RejectAck, LoseAck, txVars, rxVars, serviceVars
  <1>4. CASE TakeBeacon
    BY <1>4, LossStep DEF TakeBeacon, vars, txVars, rxVars, netVars
  <1>5. CASE EndReceive
    BY <1>5, LossStep DEF EndReceive, vars, txVars, rxVars, netVars
  <1>6. ASSUME NEW ok \in BOOLEAN, SendControl(ok) PROVE SInv'
    BY <1>6, SendControlStep
  <1>7. CASE DropControl
    BY <1>7, DropControlStep
  <1>8. CASE EndOutbox
    BY <1>8, LossStep DEF EndOutbox, vars, txVars, rxVars, netVars
  <1>9. ASSUME NEW expired \in BOOLEAN, NEW out \in SUBSET DOMAIN slots, Timers(expired, out)
        PROVE  SInv'
    BY <1>9, TimersStep
  <1>10. ASSUME NEW f \in frames, TakeControl(f) PROVE SInv'
    BY <1>10, TakeControlStep
  <1>11. ASSUME NEW f \in frames, RejectFrame(f) PROVE SInv'
    BY <1>11, LossStep DEF RejectFrame, LoseFrame, txVars, rxVars, serviceVars
  <1>12. CASE UNCHANGED allVars
    BY <1>12, LossStep DEF allVars, vars, txVars, rxVars, netVars, serviceVars
  <1> QED
    BY <1>1, <1>2, <1>3, <1>4, <1>5, <1>6, <1>7, <1>8, <1>9, <1>10, <1>11, <1>12
       DEF ServiceNext, Background

-----------------------------------------------------------------------------
(* The theorem.                                                            *)

\* A command the service has freed is one the sink of its peer has got, for
\* every window and whatever the network does to frames and acknowledgements.
THEOREM FreedDelivered == ServiceSpec => []FreedIsDelivered
  <1>1. SInv => FreedIsDelivered
    BY DEF SInv
  <1> QED
    BY SInvInit, SInvStep, <1>1, PTL DEF ServiceSpec
=============================================================================
