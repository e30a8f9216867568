----------------------- MODULE ReliableChannelProofs -----------------------
(***************************************************************************)
(* Proofs about ReliableChannel, for every window, reorder window, number  *)
(* of sequence numbers and length of the stream: what the receiver hands   *)
(* over and holds back is the stream, and the sender lets go of a frame    *)
(* only when the receiver has it.                                          *)
(*                                                                         *)
(* The two ends know each other's position modulo M only.  The argument    *)
(* counts frames from the start of the stream instead and shows that all   *)
(* the distances that are ever compared stay short of M.                   *)
(***************************************************************************)
EXTENDS ReliableChannel, SequenceTheorems, WellFoundedInduction, TLAPS

-----------------------------------------------------------------------------
(* Arithmetic of the sequence numbers.                                     *)

\* The constants are natural numbers; the windows and the age of a datagram
\* are at most half the sequence space.
LEMMA Sizes ==
  /\ M \in Nat \ {0} /\ Window \in Nat \ {0} /\ SackBits \in Nat \ {0} /\ MaxAge \in Nat
  /\ MaxSend \in Nat /\ M \div 2 \in Nat /\ M = 2 * (M \div 2)
  /\ Window <= M \div 2 /\ SackBits <= M \div 2 /\ MaxAge <= M \div 2
<1>1. M \in Nat /\ M % 2 = 0
  BY ChannelAssumption
<1>2. M \div 2 \in Nat /\ M = 2 * (M \div 2)
  BY <1>1
<1>3. M # 0
  BY <1>2, ChannelAssumption
<1> QED BY <1>1, <1>2, <1>3, ChannelAssumption

\* A remainder is what any division leaves.
LEMMA ModIs ==
  ASSUME NEW n \in Nat \ {0}, NEW x \in Int, NEW q \in Int, NEW r \in 0 .. n - 1, x = n * q + r
  PROVE  x % n = r
<1>1. PICK p, s : p = x \div n /\ s = x % n
  OBVIOUS
<1>2. p \in Int /\ s \in 0 .. n - 1 /\ x = n * p + s
  BY <1>1
<1>3. r - s = n * (p - q)
  BY <1>2
<1>4. CASE p - q >= 1
  BY <1>2, <1>3, <1>4
<1>5. CASE p - q <= -1
  BY <1>2, <1>3, <1>5
<1>6. CASE p - q = 0
  BY <1>1, <1>2, <1>3, <1>6
<1> QED BY <1>2, <1>4, <1>5, <1>6

\* Quotient and remainder.
LEMMA Quotient ==
  ASSUME NEW n \in Nat \ {0}, NEW x \in Int
  PROVE  /\ x \div n \in Int /\ x % n \in 0 .. n - 1
         /\ x = n * (x \div n) + (x % n)
  OBVIOUS

\* Numbers less than n apart that leave the same remainder are equal.
LEMMA ModSame ==
  ASSUME NEW n \in Nat \ {0}, NEW a \in Nat, NEW b \in Nat, a % n = b % n, a - b < n, b - a < n
  PROVE  a = b
<1>1. PICK p, q, r : p = a \div n /\ q = b \div n /\ r = a % n
  OBVIOUS
<1>2. p \in Int /\ q \in Int /\ r \in 0 .. n - 1 /\ a = n * p + r /\ b = n * q + r
  BY <1>1, Quotient
<1>3. a - b = n * (p - q)
  BY <1>2
<1>4. CASE p - q >= 1
  BY <1>2, <1>3, <1>4
<1>5. CASE p - q <= -1
  BY <1>2, <1>3, <1>5
<1>6. CASE p - q = 0
  BY <1>3, <1>6
<1> QED BY <1>2, <1>4, <1>5, <1>6

\* wrapping_sub of two positions: the one ahead sees the distance, the one
\* behind its complement.
LEMMA SubAhead ==
  ASSUME NEW a \in Nat, NEW b \in Nat, b <= a, a - b < M
  PROVE  Sub(a % M, b % M) = a - b
<1>1. PICK p, q, r, s : p = a \div M /\ q = b \div M /\ r = a % M /\ s = b % M
  OBVIOUS
<1>2. /\ p \in Int /\ q \in Int /\ r \in Int /\ s \in Int /\ M \in Nat \ {0}
      /\ a = M * p + r /\ b = M * q + s
  BY <1>1, Quotient, Sizes
<1>3. r - s = M * (q - p) + (a - b)
  BY <1>2
<1>4. a - b \in 0 .. M - 1 /\ q - p \in Int /\ r - s \in Int
  BY <1>2
<1>5. (r - s) % M = a - b
  BY <1>2, <1>3, <1>4, ModIs
<1> QED BY <1>1, <1>5 DEF Sub

\* The wrapped difference of a number and one behind it.
LEMMA SubBehind ==
  ASSUME NEW a \in Nat, NEW b \in Nat, a < b, b - a < M
  PROVE  Sub(a % M, b % M) = M - (b - a)
<1>1. PICK p, q, r, s : p = a \div M /\ q = b \div M /\ r = a % M /\ s = b % M
  OBVIOUS
<1>2. /\ p \in Int /\ q \in Int /\ r \in Int /\ s \in Int /\ M \in Nat \ {0}
      /\ a = M * p + r /\ b = M * q + s
  BY <1>1, Quotient, Sizes
<1>3. r - s = M * (q - p - 1) + (M - (b - a))
  BY <1>2
<1>4. M - (b - a) \in 0 .. M - 1 /\ q - p - 1 \in Int /\ r - s \in Int
  BY <1>2
<1>5. (r - s) % M = M - (b - a)
  BY <1>2, <1>3, <1>4, ModIs
<1> QED BY <1>1, <1>5 DEF Sub

\* wrapping_add moves a position on.
LEMMA AddOn ==
  ASSUME NEW a \in Nat, NEW k \in Nat
  PROVE  Add(a % M, k) = (a + k) % M
<1>1. PICK p, r, q, s : p = a \div M /\ r = a % M /\ q = (a + k) \div M /\ s = (a + k) % M
  OBVIOUS
<1>2. /\ p \in Int /\ r \in Int /\ q \in Int /\ s \in 0 .. M - 1 /\ M \in Nat \ {0}
      /\ a = M * p + r /\ a + k = M * q + s
  <2>1. a + k \in Int /\ a \in Int /\ M \in Nat \ {0}
    BY Sizes
  <2> QED BY <1>1, <2>1, Quotient
<1>3. r + k = M * (q - p) + s
  BY <1>2
<1>4. q - p \in Int /\ r + k \in Int
  BY <1>2
<1>5. (r + k) % M = s
  BY <1>2, <1>3, <1>4, ModIs
<1> QED BY <1>1, <1>5 DEF Add

\* As the window divides the sequence space, a sequence number finds the slot
\* of its frame.
LEMMA SlotOfSeq ==
  ASSUME NEW a \in Nat
  PROVE  (a % M) % Window = a % Window
<1>1. PICK p, r, q, s, w :
         p = a \div M /\ r = a % M /\ q = r \div Window /\ s = r % Window /\ w = M \div Window
  OBVIOUS
<1>2. /\ p \in Int /\ r \in Int /\ q \in Int /\ s \in 0 .. Window - 1 /\ w \in Int
      /\ M \in Nat \ {0} /\ Window \in Nat \ {0}
      /\ a = M * p + r /\ r = Window * q + s
  <2>1. p \in Int /\ r \in Int /\ a = M * p + r
    BY <1>1, Quotient, Sizes
  <2>2. q \in Int /\ s \in 0 .. Window - 1 /\ r = Window * q + s
    BY <1>1, <2>1, Quotient, Sizes
  <2>3. w \in Int
    BY <1>1, Quotient, Sizes
  <2> QED BY <2>1, <2>2, <2>3, Sizes
<1>3. M = Window * w
  <2>1. M = Window * w + (M % Window) /\ M % Window = 0
    BY <1>1, Quotient, Sizes, ChannelAssumption
  <2> QED BY <1>2, <2>1
<1>4. a = (Window * w) * p + Window * q + s
  BY <1>2, <1>3
<1>5. (Window * w) * p + Window * q = Window * (w * p + q)
  BY <1>2
<1>6. PICK t : t = w * p + q
  OBVIOUS
<1>7. t \in Int /\ a = Window * t + s
  <2>1. t \in Int
    BY <1>2, <1>6
  <2>2. (Window * w) * p + Window * q = Window * t
    BY <1>5, <1>6, Zenon
  <2> QED BY <1>4, <2>1, <2>2, Zenon
<1>8. a % Window = s
  <2>1. a \in Int /\ Window \in Nat \ {0} /\ s \in 0 .. Window - 1
    BY <1>2
  <2> QED BY <1>7, <2>1, ModIs
<1> QED BY <1>1, <1>8

-----------------------------------------------------------------------------
(* The inductive invariant.                                                *)

\* Frame n has reached the receiver.
Received(n) == n < Len(delivered) \/ n - Len(delivered) \in map

\* low is the position of the sender's window in the stream, of which oldest
\* is the sequence number.  The receiver is inside the window.
Positions(low) ==
    /\ oldest = low % M /\ next = Len(delivered) % M
    /\ low <= Len(delivered) /\ Len(delivered) <= sent /\ sent - low <= Window

\* What a retention slot holds is a frame of the window, in its own slot.
SlotsInWindow(low) ==
    \A i \in 0 .. Window - 1 : Live(i) =>
       \E n \in low .. sent - 1 : slots[i] = Frame(n) /\ n % Window = i

\* Frames in the network are frames of the stream, none of them so old that
\* its sequence number could be taken for one ahead.
FramesOfStream ==
    \A f \in frames : \E n \in 0 .. sent - 1 : f = Frame(n) /\ Len(delivered) - n <= M \div 2

\* An acknowledgement tells the truth about a moment not long past.
AcksTruthful ==
    \A a \in acks :
       /\ a.base = a.at % M /\ a.at <= Len(delivered) /\ Len(delivered) - a.at <= MaxAge
       /\ \A i \in a.bitmap : Received(a.at + 1 + i)

\* The reorder window holds frames that were sent.
BitsSent == \A b \in map : Len(delivered) + b < sent

InvAt(low) == Positions(low) /\ SlotsInWindow(low)

ChannelInv ==
    /\ DeliveryExact /\ RetainedUntilReceived /\ FramesOfStream /\ AcksTruthful /\ BitsSent
    /\ \E low \in Nat : InvAt(low)

\* Nothing has been sent.
LEMMA ChannelInvInit == Init => ChannelInv
<1> SUFFICES ASSUME Init
             PROVE  ChannelInv
  OBVIOUS
<1>0. 0 % M = 0 /\ Len(delivered) = 0 /\ delivered = << >>
  BY Sizes DEF Init
<1>1. TypeOK
  <2>1. slots \in [0 .. Window - 1 -> [seq : Seq32, payload : Nat \cup {Nothing}]]
    BY Sizes DEF Init, FreeSlot, Seq32
  <2>2. rxSlots \in [Bits -> Nat \cup {Nothing}]
    BY DEF Init
  <2> QED BY <1>0, <2>1, <2>2, Sizes DEF Init, TypeOK, Seq32
<1>2. DeliveryExact /\ RetainedUntilReceived /\ FramesOfStream /\ AcksTruthful /\ BitsSent
  BY <1>0, <1>1 DEF Init, DeliveryExact, InOrderOnce, BitmapMatchesSlots, RetainedUntilReceived,
                    FramesOfStream, AcksTruthful, BitsSent
<1>3. InvAt(0)
  BY <1>0, Sizes DEF Init, InvAt, Positions, SlotsInWindow, Live, FreeSlot
<1> QED BY <1>2, <1>3 DEF ChannelInv

-----------------------------------------------------------------------------
(* Every action keeps it.                                                  *)

\* A frame of the stream has the type of a frame, and its seq and payload are
\* what Frame says.
LEMMA FrameType ==
  ASSUME NEW n \in Nat
  PROVE  /\ Frame(n) \in [seq : Seq32, payload : Nat] /\ Frame(n).seq = n % M /\ Frame(n).payload = n
         /\ n % M \in Seq32 /\ n % Window \in 0 .. Window - 1
<1>1. n % M \in 0 .. M - 1 /\ n % Window \in 0 .. Window - 1
  BY Sizes
<1> QED BY <1>1 DEF Frame, Seq32

\* What the positions amount to as numbers.
LEMMA InWindow ==
  ASSUME TypeOK, NEW low \in Nat, Positions(low)
  PROVE  /\ Len(delivered) \in Nat /\ sent \in Nat /\ low <= Len(delivered) /\ Len(delivered) <= sent
         /\ sent - low <= Window /\ sent - low < M /\ Len(delivered) - low <= Window
         /\ sent - Len(delivered) <= Window
<1>1. Len(delivered) \in Nat /\ sent \in Nat
  BY Sizes DEF TypeOK
<1> QED BY <1>1, Sizes DEF Positions

\* send: a new frame gets the next number and a slot of its own.
LEMMA SendKeeps ==
  ASSUME ChannelInv, Send
  PROVE  ChannelInv'
<1> USE DEF ChannelInv, DeliveryExact
<1>1. PICK low \in Nat : InvAt(low)
  OBVIOUS
<1>2. PICK D : D = Len(delivered)
  OBVIOUS
<1>3. /\ D \in Nat /\ sent \in Nat /\ low <= D /\ D <= sent /\ sent - low <= Window /\ sent - low < M
      /\ oldest = low % M /\ next = D % M
  BY <1>1, <1>2, InWindow DEF InvAt, Positions
<1>4. sent - low < Window
  <2>1. Sub(sent % M, oldest) = sent - low
    BY <1>3, SubAhead
  <2>2. ~(Sub(sent % M, oldest) >= Window)
    BY DEF Send, TxFull
  <2> QED BY <1>3, <2>1, <2>2, Sizes
<1>5. PICK i : i = sent % Window
  OBVIOUS
<1>6. /\ slots' = [slots EXCEPT ![i] = Frame(sent)] /\ frames' = frames \cup {Frame(sent)}
      /\ sent' = sent + 1 /\ sent < MaxSend
      /\ UNCHANGED <<oldest, next, map, rxSlots, delivered, acks>>
  BY <1>3, <1>5, SlotOfSeq DEF Send, rxVars
<1>7. Frame(sent) \in [seq : Seq32, payload : Nat] /\ i \in 0 .. Window - 1
  BY <1>3, <1>5, FrameType
<1>8. TypeOK'
  <2>1. slots' \in [0 .. Window - 1 -> [seq : Seq32, payload : Nat \cup {Nothing}]]
    BY <1>6, <1>7 DEF TypeOK
  <2>2. sent' \in 0 .. MaxSend
    BY <1>3, <1>6, Sizes
  <2> QED BY <1>6, <1>7, <2>1, <2>2 DEF TypeOK
<1>9. \A j \in 0 .. Window - 1 : slots'[j] = IF j = i THEN Frame(sent) ELSE slots[j]
  BY <1>6 DEF TypeOK
<1>10. ASSUME NEW n \in low .. sent - 1
       PROVE  n \in Nat /\ n % Window \in 0 .. Window - 1 /\ slots'[n % Window] = slots[n % Window]
  <2>1. n \in Nat /\ n - sent < Window /\ sent - n < Window /\ n # sent
    BY <1>3, <1>4, Sizes
  <2>2. n % Window # i
    BY <1>3, <1>5, <2>1, ModSame, Sizes
  <2>3. n % Window \in 0 .. Window - 1
    BY <2>1, FrameType
  <2> QED BY <1>9, <2>1, <2>2, <2>3
<1>11. RetainedUntilReceived'
  <2> SUFFICES ASSUME NEW n \in D .. sent
               PROVE  slots'[n % Window] = Frame(n) \/ \E b \in map : rxSlots[b] = n
    BY <1>2, <1>3, <1>6 DEF RetainedUntilReceived
  <2>1. CASE n = sent
    BY <1>5, <1>7, <1>9, <2>1
  <2>2. CASE n # sent
    <3>1. n \in low .. sent - 1 /\ n \in D .. sent - 1
      BY <1>3, <2>2
    <3> QED BY <1>2, <1>10, <3>1 DEF RetainedUntilReceived
  <2> QED BY <2>1, <2>2
<1>12. SlotsInWindow(low)'
  <2> SUFFICES ASSUME NEW j \in 0 .. Window - 1, slots'[j].payload # Nothing
               PROVE  \E n \in low .. sent' - 1 : slots'[j] = Frame(n) /\ n % Window = j
    BY DEF SlotsInWindow, Live
  <2>1. CASE j = i
    <3>1. sent \in low .. sent' - 1
      BY <1>3, <1>6
    <3> QED BY <1>5, <1>9, <2>1, <3>1
  <2>2. CASE j # i
    <3>1. slots'[j] = slots[j]
      BY <1>9, <2>2
    <3>2. PICK n \in low .. sent - 1 : slots[j] = Frame(n) /\ n % Window = j
      BY <1>1, <3>1 DEF InvAt, SlotsInWindow, Live
    <3>3. n \in low .. sent' - 1
      BY <1>3, <1>6
    <3> QED BY <3>1, <3>2, <3>3
  <2> QED BY <2>1, <2>2
<1>13. Positions(low)'
  BY <1>2, <1>3, <1>4, <1>6, Sizes DEF Positions
<1>14. FramesOfStream'
  <2>1. ASSUME NEW f \in frames
        PROVE  \E n \in 0 .. sent' - 1 : f = Frame(n) /\ D - n <= M \div 2
    <3>1. PICK n \in 0 .. sent - 1 : f = Frame(n) /\ D - n <= M \div 2
      BY <1>2 DEF FramesOfStream
    <3>2. n \in 0 .. sent' - 1
      BY <1>3, <1>6
    <3> QED BY <3>1, <3>2
  <2>2. sent \in 0 .. sent' - 1 /\ D - sent <= M \div 2
    BY <1>3, <1>6, Sizes
  <2> QED BY <1>2, <1>6, <2>1, <2>2 DEF FramesOfStream
<1>15. AcksTruthful' /\ InOrderOnce' /\ BitmapMatchesSlots'
  BY <1>6 DEF AcksTruthful, InOrderOnce, BitmapMatchesSlots, Received
<1>16. BitsSent'
  <2>1. \A b \in map : D + b < sent /\ b \in Nat
    BY <1>2 DEF BitsSent, TypeOK, Bits
  <2> QED BY <1>2, <1>3, <1>6, <2>1 DEF BitsSent
<1> QED BY <1>8, <1>11, <1>12, <1>13, <1>14, <1>15, <1>16 DEF InvAt

\* tick sends retained frames again.
LEMMA TickKeeps ==
  ASSUME ChannelInv, NEW overdue \in SUBSET DOMAIN slots, Tick(overdue)
  PROVE  ChannelInv'
<1> USE DEF ChannelInv, DeliveryExact
<1>1. PICK low \in Nat : InvAt(low)
  OBVIOUS
<1>2. /\ frames' = frames \cup {slots[i] : i \in overdue}
      /\ UNCHANGED <<sent, oldest, slots, next, map, rxSlots, delivered, acks>>
      /\ \A i \in overdue : Live(i) /\ i \in 0 .. Window - 1
  BY DEF Tick, txVars, rxVars, TypeOK
<1>3. ASSUME NEW i \in overdue
      PROVE  \E n \in 0 .. sent - 1 : slots[i] = Frame(n) /\ Len(delivered) - n <= M \div 2
  <2>1. PICK n \in low .. sent - 1 : slots[i] = Frame(n)
    BY <1>1, <1>2 DEF InvAt, SlotsInWindow
  <2>2. n \in 0 .. sent - 1 /\ Len(delivered) - n <= M \div 2
    BY <1>1, InWindow, Sizes DEF InvAt
  <2> QED BY <2>1, <2>2
<1>4. FramesOfStream'
  BY <1>2, <1>3 DEF FramesOfStream
<1>5. TypeOK'
  <2>1. ASSUME NEW i \in overdue
        PROVE  slots[i] \in [seq : Seq32, payload : Nat]
    <3>1. sent \in Nat
      BY DEF TypeOK
    <3>2. PICK n \in 0 .. sent - 1 : slots[i] = Frame(n)
      BY <1>3
    <3> QED BY <3>1, <3>2, FrameType
  <2> QED BY <1>2, <2>1 DEF TypeOK
<1>6. InvAt(low)' /\ RetainedUntilReceived' /\ AcksTruthful' /\ BitsSent' /\ InOrderOnce' /\ BitmapMatchesSlots'
  BY <1>1, <1>2 DEF InvAt, Positions, SlotsInWindow, Live, RetainedUntilReceived, AcksTruthful, Received,
                    BitsSent, InOrderOnce, BitmapMatchesSlots
<1> QED BY <1>4, <1>5, <1>6

\* What on_ack does, counted from the start of the stream: the window moves to
\* a position the receiver has reached, and a slot that is freed held a frame
\* before that position, or one that was received.
LEMMA AckMoves ==
  ASSUME ChannelInv, NEW ack \in acks, OnAck(ack), NEW low \in Nat, InvAt(low)
  PROVE  \E top \in Nat :
            /\ low <= top /\ top <= Len(delivered) /\ oldest' = top % M
            /\ slots' \in [0 .. Window - 1 -> [seq : Seq32, payload : Nat \cup {Nothing}]]
            /\ \A i \in 0 .. Window - 1 : slots'[i].payload # Nothing => slots'[i] = slots[i]
            /\ \A n \in low .. top - 1 : slots'[n % Window].payload = Nothing
            /\ \A n \in Len(delivered) .. sent - 1 :
                  slots[n % Window] = Frame(n) => slots'[n % Window] = Frame(n) \/ Received(n)
<1> USE DEF ChannelInv, DeliveryExact
<1>1. PICK D, A, B : D = Len(delivered) /\ A = ack.at /\ B = ack.bitmap
  OBVIOUS
<1>2. /\ D \in Nat /\ sent \in Nat /\ low <= D /\ D <= sent /\ sent - low <= Window /\ sent - low < M
      /\ oldest = low % M
  BY <1>1, InWindow DEF InvAt, Positions
<1>3. /\ A \in Nat /\ A <= D /\ D - A <= MaxAge /\ ack.base = A % M
      /\ B \subseteq Nat /\ \A i \in B : Received(A + 1 + i)
  BY <1>1 DEF AcksTruthful, TypeOK
<1>4. PICK adv : adv = Advance(ack.base)
  OBVIOUS
<1>5. adv \in Nat /\ (adv = 0 \/ adv = A - low) /\ low + adv <= D
  <2>1. CASE low <= A
    <3>0. A - low < M
      BY <1>2, <1>3, Sizes
    <3>1. Sub(ack.base, oldest) = A - low
      BY <1>2, <1>3, <2>1, <3>0, SubAhead
    <3> QED BY <1>2, <1>3, <1>4, <2>1, <3>1, Sizes DEF Advance
  <2>2. CASE A < low
    <3>1. low - A <= M \div 2 /\ low - A < M
      BY <1>2, <1>3, <2>2, Sizes
    <3>2. Sub(ack.base, oldest) = M - (low - A)
      BY <1>2, <1>3, <2>2, <3>1, SubBehind
    <3>3. ~(Sub(ack.base, oldest) < Window)
      BY <1>2, <1>3, <3>1, <3>2, Sizes
    <3> QED BY <1>2, <1>4, <3>3 DEF Advance
  <2> QED BY <1>2, <1>3, <2>1, <2>2
<1>6. PICK top : top = low + adv
  OBVIOUS
<1>7. top \in Nat /\ low <= top /\ top <= D
  BY <1>2, <1>5, <1>6
<1>8. PICK l : l = Add(oldest, adv)
  OBVIOUS
<1>9. l = top % M
  BY <1>2, <1>5, <1>6, <1>8, AddOn
<1>10. PICK cum, sacks, freed :
          /\ cum = {Add(oldest, k) % Window : k \in 0 .. adv - 1}
          /\ sacks = {x \in Sacked(ack) : Sub(x, l) < Window /\ slots[x % Window].seq = x}
          /\ freed = cum \cup {x % Window : x \in sacks}
  OBVIOUS
<1>11. /\ oldest' = l
       /\ slots' = [i \in DOMAIN slots |-> IF i \in freed THEN FreeSlot(slots[i].seq) ELSE slots[i]]
  BY <1>4, <1>8, <1>10 DEF OnAck
<1>12. cum = {n % Window : n \in low .. top - 1}
  <2>1. ASSUME NEW k \in 0 .. adv - 1
        PROVE  Add(oldest, k) % Window = (low + k) % Window /\ low + k \in low .. top - 1
    <3>1. k \in Nat /\ low + k \in Nat
      BY <1>5
    <3>2. Add(oldest, k) = (low + k) % M
      BY <1>2, <3>1, AddOn
    <3> QED BY <1>5, <1>6, <3>1, <3>2, SlotOfSeq
  <2>2. ASSUME NEW n \in low .. top - 1
        PROVE  n - low \in 0 .. adv - 1 /\ low + (n - low) = n
    BY <1>5, <1>6
  <2>3. \A x \in cum : x \in {n % Window : n \in low .. top - 1}
    BY <1>10, <2>1
  <2>4. ASSUME NEW n \in low .. top - 1
        PROVE  n % Window \in cum
    <3>1. PICK k \in 0 .. adv - 1 : low + k = n
      BY <2>2
    <3>2. Add(oldest, k) % Window = n % Window
      BY <2>1, <3>1
    <3> QED BY <1>10, <3>2
  <2> QED BY <2>3, <2>4
<1>13. \A i \in 0 .. Window - 1 :
          slots'[i] = IF i \in freed THEN FreeSlot(slots[i].seq) ELSE slots[i]
  BY <1>11 DEF TypeOK
<1>14. \A i \in 0 .. Window - 1 :
          /\ FreeSlot(slots[i].seq) \in [seq : Seq32, payload : Nat \cup {Nothing}]
          /\ FreeSlot(slots[i].seq).payload = Nothing
  BY DEF TypeOK, FreeSlot
<1>15. slots' \in [0 .. Window - 1 -> [seq : Seq32, payload : Nat \cup {Nothing}]]
  BY <1>11, <1>14 DEF TypeOK
<1>16. \A i \in 0 .. Window - 1 : slots'[i].payload # Nothing => slots'[i] = slots[i]
  BY <1>13, <1>14
<1>17. \A n \in low .. top - 1 : slots'[n % Window].payload = Nothing
  <2> TAKE n \in low .. top - 1
  <2>1. n \in Nat
    BY <1>7
  <2>2. n % Window \in 0 .. Window - 1 /\ n % Window \in freed
    BY <1>10, <1>12, <2>1, FrameType
  <2> QED BY <1>13, <1>14, <2>2
<1>18. ASSUME NEW n \in D .. sent - 1, slots[n % Window] = Frame(n), ~Received(n)
       PROVE  slots'[n % Window] = Frame(n)
  <2>1. n \in Nat /\ n % Window \in 0 .. Window - 1 /\ Frame(n).seq = n % M
    <3>1. n \in Nat
      BY <1>2
    <3> QED BY <3>1, FrameType
  <2>2. n % Window \notin cum
    <3> SUFFICES ASSUME NEW m \in low .. top - 1, m % Window = n % Window
                 PROVE  FALSE
      BY <1>12
    <3>1. m \in Nat /\ m < n /\ n - m < Window /\ m - n < Window
      BY <1>2, <1>7, Sizes
    <3>2. Window \in Nat \ {0} /\ m = n
      BY <2>1, <3>1, ModSame, Sizes
    <3> QED BY <2>1, <3>1, <3>2
  <2>3. ASSUME NEW x \in sacks, x % Window = n % Window
        PROVE  FALSE
    <3>1. PICK i \in B : x = Add(ack.base, 1 + i)
      BY <1>1, <1>10 DEF Sacked
    <3>2. PICK b : b = A + 1 + i
      OBVIOUS
    <3>3. i \in Nat /\ b \in Nat /\ Received(b) /\ 1 + i \in Nat /\ A + (1 + i) = b
      BY <1>3, <3>1, <3>2
    <3>4. x = b % M
      BY <1>3, <3>1, <3>3, AddOn
    <3>5. slots[x % Window].seq = x
      BY <1>10
    <3>6. b % M = n % M
      BY <1>18, <2>1, <2>3, <3>4, <3>5
    <3>7. b < sent
      <4>1. CASE b < Len(delivered)
        BY <1>1, <1>2, <3>3, <4>1
      <4>2. CASE b - Len(delivered) \in map
        <5>1. Len(delivered) + (b - Len(delivered)) < sent
          BY <4>2 DEF BitsSent
        <5> QED BY <1>1, <1>2, <3>3, <5>1
      <4> QED BY <3>3, <4>1, <4>2 DEF Received
    <3>8. b - n < M /\ n - b < M
      BY <1>2, <1>3, <2>1, <3>2, <3>3, <3>7, Sizes
    <3>9. b = n
      BY <2>1, <3>3, <3>6, <3>8, ModSame, Sizes
    <3> QED BY <1>18, <3>3, <3>9
  <2>4. n % Window \notin freed
    BY <1>10, <2>2, <2>3
  <2> QED BY <1>13, <1>18, <2>1, <2>4
<1> QED BY <1>1, <1>7, <1>9, <1>11, <1>15, <1>16, <1>17, <1>18

\* on_ack frees only what the receiver has.
LEMMA ReceiveAckKeeps ==
  ASSUME ChannelInv, NEW ack \in acks, ReceiveAck(ack)
  PROVE  ChannelInv'
<1> USE DEF ChannelInv, DeliveryExact
<1>1. PICK low \in Nat : InvAt(low)
  OBVIOUS
<1>2. /\ OnAck(ack) /\ acks' \subseteq acks
      /\ UNCHANGED <<sent, next, map, rxSlots, delivered, frames>>
  BY DEF ReceiveAck, rxVars
<1>3. PICK top \in Nat :
            /\ low <= top /\ top <= Len(delivered) /\ oldest' = top % M
            /\ slots' \in [0 .. Window - 1 -> [seq : Seq32, payload : Nat \cup {Nothing}]]
            /\ \A i \in 0 .. Window - 1 : slots'[i].payload # Nothing => slots'[i] = slots[i]
            /\ \A n \in low .. top - 1 : slots'[n % Window].payload = Nothing
            /\ \A n \in Len(delivered) .. sent - 1 :
                  slots[n % Window] = Frame(n) => slots'[n % Window] = Frame(n) \/ Received(n)
  BY <1>1, <1>2, AckMoves
<1>4. /\ Len(delivered) \in Nat /\ sent \in Nat /\ low <= Len(delivered) /\ Len(delivered) <= sent
      /\ sent - low <= Window /\ next = Len(delivered) % M
  BY <1>1, InWindow DEF InvAt, Positions
<1>5. TypeOK'
  <2>1. top % M \in Seq32
    BY FrameType
  <2> QED BY <1>2, <1>3, <2>1 DEF TypeOK
<1>6. InvAt(top)'
  <2>1. Positions(top)'
    BY <1>2, <1>3, <1>4, Sizes DEF Positions
  <2>2. ASSUME NEW i \in 0 .. Window - 1, slots'[i].payload # Nothing
        PROVE  \E n \in top .. sent' - 1 : slots'[i] = Frame(n) /\ n % Window = i
    <3>1. slots'[i] = slots[i]
      BY <1>3, <2>2
    <3>2. PICK n \in low .. sent - 1 : slots[i] = Frame(n) /\ n % Window = i
      BY <1>1, <2>2, <3>1 DEF InvAt, SlotsInWindow, Live
    <3>3. n \notin low .. top - 1
      BY <1>3, <2>2, <3>2
    <3>4. n \in top .. sent' - 1
      BY <1>2, <1>3, <1>4, <3>3
    <3> QED BY <3>1, <3>2, <3>4
  <2> QED BY <2>1, <2>2 DEF InvAt, SlotsInWindow, Live
<1>7. RetainedUntilReceived'
  <2> SUFFICES ASSUME NEW n \in Len(delivered) .. sent - 1
               PROVE  slots'[n % Window] = Frame(n) \/ \E b \in map : rxSlots[b] = n
    BY <1>2 DEF RetainedUntilReceived
  <2>1. ASSUME Received(n)
        PROVE  \E b \in map : rxSlots[b] = n
    <3>1. n - Len(delivered) \in map
      BY <1>4, <2>1 DEF Received
    <3>2. rxSlots[n - Len(delivered)] = n
      BY <1>4, <3>1 DEF BitmapMatchesSlots
    <3> QED BY <3>1, <3>2
  <2> QED BY <1>3, <2>1 DEF RetainedUntilReceived
<1>8. FramesOfStream' /\ AcksTruthful' /\ BitsSent' /\ InOrderOnce' /\ BitmapMatchesSlots'
  BY <1>2 DEF FramesOfStream, AcksTruthful, Received, BitsSent, InOrderOnce, BitmapMatchesSlots
<1> QED BY <1>5, <1>6, <1>7, <1>8

\* Where a frame of the stream lies relative to the receiver decides whether
\* accept takes it: an old one never.
LEMMA AcceptsAhead ==
  ASSUME ChannelInv, NEW n \in 0 .. sent - 1, Len(delivered) - n <= M \div 2, Accepts(n % M)
  PROVE  /\ Len(delivered) <= n /\ Sub(n % M, next) = n - Len(delivered)
         /\ n - Len(delivered) \in 0 .. SackBits - 1
<1> USE DEF ChannelInv, DeliveryExact
<1>1. PICK low \in Nat : InvAt(low)
  OBVIOUS
<1>2. PICK D : D = Len(delivered)
  OBVIOUS
<1>3. D \in Nat /\ sent \in Nat /\ D <= sent /\ sent - D <= Window /\ next = D % M /\ n \in Nat
  BY <1>1, <1>2, InWindow DEF InvAt, Positions
<1>4. CASE D <= n
  <2>1. n - D < M
    BY <1>3, Sizes
  <2>2. Sub(n % M, next) = n - D
    BY <1>3, <1>4, <2>1, SubAhead
  <2>3. Sub(n % M, next) < SackBits
    BY DEF Accepts
  <2> QED BY <1>2, <1>3, <1>4, <2>2, <2>3, Sizes
<1>5. CASE n < D
  <2>1. D - n < M /\ D - n <= M \div 2
    BY <1>2, <1>3, <1>5, Sizes
  <2>2. Sub(n % M, next) = M - (D - n)
    BY <1>3, <1>5, <2>1, SubBehind
  <2>3. Sub(n % M, next) < M \div 2
    BY DEF Accepts
  <2> QED BY <1>3, <2>1, <2>2, <2>3, Sizes
<1> QED BY <1>3, <1>4, <1>5

\* accept: late, early and repeated frames are told apart.
LEMMA ReceiveFrameKeeps ==
  ASSUME ChannelInv, NEW f \in frames, ReceiveFrame(f)
  PROVE  ChannelInv'
<1> USE DEF ChannelInv, DeliveryExact
<1>1. PICK low \in Nat : InvAt(low)
  OBVIOUS
<1>2. PICK D : D = Len(delivered)
  OBVIOUS
<1>3. D \in Nat /\ sent \in Nat
  BY <1>1, <1>2, InWindow DEF InvAt
<1>4. frames' \subseteq frames /\ UNCHANGED <<sent, oldest, slots, next, delivered, acks>>
  BY DEF ReceiveFrame, txVars
<1>5. InvAt(low)' /\ InOrderOnce' /\ FramesOfStream'
  BY <1>1, <1>4 DEF InvAt, Positions, SlotsInWindow, Live, InOrderOnce, FramesOfStream
<1>6. CASE ~Accepts(f.seq)
  <2>1. UNCHANGED <<map, rxSlots>>
    BY <1>6 DEF ReceiveFrame
  <2>2. TypeOK' /\ RetainedUntilReceived' /\ AcksTruthful' /\ BitsSent' /\ BitmapMatchesSlots'
    BY <1>4, <2>1 DEF TypeOK, RetainedUntilReceived, AcksTruthful, Received, BitsSent, BitmapMatchesSlots
  <2> QED BY <1>5, <2>2
<1>7. CASE Accepts(f.seq)
  <2>1. PICK n \in 0 .. sent - 1 : f = Frame(n) /\ D - n <= M \div 2
    BY <1>2 DEF FramesOfStream
  <2>2. n \in Nat /\ f.seq = n % M /\ f.payload = n
    BY <1>3, <2>1, FrameType
  <2>3. PICK bit : bit = n - D
    OBVIOUS
  <2>4. D <= n /\ Sub(f.seq, next) = bit /\ bit \in 0 .. SackBits - 1
    BY <1>2, <1>7, <2>1, <2>2, <2>3, AcceptsAhead
  <2>5. bit % SackBits = bit
    BY <2>4, Sizes
  <2>6. map' = map \cup {bit} /\ rxSlots' = [rxSlots EXCEPT ![bit] = n] /\ bit \notin map
    BY <1>7, <2>2, <2>4, <2>5 DEF ReceiveFrame, Accepts
  <2>7. /\ bit \in Bits /\ D + bit = n /\ rxSlots'[bit] = n
        /\ \A b \in map : rxSlots'[b] = rxSlots[b]
    BY <1>3, <2>2, <2>3, <2>4, <2>6 DEF TypeOK, Bits
  <2>8. TypeOK'
    <3>1. rxSlots' \in [Bits -> Nat \cup {Nothing}] /\ map' \subseteq Bits
      BY <2>2, <2>6, <2>7 DEF TypeOK
    <3> QED BY <1>4, <3>1 DEF TypeOK
  <2>9. BitmapMatchesSlots'
    BY <1>2, <1>4, <2>6, <2>7 DEF BitmapMatchesSlots
  <2>10. RetainedUntilReceived'
    BY <1>4, <2>6, <2>7 DEF RetainedUntilReceived
  <2>11. AcksTruthful'
    BY <1>4, <2>6 DEF AcksTruthful, Received
  <2>12. BitsSent'
    BY <1>2, <1>3, <1>4, <2>1, <2>6, <2>7 DEF BitsSent
  <2> QED BY <1>5, <2>8, <2>9, <2>10, <2>11, <2>12
<1> QED BY <1>6, <1>7

\* A set of numbers has a least one.
LEMMA LeastOf ==
  ASSUME NEW T, T \subseteq Nat, T # {}
  PROVE  \E x \in T : \A y \in T : x <= y
<1>1. PICK x \in T : \A y \in T : ~(<<y, x>> \in OpToRel(<, Nat))
  BY NatLessThanWellFounded, WFMin
<1>2. ASSUME NEW a \in Nat, NEW b \in Nat, a < b
      PROVE  <<a, b>> \in OpToRel(<, Nat)
  BY <1>2, Zenon DEF OpToRel
<1>3. ASSUME NEW y \in T
      PROVE  x <= y
  <2>1. ~(y < x)
    BY <1>1, <1>2, Zenon
  <2> QED BY <2>1
<1> QED BY <1>3

\* The ready chain ends at the first frame that is missing.
LEMMA ReadyChainEnds ==
  ASSUME TypeOK
  PROVE  /\ ReadyChain \in 0 .. SackBits
         /\ \A i \in 0 .. ReadyChain - 1 : i \in map
<1>1. PICK T : T = {i \in 0 .. SackBits : i \notin map}
  OBVIOUS
<1>2. SackBits \in T /\ T \subseteq Nat
  BY <1>1, Sizes DEF TypeOK, Bits
<1>3. PICK k \in T : \A i \in T : k <= i
  BY <1>2, LeastOf
<1>4. k \in 0 .. SackBits /\ k \notin map
  BY <1>1
<1>5. ASSUME NEW i \in 0 .. k - 1
      PROVE  i \in map
  BY <1>1, <1>3, <1>4, Sizes
<1>6. \E j \in 0 .. SackBits : (\A i \in 0 .. j - 1 : i \in map) /\ j \notin map
  BY <1>4, <1>5
<1> QED BY <1>6 DEF ReadyChain

\* drain hands on what is next in line.
LEMMA DrainKeeps ==
  ASSUME ChannelInv, Drain
  PROVE  ChannelInv'
<1> USE DEF ChannelInv, DeliveryExact
<1>1. PICK low \in Nat : InvAt(low)
  OBVIOUS
<1>2. PICK D, k : D = Len(delivered) /\ k = ReadyChain
  OBVIOUS
<1>3. k \in 1 .. SackBits /\ \A i \in 0 .. k - 1 : i \in map
  <2>1. k > 0
    BY <1>2 DEF Drain
  <2> QED BY <1>2, <2>1, ReadyChainEnds, Sizes
<1>4. /\ D \in Nat /\ sent \in Nat /\ low <= D /\ D <= sent /\ sent - low <= Window
      /\ oldest = low % M /\ next = D % M
  BY <1>1, <1>2, InWindow DEF InvAt, Positions
<1>5. PICK chain : chain = [i \in 1 .. k |-> rxSlots[i - 1]]
  OBVIOUS
<1>6. /\ delivered' = delivered \o chain
      /\ map' = {b - k : b \in {c \in map : c >= k}}
      /\ rxSlots' = Shift(k) /\ next' = Add(next, k)
      /\ frames' = Young(Len(delivered')) /\ acks' = YoungAcks(Len(delivered'))
      /\ UNCHANGED <<sent, oldest, slots>>
  BY <1>2, <1>5 DEF Drain, txVars
<1>7. ASSUME NEW b \in map
      PROVE  b \in 0 .. SackBits - 1 /\ rxSlots[b] = D + b /\ D + b < sent
  BY <1>2 DEF TypeOK, Bits, BitmapMatchesSlots, BitsSent
<1>8. \A i \in 1 .. k : i - 1 \in 0 .. k - 1 /\ chain[i] = D + i - 1
  <2> TAKE i \in 1 .. k
  <2>1. i - 1 \in 0 .. k - 1
    BY <1>3
  <2>2. rxSlots[i - 1] = D + (i - 1)
    BY <1>3, <1>7, <2>1
  <2> QED BY <1>3, <1>4, <1>5, <2>1, <2>2
<1>9. chain \in Seq(Nat) /\ Len(chain) = k
  <2>1. \A i \in 1 .. k : chain[i] \in Nat
    BY <1>3, <1>4, <1>8
  <2> QED BY <1>3, <1>5, <2>1
<1>10. /\ delivered' \in Seq(Nat) /\ Len(delivered') = D + k
       /\ \A i \in 1 .. D + k : delivered'[i] = IF i <= D THEN delivered[i] ELSE chain[i - D]
  <2>1. delivered \in Seq(Nat)
    BY DEF TypeOK
  <2>2. /\ delivered \o chain \in Seq(Nat) /\ Len(delivered \o chain) = Len(delivered) + Len(chain)
        /\ \A i \in 1 .. Len(delivered) + Len(chain) :
              (delivered \o chain)[i] = IF i <= Len(delivered) THEN delivered[i] ELSE chain[i - Len(delivered)]
    BY <1>9, <2>1, ConcatProperties, Zenon
  <2> QED BY <1>2, <1>6, <1>9, <2>2, Zenon
<1>11. InOrderOnce'
  <2> SUFFICES ASSUME NEW i \in 1 .. D + k
               PROVE  delivered'[i] = i - 1
    BY <1>10 DEF InOrderOnce
  <2>1. CASE i <= D
    BY <1>2, <1>4, <1>10, <2>1 DEF InOrderOnce
  <2>2. CASE ~(i <= D)
    <3>1. i - D \in 1 .. k
      BY <1>3, <1>4, <2>2
    <3>2. chain[i - D] = D + (i - D) - 1
      BY <1>8, <3>1
    <3> QED BY <1>3, <1>4, <1>10, <2>2, <3>2
  <2> QED BY <2>1, <2>2
<1>12. ASSUME NEW b \in map, b >= k
       PROVE  b - k \in map' /\ b - k \in Bits
  <2>1. b \in 0 .. SackBits - 1
    BY <1>7
  <2>2. b - k \in Bits
    BY <1>3, <1>12, <2>1, Sizes DEF Bits
  <2> QED BY <1>6, <1>12, <2>2
<1>13. ASSUME NEW c \in map'
       PROVE  c \in Bits /\ c + k \in map /\ rxSlots'[c] = D + k + c /\ D + k + c < sent
  <2>1. PICK b \in map : b >= k /\ c = b - k
    BY <1>6
  <2>2. c \in Bits /\ c + k = b /\ c + k \in Bits
    <3>1. b \in 0 .. SackBits - 1
      BY <1>7
    <3> QED BY <1>3, <2>1, <3>1, Sizes DEF Bits
  <2>3. rxSlots'[c] = rxSlots[b]
    BY <1>6, <2>2 DEF Shift
  <2>4. rxSlots[b] = D + b /\ D + b < sent
    BY <1>7
  <2> QED BY <1>3, <1>4, <2>1, <2>2, <2>3, <2>4 DEF Bits
<1>14. D + k <= sent /\ D + k \in Nat
  <2>1. k - 1 \in map
    BY <1>3
  <2> QED BY <1>3, <1>4, <1>7, <2>1
<1>15. BitmapMatchesSlots' /\ BitsSent'
  BY <1>6, <1>10, <1>13 DEF BitmapMatchesSlots, BitsSent
<1>16. TypeOK'
  <2>1. next' = (D + k) % M /\ next' \in Seq32
    BY <1>3, <1>4, <1>6, <1>14, AddOn, FrameType
  <2>2. rxSlots' \in [Bits -> Nat \cup {Nothing}]
    BY <1>6 DEF Shift, TypeOK
  <2>3. map' \subseteq Bits
    BY <1>13
  <2>4. frames' \subseteq frames /\ acks' \subseteq acks
    BY <1>6 DEF Young, YoungAcks
  <2> QED BY <1>6, <1>10, <2>1, <2>2, <2>3, <2>4 DEF TypeOK
<1>17. InvAt(low)'
  <2>1. next' = (D + k) % M
    BY <1>3, <1>4, <1>6, AddOn
  <2>2. Positions(low)'
    BY <1>3, <1>4, <1>6, <1>10, <1>14, <2>1, Sizes DEF Positions
  <2>3. SlotsInWindow(low)'
    BY <1>1, <1>6 DEF InvAt, SlotsInWindow, Live
  <2> QED BY <2>2, <2>3 DEF InvAt
<1>18. RetainedUntilReceived'
  <2> SUFFICES ASSUME NEW n \in D + k .. sent - 1
               PROVE  slots[n % Window] = Frame(n) \/ \E c \in map' : rxSlots'[c] = n
    BY <1>6, <1>10 DEF RetainedUntilReceived
  <2>1. n \in D .. sent - 1
    BY <1>3, <1>4
  <2>2. ASSUME NEW b \in map, rxSlots[b] = n
        PROVE  \E c \in map' : rxSlots'[c] = n
    <3>1. D + b = n /\ b \in Nat /\ b >= k
      BY <1>3, <1>4, <1>7, <2>2
    <3>2. b - k \in map'
      BY <1>12, <3>1
    <3>3. rxSlots'[b - k] = D + k + (b - k)
      BY <1>13, <3>2
    <3>4. D + k + (b - k) = n
      BY <1>3, <1>4, <3>1
    <3> QED BY <3>2, <3>3, <3>4
  <2> QED BY <1>2, <2>1, <2>2 DEF RetainedUntilReceived
<1>19. FramesOfStream'
  <2> SUFFICES ASSUME NEW f \in frames'
               PROVE  \E n \in 0 .. sent - 1 : f = Frame(n) /\ (D + k) - n <= M \div 2
    BY <1>6, <1>10 DEF FramesOfStream
  <2>1. f \in frames /\ (D + k) - f.payload <= MaxAge
    BY <1>6, <1>10 DEF Young
  <2>2. PICK n \in 0 .. sent - 1 : f = Frame(n)
    BY <2>1 DEF FramesOfStream
  <2>3. f.payload = n /\ n \in Nat
    BY <1>4, <2>2, FrameType
  <2>4. (D + k) - n <= M \div 2
    BY <1>14, <2>1, <2>3, Sizes
  <2> QED BY <2>2, <2>4
<1>20. AcksTruthful'
  <2>0. Len(delivered') = D + k
    BY <1>10
  <2> SUFFICES ASSUME NEW a \in acks'
               PROVE  /\ a.base = a.at % M /\ a.at <= D + k /\ (D + k) - a.at <= MaxAge
                      /\ \A i \in a.bitmap : a.at + 1 + i < D + k \/ (a.at + 1 + i) - (D + k) \in map'
    BY <2>0, Zenon DEF AcksTruthful, Received
  <2>1. a \in acks /\ (D + k) - a.at <= MaxAge
    BY <1>6, <1>10 DEF YoungAcks
  <2>2. a.at \in Nat /\ a.bitmap \subseteq Nat /\ a.base = a.at % M /\ a.at <= D
    BY <1>2, <2>1 DEF AcksTruthful, TypeOK
  <2>3. ASSUME NEW i \in a.bitmap
        PROVE  a.at + 1 + i < D + k \/ (a.at + 1 + i) - (D + k) \in map'
    <3>1. PICK n : n = a.at + 1 + i
      OBVIOUS
    <3>2. n \in Nat /\ (n < D \/ n - D \in map)
      BY <1>2, <2>1, <2>2, <3>1 DEF AcksTruthful, Received
    <3>4. ASSUME ~(n < D + k)
          PROVE  n - (D + k) \in map'
      <4>1. n - D \in map /\ n - D >= k
        BY <1>3, <1>4, <3>2, <3>4
      <4>2. (n - D) - k \in map'
        BY <1>12, <4>1
      <4>3. (n - D) - k = n - (D + k)
        BY <1>3, <1>4, <3>2
      <4> QED BY <4>2, <4>3, Zenon
    <3> QED BY <3>1, <3>4, Zenon
  <2> QED BY <1>3, <1>4, <2>1, <2>2, <2>3
<1> QED BY <1>11, <1>15, <1>16, <1>17, <1>18, <1>19, <1>20

\* build_ack tells what has arrived.
LEMMA SendAckKeeps ==
  ASSUME ChannelInv, SendAck
  PROVE  ChannelInv'
<1> USE DEF ChannelInv, DeliveryExact
<1>1. PICK low \in Nat : InvAt(low)
  OBVIOUS
<1>2. PICK D, a : D = Len(delivered) /\ a = BuildAck(map)
  OBVIOUS
<1>3. acks' = acks \cup {a} /\ UNCHANGED <<sent, oldest, slots, next, map, rxSlots, delivered, frames>>
  BY <1>2 DEF SendAck, txVars, rxVars
<1>4. D \in Nat /\ next = D % M /\ next \in Seq32 /\ map \subseteq Nat
  BY <1>1, <1>2, InWindow DEF InvAt, Positions, TypeOK, Bits
<1>5. a.base = next /\ a.at = D /\ a.bitmap = {b - 1 : b \in map \ {0}}
  BY <1>2 DEF BuildAck
<1>6. a \in [base : Seq32, bitmap : SUBSET Nat, at : Nat]
  <2>1. {b - 1 : b \in map \ {0}} \subseteq Nat
    BY <1>4
  <2> QED BY <1>2, <1>4, <2>1 DEF BuildAck
<1>7. TypeOK'
  BY <1>3, <1>6 DEF TypeOK
<1>8. ASSUME NEW i \in a.bitmap
      PROVE  Received(D + 1 + i)
  <2>1. PICK b \in map : b # 0 /\ i = b - 1
    BY <1>5
  <2>2. D + 1 + i - D = b
    BY <1>4, <2>1
  <2> QED BY <1>2, <2>1, <2>2 DEF Received
<1>9. AcksTruthful'
  <2>1. \A i \in a.bitmap : Received(a.at + 1 + i)
    BY <1>5, <1>8
  <2>2. a.at <= D /\ D - a.at <= MaxAge
    BY <1>4, <1>5, Sizes
  <2> QED BY <1>2, <1>3, <1>4, <1>5, <2>1, <2>2 DEF AcksTruthful, Received
<1>10. InvAt(low)' /\ RetainedUntilReceived' /\ FramesOfStream' /\ BitsSent' /\ InOrderOnce'
       /\ BitmapMatchesSlots'
  BY <1>1, <1>3 DEF InvAt, Positions, SlotsInWindow, Live, RetainedUntilReceived, FramesOfStream,
                    BitsSent, InOrderOnce, BitmapMatchesSlots
<1> QED BY <1>7, <1>9, <1>10

\* Losing datagrams takes nothing away from the invariant.
LEMMA LossKeeps ==
  ASSUME ChannelInv, frames' \subseteq frames, acks' \subseteq acks,
         UNCHANGED <<sent, oldest, slots, next, map, rxSlots, delivered>>
  PROVE  ChannelInv'
<1> USE DEF ChannelInv, DeliveryExact
<1>1. PICK low \in Nat : InvAt(low)
  OBVIOUS
<1>2. TypeOK'
  BY DEF TypeOK
<1>3. InvAt(low)' /\ RetainedUntilReceived' /\ InOrderOnce' /\ BitmapMatchesSlots'
  BY <1>1 DEF InvAt, Positions, SlotsInWindow, Live, RetainedUntilReceived, InOrderOnce, BitmapMatchesSlots
<1>4. FramesOfStream' /\ BitsSent' /\ AcksTruthful'
  BY DEF FramesOfStream, BitsSent, AcksTruthful, Received
<1> QED BY <1>2, <1>3, <1>4

\* Every step of the two ends and of the network keeps the invariant.
LEMMA ChannelInvStep == ChannelInv /\ [Next]_vars => ChannelInv'
<1> SUFFICES ASSUME ChannelInv, [Next]_vars
             PROVE  ChannelInv'
  OBVIOUS
<1>1. ASSUME NEW f \in frames, LoseFrame(f)
      PROVE  ChannelInv'
  BY <1>1, LossKeeps DEF LoseFrame, txVars, rxVars
<1>2. ASSUME NEW a \in acks, LoseAck(a)
      PROVE  ChannelInv'
  BY <1>2, LossKeeps DEF LoseAck, txVars, rxVars
<1>3. CASE UNCHANGED vars
  BY <1>3, LossKeeps DEF vars, txVars, rxVars, netVars
<1> QED BY <1>1, <1>2, <1>3, SendKeeps, TickKeeps, ReceiveAckKeeps, ReceiveFrameKeeps, DrainKeeps, SendAckKeeps
        DEF Next, TickNext

\* The invariant holds throughout.
LEMMA ChannelInvariant == Spec => []ChannelInv
  BY ChannelInvInit, ChannelInvStep, PTL DEF Spec

\* Whatever the network does, drain hands over the stream in order and each
\* frame once, and the reorder window holds the frames its bitmap names, across
\* any number of wrap-arounds of the sequence numbers.
THEOREM DeliveredExactly == Spec => []DeliveryExact
  BY ChannelInvariant, PTL DEF ChannelInv

\* on_ack frees no frame that the receiver does not have, however late, often
\* or disordered the acknowledgements arrive.
THEOREM RetainedLongEnough == Spec => []RetainedUntilReceived
  BY ChannelInvariant, PTL DEF ChannelInv

=============================================================================
