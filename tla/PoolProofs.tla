----------------------------- MODULE PoolProofs -----------------------------
(***************************************************************************)
(* Proofs about MpmcRing and, on top of them, about BufferPool, for any    *)
(* threads, values, slots and number of cells and every width of the       *)
(* positions.                                                              *)
(*                                                                         *)
(* A thread compares positions modulo Wrap only.  The argument counts      *)
(* pushes and pops from the start instead, and shows that the numbers that *)
(* meet in a comparison are never a whole range apart.  The queue has more *)
(* than one cell: with one, a published cell looks free for the next lap.  *)
(* From that exactness, before and after a step, the last part shows that  *)
(* every step is one of the linearizable queue of ConcurrentQueue.         *)
(***************************************************************************)
EXTENDS MCPool, SequenceTheorems, FiniteSetTheorems, TLAPS

-----------------------------------------------------------------------------
(* Arithmetic of the positions.                                            *)

\* What RingAssumption says of the sizes.
LEMMA Sizes ==
  /\ Cap \in Nat \ {0} /\ Wrap \in Nat \ {0} /\ MaxLag \in Nat \ {0}
  /\ Wrap \div 2 \in Nat /\ 2 * (Wrap \div 2) <= Wrap /\ MaxLag + Cap <= Wrap \div 2
<1>1. PICK h : h = Wrap \div 2
  OBVIOUS
<1>2. h \in Int /\ Wrap = 2 * h + (Wrap % 2) /\ Wrap % 2 \in 0 .. 1 /\ Wrap \in Nat
  BY <1>1, RingAssumption
<1>3. Cap \in Nat \ {0} /\ MaxLag \in Nat \ {0} /\ MaxLag + Cap <= h
  BY <1>1, RingAssumption
<1>4. h \in Nat /\ 2 * h <= Wrap /\ Wrap # 0
  BY <1>2, <1>3
<1> QED BY <1>1, <1>2, <1>3, <1>4

\* A remainder is what any division leaves.
LEMMA ModIs ==
  ASSUME NEW n \in Nat \ {0}, NEW x \in Int, NEW q \in Int, NEW r \in 0 .. n - 1, x = n * q + r
  PROVE  x % n = r
<1>1. PICK p, s : p = x \div n /\ s = x % n
  OBVIOUS
<1>2. p \in Int /\ s \in 0 .. n - 1 /\ x = n * p + s
  BY <1>1
<1>3. r - s = n * (p - q)
  BY <1>2
<1>4. CASE p - q >= 1
  BY <1>2, <1>3, <1>4
<1>5. CASE p - q <= -1
  BY <1>2, <1>3, <1>5
<1>6. CASE p - q = 0
  BY <1>1, <1>2, <1>3, <1>6
<1> QED BY <1>2, <1>4, <1>5, <1>6

\* Quotient and remainder.
LEMMA Quotient ==
  ASSUME NEW n \in Nat \ {0}, NEW x \in Int
  PROVE  /\ x \div n \in Int /\ x % n \in 0 .. n - 1
         /\ x = n * (x \div n) + (x % n)
  OBVIOUS

\* Numbers less than n apart that leave the same remainder are equal.
LEMMA ModSame ==
  ASSUME NEW n \in Nat \ {0}, NEW a \in Int, NEW b \in Int, a % n = b % n, a - b < n, b - a < n
  PROVE  a = b
<1>1. PICK p, q, r : p = a \div n /\ q = b \div n /\ r = a % n
  OBVIOUS
<1>2. p \in Int /\ q \in Int /\ r \in 0 .. n - 1 /\ a = n * p + r /\ b = n * q + r
  BY <1>1, Quotient
<1>3. a - b = n * (p - q)
  BY <1>2
<1>4. CASE p - q >= 1
  BY <1>2, <1>3, <1>4
<1>5. CASE p - q <= -1
  BY <1>2, <1>3, <1>5
<1>6. CASE p - q = 0
  BY <1>3, <1>6
<1> QED BY <1>2, <1>4, <1>5, <1>6

\* Moving on after taking the remainder, or before.
LEMMA ModAdd ==
  ASSUME NEW n \in Nat \ {0}, NEW a \in Int, NEW k \in Int
  PROVE  ((a % n) + k) % n = (a + k) % n
<1>1. PICK p, r, q, s : p = a \div n /\ r = a % n /\ q = (a + k) \div n /\ s = (a + k) % n
  OBVIOUS
<1>2. /\ p \in Int /\ r \in Int /\ q \in Int /\ s \in 0 .. n - 1
      /\ a = n * p + r /\ a + k = n * q + s
  <2>1. p \in Int /\ r \in Int /\ a = n * p + r
    BY <1>1, Quotient
  <2>2. a + k \in Int
    OBVIOUS
  <2>3. q \in Int /\ s \in 0 .. n - 1 /\ a + k = n * q + s
    BY <1>1, <2>2, Quotient
  <2> QED BY <2>1, <2>3
<1>3. r + k = n * (q - p) + s
  BY <1>2
<1>4. q - p \in Int /\ r + k \in Int
  BY <1>2
<1>5. (r + k) % n = s
  BY <1>2, <1>3, <1>4, ModIs
<1> QED BY <1>1, <1>5

\* wrapping_add(1) and the release of a cell, on counted positions.
LEMMA IncOn ==
  ASSUME NEW a \in Nat
  PROVE  Inc(a % Wrap) = (a + 1) % Wrap /\ ReleasedSeq(a % Wrap) = (a + Cap) % Wrap
<1>1. a \in Int /\ 1 \in Int /\ Cap \in Int /\ Wrap \in Nat \ {0}
  BY Sizes
<1>2. ((a % Wrap) + 1) % Wrap = (a + 1) % Wrap
  BY <1>1, ModAdd, Zenon
<1>3. ((a % Wrap) + Cap) % Wrap = (a + Cap) % Wrap
  BY <1>1, ModAdd, Zenon
<1> QED BY <1>2, <1>3 DEF Inc, ReleasedSeq

\* Remainders are positions and cells.
LEMMA PosIn ==
  ASSUME NEW a \in Int
  PROVE  a % Wrap \in Position /\ a % Cap \in Index
  BY Sizes, Quotient DEF Position, Index

\* wrapping_sub of a position and one behind it is the distance.
LEMMA AheadIs ==
  ASSUME NEW a \in Nat, NEW b \in Nat, b <= a, a - b < Wrap
  PROVE  Ahead(a % Wrap, b % Wrap) = a - b
<1>1. PICK p, q, r, s : p = a \div Wrap /\ q = b \div Wrap /\ r = a % Wrap /\ s = b % Wrap
  OBVIOUS
<1>2. /\ p \in Int /\ q \in Int /\ r \in Int /\ s \in Int /\ Wrap \in Nat \ {0}
      /\ a = Wrap * p + r /\ b = Wrap * q + s
  BY <1>1, Quotient, Sizes
<1>3. r - s = Wrap * (q - p) + (a - b)
  BY <1>2
<1>4. a - b \in 0 .. Wrap - 1 /\ q - p \in Int /\ r - s \in Int
  BY <1>2
<1>5. (r - s) % Wrap = a - b
  BY <1>2, <1>3, <1>4, ModIs
<1> QED BY <1>1, <1>5 DEF Ahead

\* The signed difference is zero for equal positions only.
LEMMA DiffZero ==
  ASSUME NEW x \in Position, NEW y \in Position, Diff(x, y) = 0
  PROVE  x = y
<1>1. PICK d, h : d = (x - y) % Wrap /\ h = Wrap \div 2
  OBVIOUS
<1>2. d \in 0 .. Wrap - 1 /\ x - y \in Int /\ Wrap \in Nat \ {0} /\ x \in Int /\ y \in Int
  BY <1>1, Sizes, Quotient DEF Position
<1>3. d = 0
  BY <1>1, <1>2 DEF Diff, Ahead
<1>4. PICK k : k = (x - y) \div Wrap
  OBVIOUS
<1>5. k \in Int /\ x - y = Wrap * k
  BY <1>1, <1>2, <1>3, <1>4, Quotient
<1>6. x - y < Wrap /\ y - x < Wrap
  BY Sizes DEF Position
<1>7. CASE k >= 1
  BY <1>2, <1>5, <1>6, <1>7
<1>8. CASE k <= -1
  BY <1>2, <1>5, <1>6, <1>8
<1>9. CASE k = 0
  BY <1>2, <1>5, <1>9
<1> QED BY <1>5, <1>7, <1>8, <1>9

\* The capacity divides the range, so a position finds its cell.
LEMMA CellOfPos ==
  ASSUME NEW a \in Nat
  PROVE  CellOf(a % Wrap) = a % Cap
<1>1. PICK p, r, q, s, w :
         p = a \div Wrap /\ r = a % Wrap /\ q = r \div Cap /\ s = r % Cap /\ w = Wrap \div (2 * Cap)
  OBVIOUS
<1>0. Wrap \in Nat \ {0} /\ Cap \in Nat \ {0} /\ 2 * Cap \in Nat \ {0}
  BY Sizes
<1>2. p \in Int /\ r \in Int /\ a = Wrap * p + r
  BY <1>0, <1>1, Quotient
<1>3. q \in Int /\ s \in 0 .. Cap - 1 /\ r = Cap * q + s
  BY <1>0, <1>1, <1>2, Quotient
<1>4. w \in Int /\ Wrap = (2 * Cap) * w
  <2>0. Wrap % (2 * Cap) = 0 /\ Wrap \in Int
    BY <1>0, RingAssumption
  <2>1. w \in Int /\ Wrap = (2 * Cap) * w + (Wrap % (2 * Cap))
    BY <1>0, <1>1, <2>0, Quotient, Zenon
  <2>2. (2 * Cap) * w \in Int
    BY <1>0, <2>1
  <2> QED BY <2>0, <2>1, <2>2
<1>5. a = ((2 * Cap) * w) * p + Cap * q + s
  BY <1>2, <1>3, <1>4, <1>0
<1>6. ((2 * Cap) * w) * p + Cap * q = Cap * (2 * (w * p) + q)
  BY <1>0, <1>2, <1>3, <1>4
<1>7. PICK t : t = 2 * (w * p) + q
  OBVIOUS
<1>8. t \in Int /\ a = Cap * t + s
  <2>1. t \in Int
    BY <1>2, <1>3, <1>4, <1>7
  <2>2. ((2 * Cap) * w) * p + Cap * q = Cap * t
    BY <1>6, <1>7, Zenon
  <2> QED BY <1>5, <2>1, <2>2, Zenon
<1>9. a % Cap = s
  <2>1. a \in Int
    OBVIOUS
  <2> QED BY <1>0, <1>3, <1>8, <2>1, ModIs
<1> QED BY <1>1, <1>9 DEF CellOf

\* A lap later it is the same cell; less than a lap apart it is another.
LEMMA SameCell ==
  ASSUME NEW a \in Nat
  PROVE  (a + Cap) % Cap = a % Cap
<1>1. PICK p, s : p = a \div Cap /\ s = a % Cap
  OBVIOUS
<1>2. p \in Int /\ s \in 0 .. Cap - 1 /\ a = Cap * p + s /\ Cap \in Nat \ {0}
  BY <1>1, Sizes, Quotient
<1>3. a + Cap = Cap * (p + 1) + s /\ p + 1 \in Int /\ a + Cap \in Int
  BY <1>2
<1> QED BY <1>1, <1>2, <1>3, ModIs

\* Positions less than a ring apart have different cells.
LEMMA OtherCell ==
  ASSUME NEW a \in Nat, NEW b \in Nat, a # b, a - b < Cap, b - a < Cap
  PROVE  a % Cap # b % Cap
<1>1. a \in Int /\ b \in Int /\ Cap \in Nat \ {0}
  BY Sizes
<1> QED BY <1>1, ModSame, Zenon

\* Counted positions less than the range apart are told apart.
LEMMA OtherPos ==
  ASSUME NEW a \in Nat, NEW b \in Nat, a # b, a - b < Wrap, b - a < Wrap
  PROVE  a % Wrap # b % Wrap
<1>1. a \in Int /\ b \in Int /\ Wrap \in Nat \ {0}
  BY Sizes
<1> QED BY <1>1, ModSame, Zenon

-----------------------------------------------------------------------------
(* The invariant of the queue.                                             *)

PushOwning == {"pushWrite", "pushStore"}
PopOwning  == {"popRead", "popStore"}

\* E pushes have claimed a cell and D pops; thread t works on position P[t].
Positions(E, D, P) ==
    /\ enq = E % Wrap /\ deq = D % Wrap
    /\ D <= E /\ E - D = Len(claimed) /\ Len(claimed) <= Cap
    /\ \A t \in Thread : pos[t] = P[t] % Wrap

\* A thread that has not claimed yet is not left behind by more than MaxLag;
\* one about to claim the current position has found its cell in order.
Waiting(E, D, P) ==
    \A t \in Thread :
       /\ pc[t] \in Pushing => P[t] <= E /\ E - P[t] <= MaxLag
       /\ pc[t] \in Popping => P[t] <= D /\ D - P[t] <= MaxLag
       /\ pc[t] = "pushCas" /\ P[t] = E => seq[E % Cap] = E % Wrap
       /\ pc[t] = "popCas" /\ P[t] = D => seq[D % Cap] = (D + 1) % Wrap
       /\ pc[t] \in Pushing \cup PushOwning => val[t] \in Val

\* The claimed cells are not published yet or hold their value.
Claimed(E, D) ==
    \A p \in D .. E - 1 :
       \/ seq[p % Cap] = p % Wrap
       \/ seq[p % Cap] = (p + 1) % Wrap /\ cell[p % Cap] = claimed[(p - D) + 1]

\* The other cells are free or a pop of the lap before has not released them.
Free(E, D) ==
    \A p \in E .. (D + Cap) - 1 :
       seq[p % Cap] = p % Wrap \/ seq[p % Cap] = ((p - Cap) + 1) % Wrap

\* A push between claim and publish owns a cell among the claimed ones, a pop
\* one of the lap before that no push has claimed again.
Owning(E, D, P) ==
    \A t \in Thread :
       /\ pc[t] \in PushOwning =>
             /\ D <= P[t] /\ P[t] < E
             /\ seq[P[t] % Cap] = P[t] % Wrap
             /\ val[t] = claimed[(P[t] - D) + 1]
             /\ pc[t] = "pushStore" => cell[P[t] % Cap] = val[t]
       /\ pc[t] \in PopOwning =>
             /\ E - Cap <= P[t] /\ P[t] < D
             /\ seq[P[t] % Cap] = (P[t] + 1) % Wrap
             /\ pc[t] = "popRead" => cell[P[t] % Cap] = expect[t]
             /\ pc[t] = "popStore" => val[t] = expect[t]

\* Two owners own two positions.
Apart(P) ==
    \A t, u \in Thread :
       t # u /\ pc[t] \in PushOwning \cup PopOwning /\ pc[u] \in PushOwning \cup PopOwning
       => P[t] # P[u]

RingInvAt(E, D, P) ==
    /\ Positions(E, D, P) /\ Waiting(E, D, P) /\ Claimed(E, D) /\ Free(E, D)
    /\ Owning(E, D, P) /\ Apart(P)

RingInv == RingTypeOK /\ \E E, D \in Nat, P \in [Thread -> Nat] : RingInvAt(E, D, P)

\* The invariant says what QueueExact asks.
LEMMA RingInvExact == ASSUME RingInv PROVE QueueExact
<1>1. PICK E \in Nat, D \in Nat, P \in [Thread -> Nat] : RingInvAt(E, D, P)
  BY DEF RingInv
<1>2. RingTypeOK
  BY DEF RingInv
<1>3. CellExclusive
  <2> SUFFICES ASSUME NEW t \in Thread, NEW u \in Thread, t # u,
                      pc[t] \in PushOwning \cup PopOwning, pc[u] \in PushOwning \cup PopOwning
               PROVE  CellOf(pos[t]) # CellOf(pos[u])
    BY DEF CellExclusive, PushOwning, PopOwning
  <2>1. P[t] # P[u] /\ P[t] \in Nat /\ P[u] \in Nat
    BY <1>1 DEF RingInvAt, Apart
  <2>2. pos[t] = P[t] % Wrap /\ pos[u] = P[u] % Wrap /\ D <= E /\ E - D <= Cap
    BY <1>1 DEF RingInvAt, Positions
  <2>3. E - Cap <= P[t] /\ P[t] < E /\ E - Cap <= P[u] /\ P[u] < E
    BY <1>1, <2>1, <2>2, Sizes DEF RingInvAt, Owning
  <2>4. P[t] % Cap # P[u] % Cap
    BY <2>1, <2>3, Sizes, OtherCell
  <2> QED BY <2>1, <2>2, <2>4, CellOfPos
<1>4. PopReturnsOldest
  <2> SUFFICES ASSUME NEW t \in Thread, pc[t] \in PopOwning
               PROVE  /\ pc[t] = "popRead" => cell[CellOf(pos[t])] = expect[t]
                      /\ pc[t] = "popStore" => val[t] = expect[t]
    BY DEF PopReturnsOldest, PopOwning
  <2>1. CellOf(pos[t]) = P[t] % Cap
    BY <1>1, CellOfPos DEF RingInvAt, Positions
  <2> QED BY <1>1, <2>1 DEF RingInvAt, Owning
<1>5. NeverOverfull
  <2>1. Len(claimed) <= Cap /\ E - D = Len(claimed) /\ D <= E
    BY <1>1 DEF RingInvAt, Positions
  <2>2. E - D < Wrap
    BY <2>1, Sizes
  <2>3. Ahead(enq, deq) = E - D
    BY <1>1, <2>1, <2>2, AheadIs DEF RingInvAt, Positions
  <2> QED BY <2>1, <2>3 DEF NeverOverfull
<1> QED BY <1>2, <1>3, <1>4, <1>5 DEF QueueExact

-----------------------------------------------------------------------------
(* Steps of a thread.                                                      *)

\* What the provers need of the types of a thread.
LEMMA ThreadTypes ==
  ASSUME RingInv, NEW t \in Thread
  PROVE  /\ pc[t] \in {"idle", "pushSeq", "pushCas", "pushWrite", "pushStore",
                       "popSeq", "popCas", "popRead", "popStore"}
         /\ pos[t] \in Position
         /\ pos \in [Thread -> Position] /\ DOMAIN pc = Thread /\ DOMAIN val = Thread
         /\ DOMAIN pos = Thread /\ DOMAIN expect = Thread
  BY DEF RingInv, RingTypeOK

\* A step that touches no cell and claims nothing: t works on position n, not
\* far behind, with a value in hand if it pushes.
LEMMA QuietStep ==
  ASSUME NEW E \in Nat, NEW D \in Nat, NEW P \in [Thread -> Nat], RingInvAt(E, D, P), RingTypeOK,
         NEW t \in Thread, NEW n \in Nat,
         UNCHANGED <<enq, deq, seq, cell, claimed, expect>>,
         \A u \in Thread \ {t} : pc'[u] = pc[u] /\ pos'[u] = pos[u] /\ val'[u] = val[u],
         pos'[t] = n % Wrap,
         pc'[t] \notin PushOwning \cup PopOwning,
         pc'[t] \in Pushing => n <= E /\ E - n <= MaxLag /\ val'[t] \in Val,
         pc'[t] \in Popping => n <= D /\ D - n <= MaxLag,
         pc'[t] = "pushCas" /\ n = E => seq[E % Cap] = E % Wrap,
         pc'[t] = "popCas" /\ n = D => seq[D % Cap] = (D + 1) % Wrap
  PROVE  \E Q \in [Thread -> Nat] : RingInvAt(E, D, Q)'
<1>1. PICK Q : Q = [P EXCEPT ![t] = n]
  OBVIOUS
<1>2. Q \in [Thread -> Nat] /\ Q[t] = n /\ \A u \in Thread \ {t} : Q[u] = P[u]
  BY <1>1
<1>3. Positions(E, D, Q)'
  BY <1>2 DEF RingInvAt, Positions
<1>4. Waiting(E, D, Q)'
  <2> SUFFICES ASSUME NEW u \in Thread
               PROVE  /\ pc'[u] \in Pushing => Q[u] <= E /\ E - Q[u] <= MaxLag
                      /\ pc'[u] \in Popping => Q[u] <= D /\ D - Q[u] <= MaxLag
                      /\ pc'[u] = "pushCas" /\ Q[u] = E => seq[E % Cap] = E % Wrap
                      /\ pc'[u] = "popCas" /\ Q[u] = D => seq[D % Cap] = (D + 1) % Wrap
                      /\ pc'[u] \in Pushing \cup PushOwning => val'[u] \in Val
    BY DEF Waiting
  <2>1. CASE u = t
    BY <1>2, <2>1
  <2>2. CASE u # t
    BY <1>2, <2>2 DEF RingInvAt, Waiting
  <2> QED BY <2>1, <2>2
<1>5. Claimed(E, D)' /\ Free(E, D)'
  BY DEF RingInvAt, Claimed, Free
<1>6. Owning(E, D, Q)'
  <2> SUFFICES ASSUME NEW u \in Thread, u # t
               PROVE  /\ pc[u] \in PushOwning =>
                           /\ D <= P[u] /\ P[u] < E
                           /\ seq[P[u] % Cap] = P[u] % Wrap
                           /\ val[u] = claimed[(P[u] - D) + 1]
                           /\ pc[u] = "pushStore" => cell[P[u] % Cap] = val[u]
                      /\ pc[u] \in PopOwning =>
                           /\ E - Cap <= P[u] /\ P[u] < D
                           /\ seq[P[u] % Cap] = (P[u] + 1) % Wrap
                           /\ pc[u] = "popRead" => cell[P[u] % Cap] = expect[u]
                           /\ pc[u] = "popStore" => val[u] = expect[u]
    BY <1>2 DEF Owning, PushOwning, PopOwning
  <2> QED BY DEF RingInvAt, Owning
<1>7. Apart(Q)'
  BY <1>2 DEF RingInvAt, Apart
<1> QED BY <1>2, <1>3, <1>4, <1>5, <1>6, <1>7 DEF RingInvAt

\* The steps that load a position or look at a sequence number.
LEMMA QuietSteps ==
  ASSUME RingInv, NEW t \in Thread,
         \/ \E v \in Val : PushStart(t, v)
         \/ PushSeqFree(t) \/ PushSeqFull(t) \/ PushSeqStale(t) \/ PushCasFail(t)
         \/ PopStart(t) \/ PopSeqReady(t) \/ PopSeqEmpty(t) \/ PopSeqStale(t) \/ PopCasFail(t)
  PROVE  RingInv'
<1>1. PICK E \in Nat, D \in Nat, P \in [Thread -> Nat] : RingInvAt(E, D, P)
  BY DEF RingInv
<1>2. RingTypeOK
  BY DEF RingInv
<1>3. /\ UNCHANGED <<enq, deq, seq, cell, claimed, expect>>
      /\ \A u \in Thread \ {t} : pc'[u] = pc[u] /\ pos'[u] = pos[u] /\ val'[u] = val[u]
  BY <1>2 DEF RingTypeOK, PushStart, PushSeqFree, PushSeqFull, PushSeqStale, PushCasFail, PopStart,
     PopSeqReady, PopSeqEmpty, PopSeqStale, PopCasFail, posVars, cellVars, orderVars
<1>4. enq = E % Wrap /\ deq = D % Wrap /\ pos[t] = P[t] % Wrap /\ P[t] \in Nat /\ MaxLag \in Nat
  BY <1>1, Sizes DEF RingInvAt, Positions
<1>5. /\ seq \in [Index -> Position] /\ pos \in [Thread -> Position] /\ enq \in Position
      /\ deq \in Position /\ DOMAIN pc = Thread /\ val \in [Thread -> Val \cup {NoVal}]
  BY <1>2 DEF RingTypeOK
<1>7. Waiting(E, D, P)
  BY <1>1 DEF RingInvAt
<1>8. CellOf(pos[t]) = P[t] % Cap /\ P[t] % Cap \in Index
  BY <1>4, CellOfPos, PosIn
<1>a. RingTypeOK'
  <2>1. pc' \in [Thread -> {"idle", "pushSeq", "pushCas", "pushWrite", "pushStore",
                            "popSeq", "popCas", "popRead", "popStore"}]
    BY <1>2 DEF RingTypeOK, PushStart, PushSeqFree, PushSeqFull, PushSeqStale, PushCasFail, PopStart,
       PopSeqReady, PopSeqEmpty, PopSeqStale, PopCasFail
  <2>2. pos' \in [Thread -> Position]
    BY <1>2 DEF RingTypeOK, PushStart, PushSeqFree, PushSeqFull, PushSeqStale, PushCasFail, PopStart,
       PopSeqReady, PopSeqEmpty, PopSeqStale, PopCasFail
  <2>3. val' \in [Thread -> Val \cup {NoVal}]
    BY <1>2 DEF RingTypeOK, PushStart, PushSeqFree, PushSeqFull, PushSeqStale, PushCasFail, PopStart,
       PopSeqReady, PopSeqEmpty, PopSeqStale, PopCasFail
  <2> QED BY <1>2, <1>3, <2>1, <2>2, <2>3 DEF RingTypeOK
<1> SUFFICES \E Q \in [Thread -> Nat] : RingInvAt(E, D, Q)'
  BY <1>a DEF RingInv
<1>b. CASE (\E v \in Val : PushStart(t, v)) \/ PushSeqStale(t) \/ PushCasFail(t)
  <2>1. pos'[t] = E % Wrap /\ pc'[t] = "pushSeq" /\ val'[t] \in Val
    BY <1>b, <1>4, <1>5, <1>7 DEF PushStart, PushSeqStale, PushCasFail, Waiting, Pushing
  <2>2. /\ pc'[t] \notin PushOwning \cup PopOwning /\ pc'[t] \notin Popping
        /\ pc'[t] # "pushCas" /\ pc'[t] # "popCas"
    BY <2>1 DEF PushOwning, PopOwning, Popping
  <2>3. E <= E /\ E - E <= MaxLag
    BY <1>4
  <2> QED BY <1>1, <1>2, <1>3, <2>1, <2>2, <2>3, QuietStep
<1>c. CASE PopStart(t) \/ PopSeqStale(t) \/ PopCasFail(t)
  <2>1. pos'[t] = D % Wrap /\ pc'[t] = "popSeq"
    BY <1>c, <1>4, <1>5 DEF PopStart, PopSeqStale, PopCasFail
  <2>2. /\ pc'[t] \notin PushOwning \cup PopOwning /\ pc'[t] \notin Pushing
        /\ pc'[t] # "pushCas" /\ pc'[t] # "popCas"
    BY <2>1 DEF PushOwning, PopOwning, Pushing
  <2>3. D <= D /\ D - D <= MaxLag
    BY <1>4
  <2> QED BY <1>1, <1>2, <1>3, <2>1, <2>2, <2>3, QuietStep
<1>d. CASE PushSeqFull(t) \/ PopSeqEmpty(t)
  <2>1. pos'[t] = P[t] % Wrap /\ pc'[t] = "idle"
    BY <1>d, <1>4, <1>5 DEF PushSeqFull, PopSeqEmpty
  <2>2. /\ pc'[t] \notin PushOwning \cup PopOwning /\ pc'[t] \notin Pushing
        /\ pc'[t] \notin Popping /\ pc'[t] # "pushCas" /\ pc'[t] # "popCas"
    BY <2>1 DEF PushOwning, PopOwning, Pushing, Popping
  <2> QED BY <1>1, <1>2, <1>3, <1>4, <2>1, <2>2, QuietStep
<1>e. CASE PushSeqFree(t)
  <2>1. /\ pos'[t] = P[t] % Wrap /\ pc'[t] = "pushCas" /\ pc[t] = "pushSeq" /\ val'[t] = val[t]
        /\ Diff(seq[P[t] % Cap], pos[t]) = 0
    BY <1>e, <1>4, <1>5, <1>8 DEF PushSeqFree, PushDiff
  <2>2. seq[P[t] % Cap] = P[t] % Wrap
    BY <2>1, <1>4, <1>5, <1>8, DiffZero
  <2>3. P[t] <= E /\ E - P[t] <= MaxLag /\ val'[t] \in Val
    BY <2>1, <1>7 DEF Waiting, Pushing
  <2>4. pc'[t] \notin PushOwning \cup PopOwning /\ pc'[t] \notin Popping /\ pc'[t] # "popCas"
    BY <2>1 DEF PushOwning, PopOwning, Popping
  <2> QED BY <1>1, <1>2, <1>3, <1>4, <2>1, <2>2, <2>3, <2>4, QuietStep
<1>f. CASE PopSeqReady(t)
  <2>1. /\ pos'[t] = P[t] % Wrap /\ pc'[t] = "popCas" /\ pc[t] = "popSeq"
        /\ Diff(seq[P[t] % Cap], Inc(pos[t])) = 0
    BY <1>f, <1>4, <1>5, <1>8 DEF PopSeqReady, PopDiff
  <2>2. seq[P[t] % Cap] = (P[t] + 1) % Wrap
    <3>1. Inc(pos[t]) = (P[t] + 1) % Wrap /\ P[t] + 1 \in Int
      BY <1>4, IncOn
    <3>2. (P[t] + 1) % Wrap \in Position
      BY <3>1, PosIn
    <3> QED BY <2>1, <1>5, <1>8, <3>1, <3>2, DiffZero
  <2>3. P[t] <= D /\ D - P[t] <= MaxLag
    BY <2>1, <1>7 DEF Waiting, Popping
  <2>4. pc'[t] \notin PushOwning \cup PopOwning /\ pc'[t] \notin Pushing /\ pc'[t] # "pushCas"
    BY <2>1 DEF PushOwning, PopOwning, Pushing
  <2> QED BY <1>1, <1>2, <1>3, <1>4, <2>1, <2>2, <2>3, <2>4, QuietStep
<1> QED BY <1>b, <1>c, <1>d, <1>e, <1>f

\* Positions of the window, counted: what is claimed or owned is less than a
\* lap from anything else that is.
LEMMA PushClaims ==
  ASSUME RingInv, Cap > 1, NEW t \in Thread, PushCasOk(t)
  PROVE  RingInv'
<1>1. PICK E \in Nat, D \in Nat, P \in [Thread -> Nat] : RingInvAt(E, D, P)
  BY DEF RingInv
<1>2. RingTypeOK
  BY DEF RingInv
<1>3. /\ Positions(E, D, P) /\ Waiting(E, D, P) /\ Claimed(E, D) /\ Free(E, D)
      /\ Owning(E, D, P) /\ Apart(P)
  BY <1>1 DEF RingInvAt
<1>4. /\ enq = E % Wrap /\ deq = D % Wrap /\ pos[t] = P[t] % Wrap /\ P[t] \in Nat /\ MaxLag \in Nat
      /\ D <= E /\ E - D = Len(claimed) /\ Len(claimed) <= Cap
  BY <1>3, Sizes DEF Positions
<1>5. pc[t] = "pushCas" /\ val[t] \in Val /\ P[t] <= E /\ E - P[t] <= MaxLag
  BY <1>3 DEF PushCasOk, Waiting, Pushing
<1>6. P[t] = E
  <2>1. E % Wrap = P[t] % Wrap
    BY <1>4 DEF PushCasOk
  <2>2. E - P[t] < Wrap /\ P[t] - E < Wrap
    BY <1>4, <1>5, Sizes
  <2> QED BY <1>4, <2>1, <2>2, OtherPos
<1>7. seq[E % Cap] = E % Wrap
  BY <1>3, <1>5, <1>6 DEF Waiting
<1>8. E < D + Cap
  <2> SUFFICES ASSUME E = D + Cap PROVE FALSE
    BY <1>4, Sizes
  <2>0. D \in D .. E - 1 /\ D + 1 \in Nat
    BY Sizes
  <2>1. E % Cap = D % Cap
    BY SameCell
  <2>2. seq[D % Cap] = D % Wrap \/ seq[D % Cap] = (D + 1) % Wrap
    BY <1>3, <2>0 DEF Claimed
  <2>3. E % Wrap # D % Wrap
    <3>1. E # D /\ E - D < Wrap /\ D - E < Wrap
      BY Sizes
    <3> QED BY <3>1, OtherPos
  <2>4. E % Wrap # (D + 1) % Wrap
    <3>1. E # D + 1 /\ E - (D + 1) < Wrap /\ (D + 1) - E < Wrap
      BY Sizes
    <3> QED BY <2>0, <3>1, OtherPos
  <2> QED BY <1>7, <2>1, <2>2, <2>3, <2>4
<1>9. \A u \in Thread : pc[u] \in PopOwning => P[u] # E - Cap
  <2> SUFFICES ASSUME NEW u \in Thread, pc[u] \in PopOwning, P[u] = E - Cap PROVE FALSE
    OBVIOUS
  <2>1. P[u] \in Nat /\ E = P[u] + Cap
    BY Sizes
  <2>2. seq[P[u] % Cap] = (P[u] + 1) % Wrap /\ E % Cap = P[u] % Cap
    BY <1>3, <2>1, SameCell DEF Owning
  <2>3. E % Wrap # (P[u] + 1) % Wrap
    <3>1. /\ P[u] + 1 \in Nat /\ E # P[u] + 1
          /\ E - (P[u] + 1) < Wrap /\ (P[u] + 1) - E < Wrap
      BY <2>1, Sizes
    <3> QED BY <3>1, OtherPos
  <2> QED BY <1>7, <2>2, <2>3
<1>a. /\ enq' = (E + 1) % Wrap /\ pc'[t] = "pushWrite" /\ UNCHANGED <<deq, seq, cell, pos, val, expect>>
      /\ claimed' = Append(claimed, val[t]) /\ \A u \in Thread \ {t} : pc'[u] = pc[u]
  BY <1>2, <1>4, <1>6, IncOn DEF PushCasOk, cellVars, RingTypeOK
<1>b. claimed \in Seq(Val) /\ Len(claimed) \in Nat
  BY <1>2, LenProperties DEF RingTypeOK
<1>c. /\ claimed' \in Seq(Val) /\ Len(claimed') = Len(claimed) + 1
      /\ claimed'[Len(claimed) + 1] = val[t]
      /\ \A i \in 1 .. Len(claimed) : claimed'[i] = claimed[i]
  BY <1>5, <1>a, <1>b, AppendProperties
<1>d. \A u \in Thread : pc'[u] \in Pushing => P[u] <= E /\ (E + 1) - P[u] <= MaxLag
  <2> SUFFICES ASSUME NEW u \in Thread, pc'[u] \in Pushing
               PROVE  P[u] <= E /\ (E + 1) - P[u] <= MaxLag
    OBVIOUS
  <2>1. u # t /\ pc[u] \in Pushing
    BY <1>a DEF Pushing
  <2>2. P[u] <= E /\ E - P[u] <= MaxLag /\ P[u] \in Nat /\ pos[u] = P[u] % Wrap
    BY <1>3, <2>1 DEF Waiting, Positions
  <2>3. Ahead((E + 1) % Wrap, P[u] % Wrap) <= MaxLag
    BY <1>4, <2>1, <2>2, IncOn DEF PushCasOk, KeepsUp
  <2>4. Ahead((E + 1) % Wrap, P[u] % Wrap) = (E + 1) - P[u]
    BY <2>2, Sizes, AheadIs
  <2> QED BY <2>2, <2>3, <2>4
<1>e. RingTypeOK'
  <2>1. enq' \in Position
    BY <1>a, PosIn
  <2>2. pc' \in [Thread -> {"idle", "pushSeq", "pushCas", "pushWrite", "pushStore",
                            "popSeq", "popCas", "popRead", "popStore"}]
    BY <1>2 DEF PushCasOk, RingTypeOK
  <2> QED BY <1>2, <1>a, <1>c, <2>1, <2>2 DEF RingTypeOK
<1>f. Positions(E + 1, D, P)'
  <2>1. D <= E + 1 /\ (E + 1) - D = Len(claimed') /\ Len(claimed') <= Cap
    <3>1. Len(claimed) + 1 <= Cap
      BY <1>4, <1>8, <1>b, Sizes
    <3> QED BY <1>4, <1>b, <1>c, <3>1
  <2>2. \A u \in Thread : pos'[u] = P[u] % Wrap
    BY <1>3, <1>a DEF Positions
  <2> QED BY <1>4, <1>a, <2>1, <2>2 DEF Positions
<1>g. Waiting(E + 1, D, P)'
  <2> SUFFICES ASSUME NEW u \in Thread
               PROVE  /\ pc'[u] \in Pushing => P[u] <= E + 1 /\ (E + 1) - P[u] <= MaxLag
                      /\ pc'[u] \in Popping => P[u] <= D /\ D - P[u] <= MaxLag
                      /\ ~ (pc'[u] = "pushCas" /\ P[u] = E + 1)
                      /\ pc'[u] = "popCas" /\ P[u] = D => seq[D % Cap] = (D + 1) % Wrap
                      /\ pc'[u] \in Pushing \cup PushOwning => val[u] \in Val
    BY <1>a DEF Waiting
  <2>1. P[u] \in Nat
    OBVIOUS
  <2>2. pc'[u] \in Pushing => P[u] <= E + 1 /\ (E + 1) - P[u] <= MaxLag /\ P[u] # E + 1
    BY <1>d, <2>1
  <2>3. CASE u = t
    BY <1>5, <1>a, <2>3 DEF Pushing, Popping
  <2>4. CASE u # t
    BY <1>3, <1>a, <2>2, <2>4 DEF Waiting, Pushing
  <2> QED BY <2>3, <2>4
<1>h. Claimed(E + 1, D)'
  <2> SUFFICES ASSUME NEW p \in D .. E
               PROVE  \/ seq[p % Cap] = p % Wrap
                      \/ seq[p % Cap] = (p + 1) % Wrap /\ cell[p % Cap] = claimed'[(p - D) + 1]
    <3>1. D .. (E + 1) - 1 = D .. E
      OBVIOUS
    <3> QED BY <1>a, <3>1, Zenon DEF Claimed
  <2>1. CASE p = E
    BY <1>7, <2>1
  <2>2. CASE p \in D .. E - 1
    <3>1. (p - D) + 1 \in 1 .. Len(claimed)
      BY <1>4, <2>2
    <3> QED BY <1>3, <1>c, <2>2, <3>1 DEF Claimed
  <2> QED BY <2>1, <2>2
<1>i. Free(E + 1, D)'
  BY <1>3, <1>a DEF Free
<1>j. Owning(E + 1, D, P)'
  <2> SUFFICES ASSUME NEW u \in Thread
               PROVE  /\ pc'[u] \in PushOwning =>
                           /\ D <= P[u] /\ P[u] < E + 1
                           /\ seq[P[u] % Cap] = P[u] % Wrap
                           /\ val[u] = claimed'[(P[u] - D) + 1]
                           /\ pc'[u] = "pushStore" => cell[P[u] % Cap] = val[u]
                      /\ pc'[u] \in PopOwning =>
                           /\ (E + 1) - Cap <= P[u] /\ P[u] < D
                           /\ seq[P[u] % Cap] = (P[u] + 1) % Wrap
                           /\ pc'[u] = "popRead" => cell[P[u] % Cap] = expect[u]
                           /\ pc'[u] = "popStore" => val[u] = expect[u]
    BY <1>a DEF Owning
  <2>1. CASE u = t
    <3>1. pc'[u] \notin PopOwning /\ pc'[u] # "pushStore" /\ (P[u] - D) + 1 = Len(claimed) + 1
      BY <1>4, <1>6, <1>a, <2>1 DEF PopOwning
    <3> QED BY <1>4, <1>6, <1>7, <1>c, <2>1, <3>1
  <2>2. CASE u # t /\ pc[u] \in PushOwning
    <3>1. pc'[u] = pc[u] /\ pc'[u] \notin PopOwning /\ P[u] \in Nat
      BY <1>a, <2>2 DEF PushOwning, PopOwning
    <3>2. /\ D <= P[u] /\ P[u] < E /\ seq[P[u] % Cap] = P[u] % Wrap
          /\ val[u] = claimed[(P[u] - D) + 1]
          /\ pc[u] = "pushStore" => cell[P[u] % Cap] = val[u]
      BY <1>3, <2>2 DEF Owning
    <3>3. (P[u] - D) + 1 \in 1 .. Len(claimed)
      BY <1>4, <3>1, <3>2
    <3>4. val[u] = claimed'[(P[u] - D) + 1]
      BY <1>c, <3>2, <3>3
    <3> QED BY <3>1, <3>2, <3>4
  <2>3. CASE u # t /\ pc[u] \in PopOwning
    <3>1. pc'[u] = pc[u] /\ pc'[u] \notin PushOwning /\ P[u] \in Nat
      BY <1>a, <2>3 DEF PushOwning, PopOwning
    <3>2. E - Cap <= P[u] /\ P[u] # E - Cap
      BY <1>3, <1>9, <2>3 DEF Owning
    <3>3. (E + 1) - Cap <= P[u]
      BY <3>1, <3>2, Sizes
    <3> QED BY <1>3, <2>3, <3>1, <3>3 DEF Owning
  <2> QED BY <1>a, <2>1, <2>2, <2>3
<1>k. Apart(P)'
  <2> SUFFICES ASSUME NEW u \in Thread \ {t}, pc[u] \in PushOwning \cup PopOwning
               PROVE  P[u] # P[t]
    BY <1>3, <1>a DEF Apart
  <2>1. P[u] < E
    BY <1>3, <1>4 DEF Owning
  <2> QED BY <1>6, <2>1
<1>l. RingInvAt(E + 1, D, P)'
  BY <1>f, <1>g, <1>h, <1>i, <1>j, <1>k DEF RingInvAt
<1>m. E + 1 \in Nat
  OBVIOUS
<1> QED BY <1>e, <1>l, <1>m DEF RingInv

\* A pop that wins its compare-and-swap owns the cell of its position.
LEMMA PopClaims ==
  ASSUME RingInv, Cap > 1, NEW t \in Thread, PopCasOk(t)
  PROVE  RingInv'
<1>1. PICK E \in Nat, D \in Nat, P \in [Thread -> Nat] : RingInvAt(E, D, P)
  BY DEF RingInv
<1>2. RingTypeOK
  BY DEF RingInv
<1>3. /\ Positions(E, D, P) /\ Waiting(E, D, P) /\ Claimed(E, D) /\ Free(E, D)
      /\ Owning(E, D, P) /\ Apart(P)
  BY <1>1 DEF RingInvAt
<1>4. /\ enq = E % Wrap /\ deq = D % Wrap /\ pos[t] = P[t] % Wrap /\ P[t] \in Nat /\ MaxLag \in Nat
      /\ D <= E /\ E - D = Len(claimed) /\ Len(claimed) <= Cap
  BY <1>3, Sizes DEF Positions
<1>5. pc[t] = "popCas" /\ P[t] <= D /\ D - P[t] <= MaxLag
  BY <1>3 DEF PopCasOk, Waiting, Popping
<1>6. P[t] = D
  <2>1. D % Wrap = P[t] % Wrap
    BY <1>4 DEF PopCasOk
  <2>2. D - P[t] < Wrap /\ P[t] - D < Wrap
    BY <1>4, <1>5, Sizes
  <2> QED BY <1>4, <2>1, <2>2, OtherPos
<1>7. seq[D % Cap] = (D + 1) % Wrap
  BY <1>3, <1>5, <1>6 DEF Waiting
<1>8. D < E
  <2> SUFFICES ASSUME E = D PROVE FALSE
    BY <1>4
  <2>1. D \in E .. (D + Cap) - 1 /\ D + 1 \in Nat /\ D \in Nat
    BY Sizes
  <2>2. seq[D % Cap] = D % Wrap \/ seq[D % Cap] = ((D - Cap) + 1) % Wrap
    BY <1>3, <2>1 DEF Free
  <2>3. D % Wrap # (D + 1) % Wrap
    <3>1. D # D + 1 /\ D - (D + 1) < Wrap /\ (D + 1) - D < Wrap
      BY Sizes
    <3> QED BY <2>1, <3>1, OtherPos
  <2>4. ((D - Cap) + 1) % Wrap # (D + 1) % Wrap
    <3>1. /\ (D - Cap) + 1 \in Int /\ D + 1 \in Int /\ (D - Cap) + 1 # D + 1
          /\ ((D - Cap) + 1) - (D + 1) < Wrap /\ (D + 1) - ((D - Cap) + 1) < Wrap
          /\ Wrap \in Nat \ {0}
      BY Sizes
    <3> QED BY <3>1, ModSame
  <2> QED BY <1>7, <2>2, <2>3, <2>4
<1>9. \A u \in Thread : pc[u] \in PushOwning => P[u] # D
  <2> SUFFICES ASSUME NEW u \in Thread, pc[u] \in PushOwning, P[u] = D PROVE FALSE
    OBVIOUS
  <2>1. seq[D % Cap] = D % Wrap
    BY <1>3 DEF Owning
  <2>2. D + 1 \in Nat /\ D # D + 1 /\ D - (D + 1) < Wrap /\ (D + 1) - D < Wrap
    BY Sizes
  <2> QED BY <1>7, <2>1, <2>2, OtherPos
<1>b. claimed \in Seq(Val) /\ Len(claimed) \in Nat /\ claimed # << >>
  BY <1>2, <1>4, <1>8, LenProperties DEF RingTypeOK
<1>a. /\ deq' = (D + 1) % Wrap /\ pc'[t] = "popRead" /\ UNCHANGED <<enq, seq, cell, pos, val>>
      /\ claimed' = Tail(claimed) /\ expect'[t] = Head(claimed)
      /\ \A u \in Thread \ {t} : pc'[u] = pc[u] /\ expect'[u] = expect[u]
  BY <1>2, <1>4, <1>6, <1>b, IncOn DEF PopCasOk, cellVars, RingTypeOK
<1>c. /\ claimed' \in Seq(Val) /\ Len(claimed') = Len(claimed) - 1
      /\ Head(claimed) = claimed[1] /\ Head(claimed) \in Val
      /\ \A i \in 1 .. Len(claimed) - 1 : claimed'[i] = claimed[i + 1]
  BY <1>a, <1>b, HeadTailProperties
<1>0. cell[D % Cap] = Head(claimed)
  <2>1. D \in D .. E - 1 /\ (D - D) + 1 = 1
    BY <1>8
  <2>2. D % Wrap # (D + 1) % Wrap
    <3>1. D + 1 \in Nat /\ D # D + 1 /\ D - (D + 1) < Wrap /\ (D + 1) - D < Wrap
      BY Sizes
    <3> QED BY <3>1, OtherPos
  <2>3. \/ seq[D % Cap] = D % Wrap
        \/ seq[D % Cap] = (D + 1) % Wrap /\ cell[D % Cap] = claimed[(D - D) + 1]
    BY <1>3, <2>1 DEF Claimed
  <2> QED BY <1>7, <1>c, <2>1, <2>2, <2>3
<1>d. \A u \in Thread : pc'[u] \in Popping => P[u] <= D /\ (D + 1) - P[u] <= MaxLag
  <2> SUFFICES ASSUME NEW u \in Thread, pc'[u] \in Popping
               PROVE  P[u] <= D /\ (D + 1) - P[u] <= MaxLag
    OBVIOUS
  <2>1. u # t /\ pc[u] \in Popping
    BY <1>a DEF Popping
  <2>2. P[u] <= D /\ D - P[u] <= MaxLag /\ P[u] \in Nat /\ pos[u] = P[u] % Wrap
    BY <1>3, <2>1 DEF Waiting, Positions
  <2>3. Ahead((D + 1) % Wrap, P[u] % Wrap) <= MaxLag
    BY <1>4, <2>1, <2>2, IncOn DEF PopCasOk, KeepsUp
  <2>4. Ahead((D + 1) % Wrap, P[u] % Wrap) = (D + 1) - P[u]
    BY <2>2, Sizes, AheadIs
  <2> QED BY <2>2, <2>3, <2>4
<1>e. RingTypeOK'
  <2>1. deq' \in Position
    BY <1>a, PosIn
  <2>2. pc' \in [Thread -> {"idle", "pushSeq", "pushCas", "pushWrite", "pushStore",
                            "popSeq", "popCas", "popRead", "popStore"}]
    BY <1>2 DEF PopCasOk, RingTypeOK
  <2>3. expect' \in [Thread -> Val \cup {NoVal}]
    BY <1>2, <1>b, <1>c DEF PopCasOk, RingTypeOK
  <2> QED BY <1>2, <1>a, <1>c, <2>1, <2>2, <2>3 DEF RingTypeOK
<1>f. Positions(E, D + 1, P)'
  <2>1. D + 1 <= E /\ E - (D + 1) = Len(claimed') /\ Len(claimed') <= Cap
    BY <1>4, <1>8, <1>b, <1>c, Sizes
  <2>2. \A u \in Thread : pos'[u] = P[u] % Wrap
    BY <1>3, <1>a DEF Positions
  <2> QED BY <1>4, <1>a, <2>1, <2>2 DEF Positions
<1>g. Waiting(E, D + 1, P)'
  <2> SUFFICES ASSUME NEW u \in Thread
               PROVE  /\ pc'[u] \in Pushing => P[u] <= E /\ E - P[u] <= MaxLag
                      /\ pc'[u] \in Popping => P[u] <= D + 1 /\ (D + 1) - P[u] <= MaxLag
                      /\ pc'[u] = "pushCas" /\ P[u] = E => seq[E % Cap] = E % Wrap
                      /\ ~ (pc'[u] = "popCas" /\ P[u] = D + 1)
                      /\ pc'[u] \in Pushing \cup PushOwning => val[u] \in Val
    BY <1>a DEF Waiting
  <2>1. P[u] \in Nat
    OBVIOUS
  <2>2. pc'[u] \in Popping => P[u] <= D + 1 /\ (D + 1) - P[u] <= MaxLag /\ P[u] # D + 1
    BY <1>d, <2>1
  <2>3. CASE u = t
    BY <1>a, <2>3 DEF Pushing, Popping, PushOwning
  <2>4. CASE u # t
    BY <1>3, <1>a, <2>2, <2>4 DEF Waiting, Popping
  <2> QED BY <2>3, <2>4
<1>h. Claimed(E, D + 1)'
  <2> SUFFICES ASSUME NEW p \in D + 1 .. E - 1
               PROVE  \/ seq[p % Cap] = p % Wrap
                      \/ seq[p % Cap] = (p + 1) % Wrap /\ cell[p % Cap] = claimed'[(p - (D + 1)) + 1]
    BY <1>a DEF Claimed
  <2>1. p \in D .. E - 1 /\ p - D \in 1 .. Len(claimed) - 1 /\ (p - (D + 1)) + 1 = p - D
    BY <1>4, <1>8
  <2>2. claimed'[(p - (D + 1)) + 1] = claimed[(p - D) + 1]
    BY <1>c, <2>1
  <2> QED BY <1>3, <2>1, <2>2 DEF Claimed
<1>i. Free(E, D + 1)'
  <2> SUFFICES ASSUME NEW p \in E .. D + Cap
               PROVE  seq[p % Cap] = p % Wrap \/ seq[p % Cap] = ((p - Cap) + 1) % Wrap
    <3>1. E .. ((D + 1) + Cap) - 1 = E .. D + Cap
      BY Sizes
    <3> QED BY <1>a, <3>1, Zenon DEF Free
  <2>1. CASE p = D + Cap
    <3>1. p % Cap = D % Cap
      BY <2>1, SameCell
    <3>2. (p - Cap) + 1 = D + 1
      BY <2>1, Sizes
    <3> QED BY <1>7, <3>1, <3>2
  <2>2. CASE p \in E .. (D + Cap) - 1
    BY <1>3, <2>2 DEF Free
  <2> QED BY <2>1, <2>2, Sizes
<1>j. Owning(E, D + 1, P)'
  <2> SUFFICES ASSUME NEW u \in Thread
               PROVE  /\ pc'[u] \in PushOwning =>
                           /\ D + 1 <= P[u] /\ P[u] < E
                           /\ seq[P[u] % Cap] = P[u] % Wrap
                           /\ val[u] = claimed'[(P[u] - (D + 1)) + 1]
                           /\ pc'[u] = "pushStore" => cell[P[u] % Cap] = val[u]
                      /\ pc'[u] \in PopOwning =>
                           /\ E - Cap <= P[u] /\ P[u] < D + 1
                           /\ seq[P[u] % Cap] = (P[u] + 1) % Wrap
                           /\ pc'[u] = "popRead" => cell[P[u] % Cap] = expect'[u]
                           /\ pc'[u] = "popStore" => val[u] = expect'[u]
    BY <1>a DEF Owning
  <2>1. CASE u = t
    <3>1. pc'[u] \notin PushOwning /\ pc'[u] # "popStore" /\ E - Cap <= P[u]
      BY <1>4, <1>6, <1>a, <2>1, Sizes DEF PushOwning
    <3> QED BY <1>0, <1>6, <1>7, <1>a, <2>1, <3>1
  <2>2. CASE u # t /\ pc[u] \in PushOwning
    <3>1. pc'[u] = pc[u] /\ pc'[u] \notin PopOwning /\ P[u] \in Nat
      BY <1>a, <2>2 DEF PushOwning, PopOwning
    <3>2. /\ D <= P[u] /\ P[u] < E /\ P[u] # D /\ seq[P[u] % Cap] = P[u] % Wrap
          /\ val[u] = claimed[(P[u] - D) + 1]
          /\ pc[u] = "pushStore" => cell[P[u] % Cap] = val[u]
      BY <1>3, <1>9, <2>2 DEF Owning
    <3>3. /\ P[u] - D \in 1 .. Len(claimed) - 1 /\ (P[u] - (D + 1)) + 1 = P[u] - D
          /\ D + 1 <= P[u]
      BY <1>4, <3>1, <3>2
    <3>4. val[u] = claimed'[(P[u] - (D + 1)) + 1]
      BY <1>c, <3>2, <3>3
    <3> QED BY <3>1, <3>2, <3>3, <3>4
  <2>3. CASE u # t /\ pc[u] \in PopOwning
    <3>1. pc'[u] = pc[u] /\ pc'[u] \notin PushOwning /\ P[u] \in Nat /\ expect'[u] = expect[u]
      BY <1>a, <2>3 DEF PushOwning, PopOwning
    <3>2. P[u] < D + 1
      BY <1>3, <2>3, <3>1 DEF Owning
    <3> QED BY <1>3, <2>3, <3>1, <3>2 DEF Owning
  <2> QED BY <1>a, <2>1, <2>2, <2>3
<1>k. Apart(P)'
  <2> SUFFICES ASSUME NEW u \in Thread \ {t}, pc[u] \in PushOwning \cup PopOwning
               PROVE  P[u] # P[t]
    BY <1>3, <1>a DEF Apart
  <2>1. pc[u] \in PushOwning => P[u] # D
    BY <1>9
  <2>2. pc[u] \in PopOwning => P[u] < D
    BY <1>3 DEF Owning
  <2> QED BY <1>6, <2>1, <2>2
<1>l. RingInvAt(E, D + 1, P)'
  BY <1>f, <1>g, <1>h, <1>i, <1>j, <1>k DEF RingInvAt
<1>m. D + 1 \in Nat
  OBVIOUS
<1> QED BY <1>e, <1>l, <1>m DEF RingInv

\* An owned cell is not the cell of any other position of the window.
LEMMA OwnedCell ==
  ASSUME NEW E \in Nat, NEW D \in Nat, NEW P \in [Thread -> Nat], RingInvAt(E, D, P),
         NEW t \in Thread, pc[t] \in PushOwning \cup PopOwning
  PROVE  /\ CellOf(pos[t]) = P[t] % Cap /\ P[t] % Cap \in Index /\ P[t] \in Nat
         /\ E - Cap <= P[t] /\ P[t] < E
         /\ \A p \in Nat : (E - Cap <= p /\ p < E /\ p # P[t]) => p % Cap # P[t] % Cap
         /\ \A p \in Nat : (D <= p /\ p < D + Cap /\ p # P[t] /\ p # P[t] + Cap) => p % Cap # P[t] % Cap
         /\ \A u \in Thread \ {t} : pc[u] \in PushOwning \cup PopOwning =>
               /\ P[u] % Cap # P[t] % Cap
               /\ P[u] \in Nat /\ E - Cap <= P[u] /\ P[u] < E
<1>0. P[t] \in Nat /\ pos[t] = P[t] % Wrap /\ D <= E /\ E - D <= Cap
  BY DEF RingInvAt, Positions
<1>1. \A u \in Thread : pc[u] \in PushOwning \cup PopOwning =>
        P[u] \in Nat /\ E - Cap <= P[u] /\ P[u] < E
  <2> SUFFICES ASSUME NEW u \in Thread, pc[u] \in PushOwning \cup PopOwning
               PROVE  P[u] \in Nat /\ E - Cap <= P[u] /\ P[u] < E
    OBVIOUS
  <2>1. P[u] \in Nat
    OBVIOUS
  <2>2. (D <= P[u] /\ P[u] < E) \/ (E - Cap <= P[u] /\ P[u] < D)
    BY DEF RingInvAt, Owning
  <2> QED BY <1>0, <2>1, <2>2, Sizes
<1>2. CellOf(pos[t]) = P[t] % Cap /\ P[t] % Cap \in Index
  BY <1>0, CellOfPos, PosIn
<1>3. \A p \in Nat : (E - Cap <= p /\ p < E /\ p # P[t]) => p % Cap # P[t] % Cap
  <2> SUFFICES ASSUME NEW p \in Nat, E - Cap <= p, p < E, p # P[t] PROVE p % Cap # P[t] % Cap
    OBVIOUS
  <2>1. p - P[t] < Cap /\ P[t] - p < Cap
    BY <1>0, <1>1, Sizes
  <2> QED BY <1>0, <2>1, OtherCell
<1>4. \A p \in Nat : (D <= p /\ p < D + Cap /\ p # P[t] /\ p # P[t] + Cap) => p % Cap # P[t] % Cap
  <2> SUFFICES ASSUME NEW p \in Nat, D <= p, p < D + Cap, p # P[t], p # P[t] + Cap
               PROVE  p % Cap # P[t] % Cap
    OBVIOUS
  <2>1. CASE p < E
    BY <1>0, <1>3, <2>1, Sizes
  <2>2. CASE p >= E
    <3>1. p - Cap \in Nat \/ p < Cap
      BY Sizes
    <3>2. CASE p - P[t] < Cap
      BY <1>0, <1>1, <2>2, <3>2, OtherCell, Sizes
    <3>3. CASE p - P[t] > Cap
      <4>1. P[t] + Cap \in Nat /\ p - (P[t] + Cap) < Cap /\ (P[t] + Cap) - p < Cap
        BY <1>0, <1>1, <3>3, Sizes
      <4> QED BY <1>0, <4>1, OtherCell, SameCell
    <3>4. p - P[t] # Cap
      BY <1>0, Sizes
    <3> QED BY <1>0, <3>2, <3>3, <3>4, Sizes
  <2> QED BY <2>1, <2>2
<1>5. \A u \in Thread \ {t} : pc[u] \in PushOwning \cup PopOwning => P[u] % Cap # P[t] % Cap
  BY <1>1, <1>3 DEF RingInvAt, Apart
<1> QED BY <1>0, <1>1, <1>2, <1>3, <1>4, <1>5

\* A push writes the cell it owns, and no other thread looks at it.
LEMMA PushWrites ==
  ASSUME RingInv, NEW t \in Thread, PushWrite(t)
  PROVE  RingInv'
<1>1. PICK E \in Nat, D \in Nat, P \in [Thread -> Nat] : RingInvAt(E, D, P)
  BY DEF RingInv
<1>2. RingTypeOK
  BY DEF RingInv
<1>3. /\ Positions(E, D, P) /\ Waiting(E, D, P) /\ Claimed(E, D) /\ Free(E, D)
      /\ Owning(E, D, P) /\ Apart(P) /\ D <= E /\ E - D <= Cap
  BY <1>1 DEF RingInvAt, Positions
<1>4. PICK q, i : q = P[t] /\ i = P[t] % Cap
  OBVIOUS
<1>5. pc[t] \in PushOwning /\ pc[t] \in PushOwning \cup PopOwning
  BY DEF PushWrite, PushOwning, PopOwning
<1>6. /\ CellOf(pos[t]) = i /\ i = q % Cap /\ i \in Index /\ q \in Nat /\ E - Cap <= q /\ q < E
      /\ \A p \in Nat : (E - Cap <= p /\ p < E /\ p # q) => p % Cap # i
      /\ \A p \in Nat : (D <= p /\ p < D + Cap /\ p # q /\ p # q + Cap) => p % Cap # i
      /\ \A u \in Thread \ {t} : pc[u] \in PushOwning \cup PopOwning =>
            P[u] % Cap # i /\ P[u] \in Nat /\ E - Cap <= P[u] /\ P[u] < E
  <2>1. /\ CellOf(pos[t]) = P[t] % Cap /\ P[t] % Cap \in Index /\ P[t] \in Nat
        /\ E - Cap <= P[t] /\ P[t] < E
        /\ \A p \in Nat : (E - Cap <= p /\ p < E /\ p # P[t]) => p % Cap # P[t] % Cap
        /\ \A p \in Nat : (D <= p /\ p < D + Cap /\ p # P[t] /\ p # P[t] + Cap) => p % Cap # P[t] % Cap
        /\ \A u \in Thread \ {t} : pc[u] \in PushOwning \cup PopOwning =>
              /\ P[u] % Cap # P[t] % Cap
              /\ P[u] \in Nat /\ E - Cap <= P[u] /\ P[u] < E
    BY <1>1, <1>5, OwnedCell, Zenon
  <2> QED BY <1>4, <2>1, Zenon
<1>7. D <= q /\ seq[i] = q % Wrap /\ val[t] = claimed[(q - D) + 1] /\ val[t] \in Val
  BY <1>3, <1>4, <1>5 DEF Owning, Waiting
<1>8. q % Wrap # (q + 1) % Wrap
  <2>1. q \in Nat /\ q + 1 \in Nat /\ q # q + 1 /\ q - (q + 1) < Wrap /\ (q + 1) - q < Wrap
    BY <1>6, Sizes
  <2> QED BY <2>1, OtherPos
<1>a. /\ cell'[i] = val[t] /\ pc'[t] = "pushStore"
      /\ \A j \in Index \ {i} : cell'[j] = cell[j]
      /\ UNCHANGED <<enq, deq, seq, pos, val, claimed, expect>>
      /\ \A u \in Thread \ {t} : pc'[u] = pc[u]
  BY <1>2, <1>6 DEF PushWrite, posVars, orderVars, RingTypeOK
<1>b. RingTypeOK'
  <2>1. pc' \in [Thread -> {"idle", "pushSeq", "pushCas", "pushWrite", "pushStore",
                            "popSeq", "popCas", "popRead", "popStore"}]
    BY <1>2 DEF PushWrite, RingTypeOK
  <2>2. cell' \in [Index -> Val \cup {NoVal}]
    BY <1>2, <1>7 DEF PushWrite, RingTypeOK
  <2> QED BY <1>2, <1>a, <2>1, <2>2 DEF RingTypeOK
<1>c. Positions(E, D, P)'
  BY <1>3, <1>a DEF Positions
<1>d. Waiting(E, D, P)'
  <2> SUFFICES ASSUME NEW u \in Thread
               PROVE  /\ pc'[u] \in Pushing => P[u] <= E /\ E - P[u] <= MaxLag
                      /\ pc'[u] \in Popping => P[u] <= D /\ D - P[u] <= MaxLag
                      /\ pc'[u] = "pushCas" /\ P[u] = E => seq[E % Cap] = E % Wrap
                      /\ pc'[u] = "popCas" /\ P[u] = D => seq[D % Cap] = (D + 1) % Wrap
                      /\ pc'[u] \in Pushing \cup PushOwning => val[u] \in Val
    BY <1>a DEF Waiting
  <2>1. CASE u = t
    BY <1>7, <1>a, <2>1 DEF Pushing, Popping
  <2>2. CASE u # t
    BY <1>3, <1>a, <2>2 DEF Waiting
  <2> QED BY <2>1, <2>2
<1>e. Claimed(E, D)'
  <2> SUFFICES ASSUME NEW p \in D .. E - 1
               PROVE  \/ seq[p % Cap] = p % Wrap
                      \/ seq[p % Cap] = (p + 1) % Wrap /\ cell'[p % Cap] = claimed[(p - D) + 1]
    BY <1>a DEF Claimed
  <2>1. CASE p = q
    BY <1>6, <1>7, <2>1
  <2>2. CASE p # q
    <3>1. p % Cap # i /\ p % Cap \in Index
      <4>1. p \in Nat /\ p \in Int /\ D <= p /\ p < E
        OBVIOUS
      <4>2. Cap \in Nat /\ E - Cap <= p
        BY <1>3, <4>1, Sizes
      <4>3. p % Cap # i
        BY <1>6, <2>2, <4>1, <4>2, Zenon
      <4> QED BY <4>1, <4>3, PosIn, Zenon
    <3> QED BY <1>3, <1>a, <3>1 DEF Claimed
  <2> QED BY <2>1, <2>2
<1>f. Free(E, D)'
  BY <1>3, <1>a DEF Free
<1>g. Owning(E, D, P)'
  <2> SUFFICES ASSUME NEW u \in Thread
               PROVE  /\ pc'[u] \in PushOwning =>
                           /\ D <= P[u] /\ P[u] < E
                           /\ seq[P[u] % Cap] = P[u] % Wrap
                           /\ val[u] = claimed[(P[u] - D) + 1]
                           /\ pc'[u] = "pushStore" => cell'[P[u] % Cap] = val[u]
                      /\ pc'[u] \in PopOwning =>
                           /\ E - Cap <= P[u] /\ P[u] < D
                           /\ seq[P[u] % Cap] = (P[u] + 1) % Wrap
                           /\ pc'[u] = "popRead" => cell'[P[u] % Cap] = expect[u]
                           /\ pc'[u] = "popStore" => val[u] = expect[u]
    BY <1>a DEF Owning
  <2>1. CASE u = t
    BY <1>4, <1>6, <1>7, <1>a, <2>1 DEF PopOwning
  <2>2. CASE u # t /\ pc[u] \in PushOwning \cup PopOwning
    <3>1. P[u] % Cap # i /\ P[u] % Cap \in Index /\ pc'[u] = pc[u]
      BY <1>6, <1>a, <2>2, PosIn
    <3>2. cell'[P[u] % Cap] = cell[P[u] % Cap]
      BY <1>a, <3>1
    <3> QED BY <1>3, <2>2, <3>1, <3>2 DEF Owning
  <2> QED BY <1>a, <2>1, <2>2
<1>h. Apart(P)'
  BY <1>3, <1>5, <1>a DEF Apart
<1>z. RingInvAt(E, D, P)'
  BY <1>c, <1>d, <1>e, <1>f, <1>g, <1>h DEF RingInvAt
<1> QED BY <1>b, <1>z DEF RingInv

\* A pop takes the value its claim promised.
LEMMA PopReads ==
  ASSUME RingInv, NEW t \in Thread, PopRead(t)
  PROVE  RingInv'
<1>1. PICK E \in Nat, D \in Nat, P \in [Thread -> Nat] : RingInvAt(E, D, P)
  BY DEF RingInv
<1>2. RingTypeOK
  BY DEF RingInv
<1>3. /\ Positions(E, D, P) /\ Waiting(E, D, P) /\ Claimed(E, D) /\ Free(E, D)
      /\ Owning(E, D, P) /\ Apart(P) /\ D <= E /\ E - D <= Cap
  BY <1>1 DEF RingInvAt, Positions
<1>4. PICK q, i : q = P[t] /\ i = P[t] % Cap
  OBVIOUS
<1>5. pc[t] \in PopOwning /\ pc[t] \in PushOwning \cup PopOwning
  BY DEF PopRead, PushOwning, PopOwning
<1>6. /\ CellOf(pos[t]) = i /\ i = q % Cap /\ i \in Index /\ q \in Nat /\ E - Cap <= q /\ q < E
      /\ \A p \in Nat : (E - Cap <= p /\ p < E /\ p # q) => p % Cap # i
      /\ \A p \in Nat : (D <= p /\ p < D + Cap /\ p # q /\ p # q + Cap) => p % Cap # i
      /\ \A u \in Thread \ {t} : pc[u] \in PushOwning \cup PopOwning =>
            P[u] % Cap # i /\ P[u] \in Nat /\ E - Cap <= P[u] /\ P[u] < E
  <2>1. /\ CellOf(pos[t]) = P[t] % Cap /\ P[t] % Cap \in Index /\ P[t] \in Nat
        /\ E - Cap <= P[t] /\ P[t] < E
        /\ \A p \in Nat : (E - Cap <= p /\ p < E /\ p # P[t]) => p % Cap # P[t] % Cap
        /\ \A p \in Nat : (D <= p /\ p < D + Cap /\ p # P[t] /\ p # P[t] + Cap) => p % Cap # P[t] % Cap
        /\ \A u \in Thread \ {t} : pc[u] \in PushOwning \cup PopOwning =>
              /\ P[u] % Cap # P[t] % Cap
              /\ P[u] \in Nat /\ E - Cap <= P[u] /\ P[u] < E
    BY <1>1, <1>5, OwnedCell, Zenon
  <2> QED BY <1>4, <2>1, Zenon
<1>7. q < D /\ seq[i] = (q + 1) % Wrap /\ cell[i] = expect[t]
  BY <1>3, <1>4, <1>5 DEF Owning, PopRead
<1>a. /\ cell'[i] = NoVal /\ val'[t] = expect[t] /\ pc'[t] = "popStore"
      /\ \A j \in Index \ {i} : cell'[j] = cell[j]
      /\ UNCHANGED <<enq, deq, seq, pos, claimed, expect>>
      /\ \A u \in Thread \ {t} : pc'[u] = pc[u] /\ val'[u] = val[u]
  <2>1. cell[CellOf(pos[t])] = expect[t]
    BY <1>6, <1>7
  <2>2. val'[t] = expect[t] /\ \A u \in Thread \ {t} : val'[u] = val[u]
    BY <1>2, <2>1 DEF PopRead, RingTypeOK
  <2>3. cell'[i] = NoVal /\ \A j \in Index \ {i} : cell'[j] = cell[j]
    BY <1>2, <1>6 DEF PopRead, RingTypeOK
  <2> QED BY <1>2, <2>2, <2>3 DEF PopRead, posVars, orderVars, RingTypeOK
<1>b. RingTypeOK'
  <2>1. pc' \in [Thread -> {"idle", "pushSeq", "pushCas", "pushWrite", "pushStore",
                            "popSeq", "popCas", "popRead", "popStore"}]
    BY <1>2 DEF PopRead, RingTypeOK
  <2>2. cell' \in [Index -> Val \cup {NoVal}]
    BY <1>2 DEF PopRead, RingTypeOK
  <2>3. val' \in [Thread -> Val \cup {NoVal}]
    BY <1>2, <1>6 DEF PopRead, RingTypeOK
  <2> QED BY <1>2, <1>a, <2>1, <2>2, <2>3 DEF RingTypeOK
<1>c. Positions(E, D, P)'
  BY <1>3, <1>a DEF Positions
<1>d. Waiting(E, D, P)'
  <2> SUFFICES ASSUME NEW u \in Thread
               PROVE  /\ pc'[u] \in Pushing => P[u] <= E /\ E - P[u] <= MaxLag
                      /\ pc'[u] \in Popping => P[u] <= D /\ D - P[u] <= MaxLag
                      /\ pc'[u] = "pushCas" /\ P[u] = E => seq[E % Cap] = E % Wrap
                      /\ pc'[u] = "popCas" /\ P[u] = D => seq[D % Cap] = (D + 1) % Wrap
                      /\ pc'[u] \in Pushing \cup PushOwning => val'[u] \in Val
    BY <1>a DEF Waiting
  <2>1. CASE u = t
    BY <1>a, <2>1 DEF Pushing, Popping, PushOwning
  <2>2. CASE u # t
    BY <1>3, <1>a, <2>2 DEF Waiting
  <2> QED BY <2>1, <2>2
<1>e. Claimed(E, D)'
  <2> SUFFICES ASSUME NEW p \in D .. E - 1
               PROVE  \/ seq[p % Cap] = p % Wrap
                      \/ seq[p % Cap] = (p + 1) % Wrap /\ cell'[p % Cap] = claimed[(p - D) + 1]
    BY <1>a DEF Claimed
  <2>0. p \in Nat /\ p \in Int /\ E - Cap <= p /\ p < E /\ p # q
    BY <1>3, <1>6, <1>7, Sizes
  <2>1. p % Cap # i /\ p % Cap \in Index
    BY <1>6, <2>0, PosIn
  <2> QED BY <1>3, <1>a, <2>1 DEF Claimed
<1>f. Free(E, D)'
  BY <1>3, <1>a DEF Free
<1>g. Owning(E, D, P)'
  <2> SUFFICES ASSUME NEW u \in Thread
               PROVE  /\ pc'[u] \in PushOwning =>
                           /\ D <= P[u] /\ P[u] < E
                           /\ seq[P[u] % Cap] = P[u] % Wrap
                           /\ val'[u] = claimed[(P[u] - D) + 1]
                           /\ pc'[u] = "pushStore" => cell'[P[u] % Cap] = val'[u]
                      /\ pc'[u] \in PopOwning =>
                           /\ E - Cap <= P[u] /\ P[u] < D
                           /\ seq[P[u] % Cap] = (P[u] + 1) % Wrap
                           /\ pc'[u] = "popRead" => cell'[P[u] % Cap] = expect[u]
                           /\ pc'[u] = "popStore" => val'[u] = expect[u]
    BY <1>a DEF Owning
  <2>1. CASE u = t
    BY <1>4, <1>6, <1>7, <1>a, <2>1 DEF PushOwning
  <2>2. CASE u # t /\ pc[u] \in PushOwning \cup PopOwning
    <3>1. P[u] % Cap # i /\ P[u] % Cap \in Index /\ pc'[u] = pc[u] /\ val'[u] = val[u]
      BY <1>6, <1>a, <2>2, PosIn
    <3>2. cell'[P[u] % Cap] = cell[P[u] % Cap]
      BY <1>a, <3>1
    <3> QED BY <1>3, <2>2, <3>1, <3>2 DEF Owning
  <2> QED BY <1>a, <2>1, <2>2
<1>h. Apart(P)'
  BY <1>3, <1>5, <1>a DEF Apart
<1>z. RingInvAt(E, D, P)'
  BY <1>c, <1>d, <1>e, <1>f, <1>g, <1>h DEF RingInvAt
<1> QED BY <1>b, <1>z DEF RingInv

\* The store of a push publishes its value to the pops.
LEMMA PushStores ==
  ASSUME RingInv, NEW t \in Thread, PushStore(t)
  PROVE  RingInv'
<1>1. PICK E \in Nat, D \in Nat, P \in [Thread -> Nat] : RingInvAt(E, D, P)
  BY DEF RingInv
<1>2. RingTypeOK
  BY DEF RingInv
<1>3. /\ Positions(E, D, P) /\ Waiting(E, D, P) /\ Claimed(E, D) /\ Free(E, D)
      /\ Owning(E, D, P) /\ Apart(P) /\ D <= E /\ E - D <= Cap
  BY <1>1 DEF RingInvAt, Positions
<1>4. PICK q, i : q = P[t] /\ i = P[t] % Cap
  OBVIOUS
<1>5. pc[t] \in PushOwning /\ pc[t] \in PushOwning \cup PopOwning
  BY DEF PushStore, PushOwning, PopOwning
<1>6. /\ CellOf(pos[t]) = i /\ i = q % Cap /\ i \in Index /\ q \in Nat /\ E - Cap <= q /\ q < E
      /\ \A p \in Nat : (E - Cap <= p /\ p < E /\ p # q) => p % Cap # i
      /\ \A p \in Nat : (D <= p /\ p < D + Cap /\ p # q /\ p # q + Cap) => p % Cap # i
      /\ \A u \in Thread \ {t} : pc[u] \in PushOwning \cup PopOwning =>
            P[u] % Cap # i /\ P[u] \in Nat /\ E - Cap <= P[u] /\ P[u] < E
  <2>1. /\ CellOf(pos[t]) = P[t] % Cap /\ P[t] % Cap \in Index /\ P[t] \in Nat
        /\ E - Cap <= P[t] /\ P[t] < E
        /\ \A p \in Nat : (E - Cap <= p /\ p < E /\ p # P[t]) => p % Cap # P[t] % Cap
        /\ \A p \in Nat : (D <= p /\ p < D + Cap /\ p # P[t] /\ p # P[t] + Cap) => p % Cap # P[t] % Cap
        /\ \A u \in Thread \ {t} : pc[u] \in PushOwning \cup PopOwning =>
              /\ P[u] % Cap # P[t] % Cap
              /\ P[u] \in Nat /\ E - Cap <= P[u] /\ P[u] < E
    BY <1>1, <1>5, OwnedCell, Zenon
  <2> QED BY <1>4, <2>1, Zenon
<1>7. D <= q /\ seq[i] = q % Wrap /\ cell[i] = claimed[(q - D) + 1]
  BY <1>3, <1>4, <1>5 DEF Owning, PushStore
<1>a. /\ seq'[i] = (q + 1) % Wrap /\ pc'[t] = "idle"
      /\ \A j \in Index \ {i} : seq'[j] = seq[j]
      /\ UNCHANGED <<enq, deq, cell, pos, claimed, expect>>
      /\ \A u \in Thread \ {t} : pc'[u] = pc[u] /\ val'[u] = val[u]
  <2>1. Inc(pos[t]) = (q + 1) % Wrap
    BY <1>3, <1>4, <1>6, IncOn DEF Positions
  <2>2. seq'[i] = (q + 1) % Wrap /\ \A j \in Index \ {i} : seq'[j] = seq[j]
    BY <1>2, <1>6, <2>1 DEF PushStore, RingTypeOK
  <2> QED BY <1>2, <2>2 DEF PushStore, posVars, orderVars, RingTypeOK
<1>b. RingTypeOK'
  <2>1. pc' \in [Thread -> {"idle", "pushSeq", "pushCas", "pushWrite", "pushStore",
                            "popSeq", "popCas", "popRead", "popStore"}]
    BY <1>2 DEF PushStore, RingTypeOK
  <2>2. seq' \in [Index -> Position]
    <3>1. (q + 1) % Wrap \in Position
      BY <1>6, PosIn
    <3>2. Inc(pos[t]) = (q + 1) % Wrap
      BY <1>3, <1>4, <1>6, IncOn DEF Positions
    <3> QED BY <1>2, <3>1, <3>2 DEF PushStore, RingTypeOK
  <2>3. val' \in [Thread -> Val \cup {NoVal}]
    BY <1>2 DEF PushStore, RingTypeOK
  <2> QED BY <1>2, <1>a, <2>1, <2>2, <2>3 DEF RingTypeOK
<1>c. Positions(E, D, P)'
  BY <1>3, <1>a DEF Positions
<1>8. seq[E % Cap] = E % Wrap => seq'[E % Cap] = E % Wrap
  <2> SUFFICES ASSUME seq[E % Cap] = E % Wrap PROVE E % Cap # i /\ E % Cap \in Index
    BY <1>a
  <2>1. CASE E - q < Cap
    <3>1. E # q /\ q - E < Cap
      BY <1>6, Sizes
    <3> QED BY <1>6, <2>1, <3>1, OtherCell, PosIn
  <2>2. CASE E = q + Cap
    <3>1. seq[q % Cap] = E % Wrap
      BY <1>6, <2>2, SameCell
    <3>2. q \in Nat /\ E # q /\ E - q < Wrap /\ q - E < Wrap
      BY <1>6, <2>2, Sizes
    <3> QED BY <1>6, <1>7, <3>1, <3>2, OtherPos
  <2>3. E - q < Cap \/ E = q + Cap
    BY <1>6, Sizes
  <2> QED BY <2>1, <2>2, <2>3
<1>9. seq[D % Cap] = (D + 1) % Wrap => seq'[D % Cap] = (D + 1) % Wrap
  <2>1. CASE D = q
    BY <1>6, <1>a, <2>1
  <2>2. CASE D # q
    <3>1. E - Cap <= D /\ D < E
      BY <1>3, <1>6, <1>7, Sizes
    <3>2. D % Cap # i /\ D % Cap \in Index
      BY <1>6, <2>2, <3>1, PosIn
    <3> QED BY <1>a, <3>2
  <2> QED BY <2>1, <2>2
<1>d. Waiting(E, D, P)'
  <2> SUFFICES ASSUME NEW u \in Thread
               PROVE  /\ pc'[u] \in Pushing => P[u] <= E /\ E - P[u] <= MaxLag
                      /\ pc'[u] \in Popping => P[u] <= D /\ D - P[u] <= MaxLag
                      /\ pc'[u] = "pushCas" /\ P[u] = E => seq'[E % Cap] = E % Wrap
                      /\ pc'[u] = "popCas" /\ P[u] = D => seq'[D % Cap] = (D + 1) % Wrap
                      /\ pc'[u] \in Pushing \cup PushOwning => val'[u] \in Val
    BY <1>a DEF Waiting
  <2>1. CASE u = t
    BY <1>a, <2>1 DEF Pushing, Popping, PushOwning
  <2>2. CASE u # t
    BY <1>3, <1>8, <1>9, <1>a, <2>2 DEF Waiting
  <2> QED BY <2>1, <2>2
<1>e. Claimed(E, D)'
  <2> SUFFICES ASSUME NEW p \in D .. E - 1
               PROVE  \/ seq'[p % Cap] = p % Wrap
                      \/ seq'[p % Cap] = (p + 1) % Wrap /\ cell[p % Cap] = claimed[(p - D) + 1]
    BY <1>a DEF Claimed
  <2>1. CASE p = q
    BY <1>6, <1>7, <1>a, <2>1
  <2>2. CASE p # q
    <3>1. p % Cap # i /\ p % Cap \in Index
      <4>1. p \in Nat /\ p \in Int /\ D <= p /\ p < E
        OBVIOUS
      <4>2. Cap \in Nat /\ E - Cap <= p
        BY <1>3, <4>1, Sizes
      <4>3. p % Cap # i
        BY <1>6, <2>2, <4>1, <4>2, Zenon
      <4> QED BY <4>1, <4>3, PosIn, Zenon
    <3> QED BY <1>3, <1>a, <3>1 DEF Claimed
  <2> QED BY <2>1, <2>2
<1>f. Free(E, D)'
  <2> SUFFICES ASSUME NEW p \in E .. (D + Cap) - 1
               PROVE  seq'[p % Cap] = p % Wrap \/ seq'[p % Cap] = ((p - Cap) + 1) % Wrap
    BY DEF Free
  <2>1. p \in Nat /\ D <= p /\ p < D + Cap /\ p # q /\ p # q + Cap
    BY <1>3, <1>6, <1>7, Sizes
  <2>2. p % Cap # i /\ p % Cap \in Index
    BY <1>6, <2>1, PosIn
  <2> QED BY <1>3, <1>a, <2>2 DEF Free
<1>g. Owning(E, D, P)'
  <2> SUFFICES ASSUME NEW u \in Thread, u # t, pc[u] \in PushOwning \cup PopOwning
               PROVE  /\ pc[u] \in PushOwning =>
                           /\ D <= P[u] /\ P[u] < E
                           /\ seq'[P[u] % Cap] = P[u] % Wrap
                           /\ val'[u] = claimed[(P[u] - D) + 1]
                           /\ pc[u] = "pushStore" => cell[P[u] % Cap] = val'[u]
                      /\ pc[u] \in PopOwning =>
                           /\ E - Cap <= P[u] /\ P[u] < D
                           /\ seq'[P[u] % Cap] = (P[u] + 1) % Wrap
                           /\ pc[u] = "popRead" => cell[P[u] % Cap] = expect'[u]
                           /\ pc[u] = "popStore" => val'[u] = expect'[u]
    BY <1>a DEF Owning, PushOwning, PopOwning
  <2>1. P[u] % Cap # i /\ P[u] % Cap \in Index /\ val'[u] = val[u] /\ expect'[u] = expect[u]
    BY <1>6, <1>a, PosIn
  <2>2. seq'[P[u] % Cap] = seq[P[u] % Cap]
    BY <1>a, <2>1
  <2> QED BY <1>3, <2>1, <2>2 DEF Owning
<1>h. Apart(P)'
  BY <1>3, <1>a DEF Apart, PushOwning, PopOwning
<1>z. RingInvAt(E, D, P)'
  BY <1>c, <1>d, <1>e, <1>f, <1>g, <1>h DEF RingInvAt
<1> QED BY <1>b, <1>z DEF RingInv

\* The store of a pop frees its cell for the next lap.
LEMMA PopStores ==
  ASSUME RingInv, NEW t \in Thread, PopStore(t)
  PROVE  RingInv'
<1>1. PICK E \in Nat, D \in Nat, P \in [Thread -> Nat] : RingInvAt(E, D, P)
  BY DEF RingInv
<1>2. RingTypeOK
  BY DEF RingInv
<1>3. /\ Positions(E, D, P) /\ Waiting(E, D, P) /\ Claimed(E, D) /\ Free(E, D)
      /\ Owning(E, D, P) /\ Apart(P) /\ D <= E /\ E - D <= Cap
  BY <1>1 DEF RingInvAt, Positions
<1>4. PICK q, i : q = P[t] /\ i = P[t] % Cap
  OBVIOUS
<1>5. pc[t] \in PopOwning /\ pc[t] \in PushOwning \cup PopOwning
  BY DEF PopStore, PushOwning, PopOwning
<1>6. /\ CellOf(pos[t]) = i /\ i = q % Cap /\ i \in Index /\ q \in Nat /\ E - Cap <= q /\ q < E
      /\ \A p \in Nat : (E - Cap <= p /\ p < E /\ p # q) => p % Cap # i
      /\ \A p \in Nat : (D <= p /\ p < D + Cap /\ p # q /\ p # q + Cap) => p % Cap # i
      /\ \A u \in Thread \ {t} : pc[u] \in PushOwning \cup PopOwning =>
            P[u] % Cap # i /\ P[u] \in Nat /\ E - Cap <= P[u] /\ P[u] < E
  <2>1. /\ CellOf(pos[t]) = P[t] % Cap /\ P[t] % Cap \in Index /\ P[t] \in Nat
        /\ E - Cap <= P[t] /\ P[t] < E
        /\ \A p \in Nat : (E - Cap <= p /\ p < E /\ p # P[t]) => p % Cap # P[t] % Cap
        /\ \A p \in Nat : (D <= p /\ p < D + Cap /\ p # P[t] /\ p # P[t] + Cap) => p % Cap # P[t] % Cap
        /\ \A u \in Thread \ {t} : pc[u] \in PushOwning \cup PopOwning =>
              /\ P[u] % Cap # P[t] % Cap
              /\ P[u] \in Nat /\ E - Cap <= P[u] /\ P[u] < E
    BY <1>1, <1>5, OwnedCell, Zenon
  <2> QED BY <1>4, <2>1, Zenon
<1>7. q < D /\ seq[i] = (q + 1) % Wrap
  BY <1>3, <1>4, <1>5 DEF Owning, PopStore
<1>a. /\ seq'[i] = (q + Cap) % Wrap /\ pc'[t] = "idle"
      /\ \A j \in Index \ {i} : seq'[j] = seq[j]
      /\ UNCHANGED <<enq, deq, cell, pos, claimed, val>>
      /\ \A u \in Thread \ {t} : pc'[u] = pc[u] /\ expect'[u] = expect[u]
  <2>1. ReleasedSeq(pos[t]) = (q + Cap) % Wrap
    BY <1>3, <1>4, <1>6, IncOn DEF Positions
  <2>2. seq'[i] = (q + Cap) % Wrap /\ \A j \in Index \ {i} : seq'[j] = seq[j]
    BY <1>2, <1>6, <2>1 DEF PopStore, RingTypeOK
  <2> QED BY <1>2, <2>2 DEF PopStore, posVars, RingTypeOK
<1>b. RingTypeOK'
  <2>1. pc' \in [Thread -> {"idle", "pushSeq", "pushCas", "pushWrite", "pushStore",
                            "popSeq", "popCas", "popRead", "popStore"}]
    BY <1>2 DEF PopStore, RingTypeOK
  <2>2. seq' \in [Index -> Position]
    <3>1. q + Cap \in Int
      BY <1>6, Sizes
    <3>2. (q + Cap) % Wrap \in Position /\ ReleasedSeq(pos[t]) = (q + Cap) % Wrap
      BY <1>3, <1>4, <1>6, <3>1, IncOn, PosIn DEF Positions
    <3> QED BY <1>2, <3>2 DEF PopStore, RingTypeOK
  <2>3. expect' \in [Thread -> Val \cup {NoVal}]
    BY <1>2 DEF PopStore, RingTypeOK
  <2> QED BY <1>2, <1>a, <2>1, <2>2, <2>3 DEF RingTypeOK
<1>c. Positions(E, D, P)'
  BY <1>3, <1>a DEF Positions
<1>8. seq[E % Cap] = E % Wrap => seq'[E % Cap] = E % Wrap
  <2>1. CASE E - q < Cap
    <3>1. E # q /\ q - E < Cap
      BY <1>6, Sizes
    <3>2. E % Cap # i /\ E % Cap \in Index
      BY <1>6, <2>1, <3>1, OtherCell, PosIn
    <3> QED BY <1>a, <3>2
  <2>2. CASE E = q + Cap
    <3>1. E % Cap = i
      BY <1>6, <2>2, SameCell
    <3> QED BY <1>a, <2>2, <3>1
  <2>3. E - q < Cap \/ E = q + Cap
    BY <1>6, Sizes
  <2> QED BY <2>1, <2>2, <2>3
<1>9. seq[D % Cap] = (D + 1) % Wrap => seq'[D % Cap] = (D + 1) % Wrap
  <2> SUFFICES ASSUME seq[D % Cap] = (D + 1) % Wrap PROVE D % Cap # i /\ D % Cap \in Index
    BY <1>a
  <2>1. CASE D - q < Cap
    <3>1. D # q /\ q - D < Cap
      BY <1>6, <1>7, Sizes
    <3> QED BY <1>6, <2>1, <3>1, OtherCell, PosIn
  <2>2. CASE D = q + Cap
    <3>1. seq[q % Cap] = (D + 1) % Wrap
      BY <1>6, <2>2, SameCell
    <3>2. /\ q + 1 \in Nat /\ D + 1 \in Nat /\ q + 1 # D + 1
          /\ (q + 1) - (D + 1) < Wrap /\ (D + 1) - (q + 1) < Wrap
      BY <1>6, <2>2, Sizes
    <3> QED BY <1>6, <1>7, <3>1, <3>2, OtherPos
  <2>3. D - q < Cap \/ D = q + Cap
    <3>1. D - q <= Cap
      BY <1>3, <1>6, <1>7, Sizes
    <3> QED BY <1>6, <3>1, Sizes
  <2> QED BY <2>1, <2>2, <2>3
<1>d. Waiting(E, D, P)'
  <2> SUFFICES ASSUME NEW u \in Thread
               PROVE  /\ pc'[u] \in Pushing => P[u] <= E /\ E - P[u] <= MaxLag
                      /\ pc'[u] \in Popping => P[u] <= D /\ D - P[u] <= MaxLag
                      /\ pc'[u] = "pushCas" /\ P[u] = E => seq'[E % Cap] = E % Wrap
                      /\ pc'[u] = "popCas" /\ P[u] = D => seq'[D % Cap] = (D + 1) % Wrap
                      /\ pc'[u] \in Pushing \cup PushOwning => val'[u] \in Val
    BY <1>a DEF Waiting
  <2>1. CASE u = t
    BY <1>a, <2>1 DEF Pushing, Popping, PushOwning
  <2>2. CASE u # t
    BY <1>3, <1>8, <1>9, <1>a, <2>2 DEF Waiting
  <2> QED BY <2>1, <2>2
<1>e. Claimed(E, D)'
  <2> SUFFICES ASSUME NEW p \in D .. E - 1
               PROVE  \/ seq'[p % Cap] = p % Wrap
                      \/ seq'[p % Cap] = (p + 1) % Wrap /\ cell[p % Cap] = claimed[(p - D) + 1]
    BY <1>a DEF Claimed
  <2>0. p \in Nat /\ p \in Int /\ E - Cap <= p /\ p < E /\ p # q
    BY <1>3, <1>6, <1>7, Sizes
  <2>1. p % Cap # i /\ p % Cap \in Index
    BY <1>6, <2>0, PosIn
  <2> QED BY <1>3, <1>a, <2>1 DEF Claimed
<1>f. Free(E, D)'
  <2> SUFFICES ASSUME NEW p \in E .. (D + Cap) - 1
               PROVE  seq'[p % Cap] = p % Wrap \/ seq'[p % Cap] = ((p - Cap) + 1) % Wrap
    BY DEF Free
  <2>1. p \in Nat /\ D <= p /\ p < D + Cap /\ p # q
    BY <1>3, <1>6, <1>7, Sizes
  <2>2. CASE p = q + Cap
    <3>1. p % Cap = i
      BY <1>6, <2>2, SameCell
    <3> QED BY <1>a, <2>2, <3>1
  <2>3. CASE p # q + Cap
    <3>1. p % Cap # i /\ p % Cap \in Index
      BY <1>6, <2>1, <2>3, PosIn
    <3> QED BY <1>3, <1>a, <3>1 DEF Free
  <2> QED BY <2>2, <2>3
<1>g. Owning(E, D, P)'
  <2> SUFFICES ASSUME NEW u \in Thread, u # t, pc[u] \in PushOwning \cup PopOwning
               PROVE  /\ pc[u] \in PushOwning =>
                           /\ D <= P[u] /\ P[u] < E
                           /\ seq'[P[u] % Cap] = P[u] % Wrap
                           /\ val'[u] = claimed[(P[u] - D) + 1]
                           /\ pc[u] = "pushStore" => cell[P[u] % Cap] = val'[u]
                      /\ pc[u] \in PopOwning =>
                           /\ E - Cap <= P[u] /\ P[u] < D
                           /\ seq'[P[u] % Cap] = (P[u] + 1) % Wrap
                           /\ pc[u] = "popRead" => cell[P[u] % Cap] = expect'[u]
                           /\ pc[u] = "popStore" => val'[u] = expect'[u]
    BY <1>a DEF Owning, PushOwning, PopOwning
  <2>1. P[u] % Cap # i /\ P[u] % Cap \in Index /\ val'[u] = val[u] /\ expect'[u] = expect[u]
    BY <1>6, <1>a, PosIn
  <2>2. seq'[P[u] % Cap] = seq[P[u] % Cap]
    BY <1>a, <2>1
  <2> QED BY <1>3, <2>1, <2>2 DEF Owning
<1>h. Apart(P)'
  BY <1>3, <1>a DEF Apart, PushOwning, PopOwning
<1>z. RingInvAt(E, D, P)'
  BY <1>c, <1>d, <1>e, <1>f, <1>g, <1>h DEF RingInvAt
<1> QED BY <1>b, <1>z DEF RingInv

-----------------------------------------------------------------------------
\* The result of a finished call is handed on: the pool does this, and a step
\* of the queue alone never does.
HandedOn(t) ==
    /\ pc[t] = "idle" /\ val' = [val EXCEPT ![t] = NoVal]
    /\ UNCHANGED <<posVars, cellVars, pc, pos, orderVars>>

\* Every step of every thread keeps the invariant.
LEMMA RingInvStep ==
  ASSUME RingInv, Cap > 1, NEW t \in Thread,
         (\E v \in Val : PushStart(t, v)) \/ PopStart(t) \/ Step(t) \/ HandedOn(t)
  PROVE  RingInv'
<1>1. CASE HandedOn(t)
  <2>1. PICK E \in Nat, D \in Nat, P \in [Thread -> Nat] : RingInvAt(E, D, P)
    BY DEF RingInv
  <2>2. RingTypeOK /\ RingTypeOK'
    BY <1>1 DEF RingInv, RingTypeOK, HandedOn, posVars, cellVars, orderVars
  <2>3. /\ UNCHANGED <<enq, deq, seq, cell, claimed, expect, pc, pos>> /\ pc'[t] = "idle"
        /\ \A u \in Thread \ {t} : val'[u] = val[u]
    BY <1>1, <2>2 DEF HandedOn, posVars, cellVars, orderVars, RingTypeOK
  <2>4. /\ pc'[t] \notin PushOwning \cup PopOwning /\ pc'[t] \notin Pushing
        /\ pc'[t] \notin Popping /\ pc'[t] # "pushCas" /\ pc'[t] # "popCas"
    BY <2>3 DEF PushOwning, PopOwning, Pushing, Popping
  <2>5. pos'[t] = P[t] % Wrap /\ P[t] \in Nat
    BY <2>1, <2>3 DEF RingInvAt, Positions
  <2>6. \E Q \in [Thread -> Nat] : RingInvAt(E, D, Q)'
    BY <2>1, <2>2, <2>3, <2>4, <2>5, QuietStep
  <2> QED BY <2>2, <2>6 DEF RingInv
<1>2. CASE PushCasOk(t)
  BY <1>2, PushClaims
<1>3. CASE PopCasOk(t)
  BY <1>3, PopClaims
<1>4. CASE PushWrite(t) \/ PushStore(t) \/ PopRead(t) \/ PopStore(t)
  BY <1>4, PushWrites, PushStores, PopReads, PopStores
<1> QED BY <1>1, <1>2, <1>3, <1>4, QuietSteps DEF Step

\* So does a step that leaves the queue alone.
LEMMA RingInvStutter ==
  ASSUME RingInv, UNCHANGED ringVars
  PROVE  RingInv'
<1>1. UNCHANGED <<enq, deq, seq, cell, pc, pos, val, claimed, expect>>
  BY DEF ringVars, posVars, cellVars, orderVars
<1>2. RingTypeOK'
  BY <1>1 DEF RingInv, RingTypeOK
<1>3. PICK E \in Nat, D \in Nat, P \in [Thread -> Nat] : RingInvAt(E, D, P)
  BY DEF RingInv
<1>4. RingInvAt(E, D, P)'
  BY <1>1, <1>3 DEF RingInvAt, Positions, Waiting, Claimed, Free, Owning, Apart
<1> QED BY <1>2, <1>4 DEF RingInv

\* An empty queue: every cell is free for the first lap.
LEMMA RingInvInit == RingInit => RingInv
<1> SUFFICES ASSUME RingInit PROVE RingInv
  OBVIOUS
<1>1. RingTypeOK
  <2>1. 0 \in Position /\ seq \in [Index -> Position]
    BY Sizes DEF RingInit, Position, Index
  <2> QED BY <2>1 DEF RingInit, RingTypeOK
<1>2. PICK P : P = [t \in Thread |-> 0]
  OBVIOUS
<1>3. P \in [Thread -> Nat] /\ \A t \in Thread : P[t] = 0
  BY <1>2
<1>4. 0 % Wrap = 0
  BY Sizes
<1>5. Positions(0, 0, P)
  BY <1>3, <1>4, Sizes DEF RingInit, Positions
<1>6. Waiting(0, 0, P) /\ Owning(0, 0, P) /\ Apart(P)
  BY DEF RingInit, Waiting, Owning, Apart, Pushing, Popping, PushOwning, PopOwning
<1>7. Claimed(0, 0)
  BY DEF Claimed
<1>8. Free(0, 0)
  <2> SUFFICES ASSUME NEW p \in 0 .. Cap - 1
               PROVE  seq[p % Cap] = p % Wrap
    <3>1. 0 .. (0 + Cap) - 1 = 0 .. Cap - 1
      BY Sizes
    <3> QED BY <3>1, Zenon DEF Free
  <2>1. p % Cap = p /\ p % Wrap = p
    BY Sizes
  <2> QED BY <2>1 DEF RingInit, Index
<1>9. RingInvAt(0, 0, P)
  BY <1>5, <1>6, <1>7, <1>8 DEF RingInvAt
<1> QED BY <1>1, <1>3, <1>9 DEF RingInv

\* In a queue of more than one cell, under any number of threads that push and
\* pop: a cell has one owner between claim and publish, values come out in the
\* order in which their pushes claimed a cell, once each, and never more than
\* Cap are in the queue (push and pop of mpmc.rs).
THEOREM QueueExactAlways ==
  ASSUME Cap > 1
  PROVE  RingSpec => []QueueExact
<1>1. RingInit => RingInv
  BY RingInvInit
<1>2. RingInv /\ [RingNext]_ringVars => RingInv'
  <2> SUFFICES ASSUME RingInv, [RingNext]_ringVars PROVE RingInv'
    OBVIOUS
  <2>1. CASE RingNext
    BY <2>1, RingInvStep DEF RingNext
  <2>2. CASE UNCHANGED ringVars
    BY <2>2, RingInvStutter
  <2> QED BY <2>1, <2>2
<1>3. RingInv => QueueExact
  BY RingInvExact
<1> QED BY <1>1, <1>2, <1>3, PTL DEF RingSpec

-----------------------------------------------------------------------------
(* The pool: a slot has one owner, its guard reads an initialised value,   *)
(* and in_use() counts the guards.                                         *)

\* Call t carries slot s between the free list and a guard.
Carries(t, s) ==
    \/ st[t] = "popping" /\ IF pc[t] = "popRead" THEN expect[t] = s ELSE val[t] = s
    \/ st[t] \in {"check", "flag"} /\ val[t] = s
    \/ st[t] = "pushing" /\ val[t] = s /\ pc[t] \notin {"pushWrite", "pushStore"}

\* A guard, a call or an entry of the free list owns slot s, and nothing else.
OneOwner(s) ==
    /\ guards[s] \in {0, 1}
    /\ guards[s] = 1 => \A t \in Thread : ~ Carries(t, s)
    /\ guards[s] = 1 => \A i \in 1 .. Len(claimed) : claimed[i] # s
    /\ \A t \in Thread, i \in 1 .. Len(claimed) : ~ (Carries(t, s) /\ claimed[i] = s)
    /\ \A t, u \in Thread : Carries(t, s) /\ Carries(u, s) => t = u
    /\ \A i, j \in 1 .. Len(claimed) : claimed[i] = s /\ claimed[j] = s => i = j

\* A call of the pool and the call of the free list inside it are at steps
\* that go together.
CallsMatch ==
    \A t \in Thread :
       /\ st[t] \in {"out", "check", "flag"} => pc[t] = "idle"
       /\ st[t] = "popping" => pc[t] \in {"idle"} \cup Popping \cup PopOwning
       /\ st[t] = "pushing" => pc[t] \in {"idle"} \cup Pushing \cup PushOwning
       /\ st[t] \in {"check", "flag"} => val[t] \in Slots
       /\ st[t] = "flag" => val[t] \in ready

PoolTypes ==
    /\ st \in [Thread -> {"out", "popping", "check", "flag", "pushing"}]
    /\ guards \in [Slots -> Nat]
    /\ ready \subseteq Slots /\ initialized \subseteq Slots

\* Slots under a guard, and calls that are counted and have no guard.
Held == {s \in Slots : guards[s] > 0}
Busy == {t \in Thread : st[t] \in {"check", "flag", "pushing"}}

Counted ==
    /\ IsFiniteSet(Busy)
    /\ outstanding = Cardinality(Held) + Cardinality(Busy)

PoolInv ==
    /\ RingInv /\ PoolTypes /\ CallsMatch /\ GuardInitialised /\ Counted
    /\ \A s \in Slots : OneOwner(s)

\* A slot index is a value of the free list.
LEMMA SlotFacts ==
  /\ Val = Slots /\ NoVal \notin Slots /\ IsFiniteSet(Slots)
  /\ \A S \in SUBSET Slots : IsFiniteSet(S)
<1>1. Val = Slots /\ NoVal \notin Slots /\ Size \in Nat
  BY RingAssumption, PoolAssumption
<1>2. IsFiniteSet(0 .. Size - 1)
  BY <1>1, FS_Interval
<1>3. IsFiniteSet(Slots)
  BY <1>2 DEF Slots
<1> QED BY <1>1, <1>3, FS_Subset

\* The invariant says what PoolSound asks.
LEMMA PoolInvSound == ASSUME PoolInv PROVE PoolSound
<1>1. RingTypeOK /\ PoolTypes /\ Counted /\ GuardInitialised
  BY DEF PoolInv, RingInv
<1>2. /\ IsFiniteSet(Held) /\ IsFiniteSet(Busy) /\ Cardinality(Held) \in Nat
      /\ Cardinality(Busy) \in Nat
  BY <1>1, SlotFacts, FS_CardinalityType DEF Counted, Held
<1>3. outstanding \in Nat
  BY <1>1, <1>2 DEF Counted
<1>4. TypeOK
  BY <1>1, <1>3 DEF TypeOK, PoolTypes
<1>5. SlotExclusive
  <2> SUFFICES ASSUME NEW s \in Slots PROVE Owners(s) <= 1
    BY DEF SlotExclusive
  <2>1. OneOwner(s)
    BY DEF PoolInv
  <2>2. Carriers(s) = {} \/ \E t \in Thread : Carriers(s) = {t}
    BY <2>1 DEF OneOwner, Carriers, Carries
  <2>3. Listed(s) = {} \/ \E i \in 1 .. Len(claimed) : Listed(s) = {i}
    BY <2>1 DEF OneOwner, Listed
  <2>4. Cardinality({}) = 0 /\ \A x : Cardinality({x}) = 1
    BY FS_EmptySet, FS_Singleton
  <2>5. guards[s] = 1 => Carriers(s) = {} /\ Listed(s) = {}
    BY <2>1 DEF OneOwner, Carriers, Carries, Listed
  <2>6. Carriers(s) = {} \/ Listed(s) = {}
    BY <2>1 DEF OneOwner, Carriers, Carries, Listed
  <2>7. guards[s] = 0 \/ guards[s] = 1
    BY <2>1 DEF OneOwner
  <2>8. Cardinality(Carriers(s)) = 0 \/ Cardinality(Carriers(s)) = 1
    BY <2>2, <2>4
  <2>9. Cardinality(Listed(s)) = 0 \/ Cardinality(Listed(s)) = 1
    BY <2>3, <2>4
  <2> QED BY <2>4, <2>5, <2>6, <2>7, <2>8, <2>9 DEF Owners
<1>6. InUseExact
  <2> SUFFICES ASSUME Quiet PROVE outstanding = Cardinality({s \in Slots : guards[s] > 0})
    BY DEF InUseExact
  <2>1. Busy = {}
    BY DEF Quiet, Busy
  <2>2. Cardinality(Busy) = 0
    BY <2>1, FS_EmptySet
  <2> QED BY <1>1, <1>2, <2>2 DEF Counted, Held
<1> QED BY <1>1, <1>4, <1>5, <1>6 DEF PoolSound

\* A step in which nobody becomes an owner.
LEMMA NothingGained ==
  ASSUME NEW s \in Slots, OneOwner(s), guards'[s] = guards[s], claimed' = claimed,
         \A t \in Thread : Carries(t, s)' => Carries(t, s)
  PROVE  OneOwner(s)'
  BY DEF OneOwner

\* The count when the busy calls and the guards stay the same.
LEMMA CountSame ==
  ASSUME Counted, Held' = Held, Busy' = Busy, outstanding' = outstanding
  PROVE  Counted'
  BY DEF Counted

\* The pool starts with every slot on the free list.
LEMMA PoolInvInit == Init => PoolInv
<1> SUFFICES ASSUME Init PROVE PoolInv
  OBVIOUS
<1>0. Size \in Nat \ {0} /\ Size <= Cap /\ Val = 0 .. Size - 1 /\ NoVal \notin Slots
  BY PoolAssumption, SlotFacts DEF Slots
<1>1. claimed \in Seq(Val) /\ Len(claimed) = Size /\ \A i \in 1 .. Size : claimed[i] = i - 1
  BY <1>0 DEF Init
<1>2. RingTypeOK
  <2>1. enq \in Position /\ deq \in Position
    BY <1>0, Sizes, PosIn DEF Init, Position
  <2>2. seq \in [Index -> Position]
    <3> SUFFICES \A i \in Index : (IF i < Size THEN i + 1 ELSE i) \in Position
      BY DEF Init
    <3> QED BY <1>0, Sizes DEF Index, Position
  <2>3. cell \in [Index -> Val \cup {NoVal}]
    <3> SUFFICES \A i \in Index : (IF i < Size THEN i ELSE NoVal) \in Val \cup {NoVal}
      BY DEF Init
    <3> QED BY <1>0, Sizes DEF Index
  <2>4. 0 \in Position
    BY Sizes DEF Position
  <2> QED BY <1>1, <2>1, <2>2, <2>3, <2>4 DEF Init, RingTypeOK
<1>3. RingInv
  <2>1. PICK P : P = [t \in Thread |-> 0]
    OBVIOUS
  <2>2. P \in [Thread -> Nat] /\ \A t \in Thread : P[t] = 0
    BY <2>1
  <2>3. 0 % Wrap = 0 /\ Size - 0 = Size
    BY <1>0, Sizes
  <2>4. Positions(Size, 0, P)
    BY <1>0, <1>1, <2>2, <2>3 DEF Init, Positions
  <2>5. Waiting(Size, 0, P) /\ Owning(Size, 0, P) /\ Apart(P)
    BY DEF Init, Waiting, Owning, Apart, Pushing, Popping, PushOwning, PopOwning
  <2>6. \A p \in 0 .. Cap - 1 : p % Cap = p /\ p % Wrap = p /\ (p + 1) % Wrap = p + 1
    BY Sizes
  <2>7. Claimed(Size, 0)
    <3> SUFFICES ASSUME NEW p \in 0 .. Size - 1
                 PROVE  seq[p % Cap] = (p + 1) % Wrap /\ cell[p % Cap] = claimed[(p - 0) + 1]
      BY DEF Claimed
    <3>1. p \in Index /\ p \in 0 .. Cap - 1 /\ p < Size /\ (p - 0) + 1 \in 1 .. Size
      BY <1>0, Sizes DEF Index
    <3>2. seq[p] = p + 1 /\ cell[p] = p
      BY <3>1 DEF Init
    <3>3. claimed[(p - 0) + 1] = p
      BY <1>1, <3>1
    <3> QED BY <2>6, <3>1, <3>2, <3>3
  <2>8. Free(Size, 0)
    <3> SUFFICES ASSUME NEW p \in Size .. (0 + Cap) - 1
                 PROVE  seq[p % Cap] = p % Wrap
      BY DEF Free
    <3>1. p \in Index /\ p \in 0 .. Cap - 1 /\ ~ (p < Size)
      BY <1>0, Sizes DEF Index
    <3>2. seq[p] = p
      BY <3>1 DEF Init
    <3> QED BY <2>6, <3>1, <3>2
  <2>9. RingInvAt(Size, 0, P)
    BY <2>4, <2>5, <2>7, <2>8 DEF RingInvAt
  <2> QED BY <1>0, <1>2, <2>2, <2>9 DEF RingInv
<1>4. PoolTypes /\ CallsMatch /\ GuardInitialised
  BY DEF Init, PoolTypes, CallsMatch, GuardInitialised
<1>5. Counted
  <2>1. Held = {} /\ Busy = {}
    BY DEF Init, Held, Busy
  <2>2. Cardinality({}) = 0 /\ IsFiniteSet({})
    BY FS_EmptySet
  <2> QED BY <2>1, <2>2 DEF Counted, Init
<1>6. \A s \in Slots : OneOwner(s)
  <2> SUFFICES ASSUME NEW s \in Slots PROVE OneOwner(s)
    OBVIOUS
  <2>1. guards[s] = 0 /\ \A t \in Thread : st[t] = "out" /\ ~ Carries(t, s)
    BY DEF Init, Carries
  <2>2. \A i, j \in 1 .. Len(claimed) : claimed[i] = s /\ claimed[j] = s => i = j
    BY <1>1
  <2> QED BY <2>1, <2>2 DEF OneOwner
<1> QED BY <1>3, <1>4, <1>5, <1>6 DEF PoolInv

-----------------------------------------------------------------------------
(* Steps of the free list inside a call of the pool.                       *)

\* What a step of the free list leaves of the pool's own state.
LEMMA RingStepRest ==
  ASSUME PoolInv, Cap > 1, NEW t \in Thread, Step(t), UNCHANGED poolVars
  PROVE  RingInv' /\ PoolTypes' /\ CallsMatch' /\ GuardInitialised' /\ Counted'
<1>1. RingInv'
  BY RingInvStep DEF PoolInv
<1>2. PoolTypes'
  BY DEF PoolInv, PoolTypes, poolVars
<1>3. GuardInitialised'
  BY DEF PoolInv, GuardInitialised, poolVars
<1>4. Counted'
  <2>1. Held' = Held /\ Busy' = Busy /\ outstanding' = outstanding
    BY DEF poolVars, Held, Busy
  <2> QED BY <2>1, CountSame DEF PoolInv
<1>5. CallsMatch'
  <2> SUFFICES ASSUME NEW u \in Thread
               PROVE  /\ st[u] \in {"out", "check", "flag"} => pc'[u] = "idle"
                      /\ st[u] = "popping" => pc'[u] \in {"idle"} \cup Popping \cup PopOwning
                      /\ st[u] = "pushing" => pc'[u] \in {"idle"} \cup Pushing \cup PushOwning
                      /\ st[u] \in {"check", "flag"} => val'[u] \in Slots
                      /\ st[u] = "flag" => val'[u] \in ready
    BY DEF CallsMatch, poolVars
  <2>0. CallsMatch /\ RingTypeOK
    BY DEF PoolInv, RingInv
  <2>1. CASE u # t
    <3>1. pc'[u] = pc[u] /\ val'[u] = val[u]
      BY <2>0, <2>1 DEF RingTypeOK, Step, PushSeqFree, PushSeqFull, PushSeqStale, PushCasOk,
         PushCasFail, PushWrite, PushStore, PopSeqReady, PopSeqEmpty, PopSeqStale, PopCasOk,
         PopCasFail, PopRead, PopStore
    <3> QED BY <2>0, <3>1 DEF CallsMatch
  <2>2. CASE u = t
    <3>1. \/ pc[t] \in Pushing \cup PushOwning /\ pc'[t] \in {"idle"} \cup Pushing \cup PushOwning
          \/ pc[t] \in Popping \cup PopOwning /\ pc'[t] \in {"idle"} \cup Popping \cup PopOwning
      BY <2>0 DEF RingTypeOK, Step, PushSeqFree, PushSeqFull, PushSeqStale, PushCasOk,
         PushCasFail, PushWrite, PushStore, PopSeqReady, PopSeqEmpty, PopSeqStale, PopCasOk,
         PopCasFail, PopRead, PopStore, Pushing, PushOwning, Popping, PopOwning
    <3>2. st[t] \in {"popping", "pushing"}
      BY <2>0, <3>1 DEF CallsMatch, PoolInv, PoolTypes, Pushing, PushOwning, Popping, PopOwning
    <3> QED BY <2>0, <2>2, <3>1, <3>2 DEF CallsMatch, Pushing, PushOwning, Popping, PopOwning
  <2> QED BY <2>1, <2>2
<1> QED BY <1>1, <1>2, <1>3, <1>4, <1>5

\* The steps that claim nothing leave everybody what he carries, or less.
LEMMA RingStepQuiet ==
  ASSUME PoolInv, NEW t \in Thread, Step(t), ~ PushCasOk(t), ~ PopCasOk(t), UNCHANGED poolVars,
         NEW s \in Slots
  PROVE  OneOwner(s)'
<1>0. /\ CallsMatch /\ RingTypeOK /\ OneOwner(s) /\ NoVal # s /\ PoolTypes
      /\ UNCHANGED <<st, guards>>
  BY SlotFacts DEF PoolInv, RingInv, poolVars
<1>1. claimed' = claimed /\ guards'[s] = guards[s]
  BY <1>0 DEF Step, PushSeqFree, PushSeqFull, PushSeqStale, PushCasFail, PushWrite, PushStore,
     PopSeqReady, PopSeqEmpty, PopSeqStale, PopCasFail, PopRead, PopStore, orderVars
<1>2. ASSUME NEW u \in Thread, Carries(u, s)' PROVE Carries(u, s)
  <2>1. CASE u # t
    <3>1. pc'[u] = pc[u] /\ val'[u] = val[u] /\ expect'[u] = expect[u]
      BY <1>0, <2>1 DEF RingTypeOK, Step, PushSeqFree, PushSeqFull, PushSeqStale, PushCasFail,
         PushWrite, PushStore, PopSeqReady, PopSeqEmpty, PopSeqStale, PopCasFail, PopRead,
         PopStore, orderVars
    <3> QED BY <1>0, <1>2, <3>1 DEF Carries
  <2>2. CASE u = t /\ PopRead(t)
    <3>1. cell[CellOf(pos[t])] = expect[t] /\ pc[t] = "popRead" /\ pc'[t] = "popStore"
      BY <1>0, <2>2, RingInvExact DEF PopRead, PoolInv, QueueExact, PopReturnsOldest, RingTypeOK
    <3>2. val'[t] = expect[t]
      BY <1>0, <2>2, <3>1 DEF PopRead, RingTypeOK
    <3>3. st[t] = "popping"
      BY <1>0, <3>1 DEF CallsMatch, PoolTypes, Pushing, PushOwning
    <3> QED BY <1>0, <1>2, <2>2, <3>1, <3>2, <3>3 DEF Carries
  <2>3. CASE u = t /\ PopStore(t)
    <3>1. pc[t] = "popStore" /\ pc'[t] = "idle" /\ val' = val
      BY <1>0, <2>3 DEF PopStore, RingTypeOK
    <3> QED BY <1>0, <1>2, <2>3, <3>1 DEF Carries
  <2>4. CASE u = t /\ PushStore(t)
    <3>1. pc[t] = "pushStore" /\ pc'[t] = "idle" /\ val'[t] = NoVal
      BY <1>0, <2>4 DEF PushStore, RingTypeOK
    <3> QED BY <1>0, <1>2, <2>4, <3>1 DEF Carries
  <2>5. CASE u = t /\ PushWrite(t)
    <3>1. pc[t] = "pushWrite" /\ pc'[t] = "pushStore" /\ val' = val
      BY <1>0, <2>5 DEF PushWrite, RingTypeOK
    <3>2. st[t] = "pushing"
      BY <1>0, <3>1 DEF CallsMatch, PoolTypes, Popping, PopOwning
    <3> QED BY <1>0, <1>2, <2>5, <3>1, <3>2 DEF Carries
  <2>6. CASE /\ u = t
             /\ \/ PushSeqFree(t) \/ PushSeqFull(t) \/ PushSeqStale(t) \/ PushCasFail(t)
                \/ PopSeqReady(t) \/ PopSeqEmpty(t) \/ PopSeqStale(t) \/ PopCasFail(t)
    <3>1. /\ pc[t] \in Pushing \cup Popping /\ pc'[t] \notin PushOwning \cup PopOwning
          /\ val' = val
      BY <1>0, <2>6 DEF PushSeqFree, PushSeqFull, PushSeqStale, PushCasFail, PopSeqReady, PopSeqEmpty,
         PopSeqStale, PopCasFail, RingTypeOK, Pushing, Popping, PushOwning, PopOwning
    <3> QED BY <1>0, <1>2, <2>6, <3>1 DEF Carries, Pushing, Popping, PushOwning, PopOwning
  <2> QED BY <2>1, <2>2, <2>3, <2>4, <2>5, <2>6 DEF Step
<1> QED BY <1>0, <1>1, <1>2, NothingGained

\* A push that claims a cell passes its slot to the free list.
LEMMA RingStepPush ==
  ASSUME PoolInv, NEW t \in Thread, PushCasOk(t), UNCHANGED poolVars, NEW s \in Slots
  PROVE  OneOwner(s)'
<1>0. /\ CallsMatch /\ RingTypeOK /\ OneOwner(s) /\ NoVal # s /\ PoolTypes
      /\ UNCHANGED <<st, guards, val, expect>>
  BY SlotFacts DEF PoolInv, RingInv, poolVars, PushCasOk
<1>1. /\ pc[t] = "pushCas" /\ pc'[t] = "pushWrite" /\ \A u \in Thread \ {t} : pc'[u] = pc[u]
      /\ claimed' = Append(claimed, val[t])
  BY <1>0 DEF PushCasOk, RingTypeOK
<1>2. st[t] = "pushing"
  BY <1>0, <1>1 DEF CallsMatch, PoolTypes, Popping, PopOwning
<1>3. claimed \in Seq(Val) /\ Len(claimed) \in Nat /\ val[t] \in Val
  <2>1. \E E, D \in Nat, P \in [Thread -> Nat] : Waiting(E, D, P)
    BY DEF PoolInv, RingInv, RingInvAt
  <2>2. val[t] \in Val
    BY <1>1, <2>1 DEF Waiting, Pushing
  <2> QED BY <1>0, <2>2, LenProperties DEF RingTypeOK
<1>4. /\ Len(claimed') = Len(claimed) + 1 /\ claimed'[Len(claimed) + 1] = val[t]
      /\ \A i \in 1 .. Len(claimed) : claimed'[i] = claimed[i]
  BY <1>1, <1>3, AppendProperties
<1>5. ~ Carries(t, s)' /\ \A u \in Thread \ {t} : Carries(u, s)' <=> Carries(u, s)
  BY <1>0, <1>1, <1>2 DEF Carries
<1>6. Carries(t, s) <=> val[t] = s
  BY <1>1, <1>2 DEF Carries
<1>7. \A i \in 1 .. Len(claimed') : i \in 1 .. Len(claimed) \/ i = Len(claimed) + 1
  BY <1>3, <1>4
<1>8. CASE val[t] = s
  <2>1. guards[s] = 0 /\ \A u \in Thread : ~ Carries(u, s)'
    BY <1>0, <1>5, <1>6, <1>8 DEF OneOwner
  <2>2. \A i \in 1 .. Len(claimed) : claimed[i] # s
    BY <1>0, <1>6, <1>8 DEF OneOwner
  <2>3. \A i \in 1 .. Len(claimed') : claimed'[i] = s => i = Len(claimed) + 1
    BY <1>4, <1>7, <2>2
  <2> QED BY <1>0, <2>1, <2>3 DEF OneOwner
<1>9. CASE val[t] # s
  <2>1. \A i \in 1 .. Len(claimed') : claimed'[i] = s => i \in 1 .. Len(claimed) /\ claimed[i] = s
    BY <1>4, <1>7, <1>9
  <2>2. \A u \in Thread : Carries(u, s)' => Carries(u, s)
    BY <1>5
  <2> QED BY <1>0, <2>1, <2>2 DEF OneOwner
<1> QED BY <1>8, <1>9

\* A pop that claims a cell takes its slot off the free list.
LEMMA RingStepPop ==
  ASSUME PoolInv, NEW t \in Thread, PopCasOk(t), UNCHANGED poolVars, NEW s \in Slots
  PROVE  OneOwner(s)'
<1>0. /\ CallsMatch /\ RingTypeOK /\ OneOwner(s) /\ NoVal # s /\ PoolTypes
      /\ UNCHANGED <<st, guards, val>>
  BY SlotFacts DEF PoolInv, RingInv, poolVars, PopCasOk
<1>1. /\ pc[t] = "popCas" /\ pc'[t] = "popRead"
      /\ \A u \in Thread \ {t} : pc'[u] = pc[u] /\ expect'[u] = expect[u]
      /\ expect'[t] = IF claimed = << >> THEN NoVal ELSE Head(claimed)
      /\ claimed' = IF claimed = << >> THEN claimed ELSE Tail(claimed)
  BY <1>0 DEF PopCasOk, RingTypeOK
<1>2. st[t] = "popping"
  BY <1>0, <1>1 DEF CallsMatch, PoolTypes, Pushing, PushOwning
<1>3. \A u \in Thread \ {t} : Carries(u, s)' <=> Carries(u, s)
  BY <1>0, <1>1 DEF Carries
<1>4. Carries(t, s)' <=> expect'[t] = s
  BY <1>0, <1>1, <1>2 DEF Carries
<1>5. CASE claimed = << >>
  <2>1. \A u \in Thread : Carries(u, s)' => Carries(u, s)
    BY <1>0, <1>1, <1>3, <1>4, <1>5
  <2> QED BY <1>0, <1>1, <1>5, <2>1, NothingGained
<1>6. CASE claimed # << >>
  <2>1. /\ Len(claimed) \in Nat \ {0} /\ Head(claimed) = claimed[1]
        /\ Len(claimed') = Len(claimed) - 1
        /\ \A i \in 1 .. Len(claimed) - 1 : claimed'[i] = claimed[i + 1]
    <3>1. claimed \in Seq(Val)
      BY <1>0 DEF RingTypeOK
    <3> QED BY <1>1, <1>6, <3>1, HeadTailProperties, LenProperties, EmptySeq
  <2>2. expect'[t] = claimed[1]
    BY <1>1, <1>6, <2>1
  <2>3. \A i \in 1 .. Len(claimed') : /\ i \in Nat /\ i + 1 \in 2 .. Len(claimed)
                                      /\ i + 1 \in 1 .. Len(claimed)
                                      /\ claimed'[i] = claimed[i + 1]
    BY <2>1
  <2>4. CASE claimed[1] = s
    <3>0. 1 \in 1 .. Len(claimed)
      BY <2>1
    <3>1. guards[s] = 0 /\ \A u \in Thread : ~ Carries(u, s)
      BY <1>0, <2>4, <3>0 DEF OneOwner
    <3>2. \A i \in 1 .. Len(claimed') : claimed'[i] # s
      BY <1>0, <2>3, <2>4, <3>0 DEF OneOwner
    <3>3. \A u \in Thread : Carries(u, s)' => u = t
      BY <1>3, <3>1
    <3> QED BY <1>0, <3>1, <3>2, <3>3 DEF OneOwner
  <2>5. CASE claimed[1] # s
    <3>1. \A u \in Thread : Carries(u, s)' => Carries(u, s)
      BY <1>3, <1>4, <2>2, <2>5
    <3>2. \A i, j \in 1 .. Len(claimed') : claimed'[i] = s /\ claimed'[j] = s => i = j
      <4> SUFFICES ASSUME NEW i \in 1 .. Len(claimed'), NEW j \in 1 .. Len(claimed'),
                          claimed'[i] = s, claimed'[j] = s
                   PROVE  i = j
        OBVIOUS
      <4>1. i + 1 = j + 1
        BY <1>0, <2>3 DEF OneOwner
      <4> QED BY <2>3, <4>1
    <3>3. \A i \in 1 .. Len(claimed') :
             claimed'[i] = s => i + 1 \in 1 .. Len(claimed) /\ claimed[i + 1] = s
      BY <2>3
    <3> QED BY <1>0, <3>1, <3>2, <3>3 DEF OneOwner
  <2> QED BY <2>4, <2>5
<1> QED BY <1>5, <1>6

-----------------------------------------------------------------------------
(* Steps of the pool itself.                                               *)

\* A call starts a pop, or ends without a slot, or counts the one it got, or
\* initialises it, or has put one back: nobody becomes an owner.
LEMMA PoolStepQuiet ==
  ASSUME PoolInv, Cap > 1, NEW t \in Thread,
         GetStart(t) \/ GetNone(t) \/ GetCount(t) \/ GetInit(t) \/ ReleaseCount(t)
  PROVE  PoolInv'
<1>0. /\ CallsMatch /\ RingTypeOK /\ PoolTypes /\ GuardInitialised /\ Counted /\ RingInv
      /\ NoVal \notin Slots /\ Val = Slots
  BY SlotFacts DEF PoolInv, RingInv
<1>1. RingInv'
  <2>1. CASE GetStart(t)
    BY <1>0, <2>1, RingInvStep DEF GetStart
  <2>2. CASE GetNone(t) \/ GetCount(t) \/ GetInit(t)
    BY <1>0, <2>2, RingInvStutter DEF GetNone, GetCount, GetInit
  <2>3. CASE ReleaseCount(t)
    <3>1. HandedOn(t)
      BY <2>3 DEF ReleaseCount, HandedOn
    <3> QED BY <1>0, <3>1, RingInvStep
  <2> QED BY <2>1, <2>2, <2>3
<1>2. /\ claimed' = claimed /\ guards' = guards /\ initialized' = initialized /\ expect' = expect
      /\ \A u \in Thread \ {t} : pc'[u] = pc[u] /\ val'[u] = val[u] /\ st'[u] = st[u]
  BY <1>0 DEF RingTypeOK, PoolTypes, GetStart, GetNone, GetCount, GetInit, ReleaseCount, Goto,
     PopStart, ringVars, orderVars
<1>3. PoolTypes'
  <2>1. st' \in [Thread -> {"out", "popping", "check", "flag", "pushing"}]
    BY <1>0 DEF PoolTypes, GetStart, GetNone, GetCount, GetInit, ReleaseCount, Goto
  <2>2. ready' \subseteq Slots
    BY <1>0 DEF PoolTypes, CallsMatch, GetStart, GetNone, GetCount, GetInit, ReleaseCount, Goto
  <2> QED BY <1>0, <1>2, <2>1, <2>2 DEF PoolTypes
<1>4. ready \subseteq ready'
  BY DEF GetStart, GetNone, GetCount, GetInit, ReleaseCount
<1>5. GuardInitialised'
  BY <1>0, <1>2, <1>4 DEF GuardInitialised
<1>6. /\ st'[t] \in {"out", "check", "flag"} => pc'[t] = "idle"
      /\ st'[t] = "popping" => pc'[t] = "popSeq"
      /\ st'[t] # "pushing"
      /\ st'[t] \in {"check", "flag"} => val'[t] \in Slots
      /\ st'[t] = "flag" => val'[t] \in ready'
  <2>1. CASE GetStart(t)
    BY <1>0, <2>1 DEF GetStart, Goto, PopStart, RingTypeOK, PoolTypes
  <2>2. CASE GetNone(t) \/ ReleaseCount(t)
    BY <1>0, <2>2 DEF GetNone, ReleaseCount, Goto, RingTypeOK, PoolTypes, ringVars
  <2>3. CASE GetCount(t)
    BY <1>0, <2>3 DEF GetCount, Goto, RingTypeOK, PoolTypes, ringVars
  <2>4. CASE GetInit(t)
    BY <1>0, <2>4 DEF GetInit, Goto, RingTypeOK, PoolTypes, ringVars, CallsMatch
  <2> QED BY <2>1, <2>2, <2>3, <2>4
<1>7. CallsMatch'
  <2> SUFFICES ASSUME NEW u \in Thread
               PROVE  /\ st'[u] \in {"out", "check", "flag"} => pc'[u] = "idle"
                      /\ st'[u] = "popping" => pc'[u] \in {"idle"} \cup Popping \cup PopOwning
                      /\ st'[u] = "pushing" => pc'[u] \in {"idle"} \cup Pushing \cup PushOwning
                      /\ st'[u] \in {"check", "flag"} => val'[u] \in Slots
                      /\ st'[u] = "flag" => val'[u] \in ready'
    BY DEF CallsMatch
  <2>1. CASE u = t
    BY <1>6, <2>1 DEF Popping
  <2>2. CASE u # t
    BY <1>0, <1>2, <1>4, <2>2 DEF CallsMatch
  <2> QED BY <2>1, <2>2
<1>8. \A s \in Slots : OneOwner(s)'
  <2> SUFFICES ASSUME NEW s \in Slots PROVE OneOwner(s)'
    OBVIOUS
  <2>1. OneOwner(s)
    BY DEF PoolInv
  <2>2. ASSUME NEW u \in Thread, Carries(u, s)' PROVE Carries(u, s)
    <3>1. CASE u # t
      BY <1>2, <2>2, <3>1 DEF Carries
    <3>2. CASE u = t /\ GetStart(t)
      <4>1. st'[t] = "popping" /\ pc'[t] = "popSeq" /\ val'[t] = NoVal
        BY <1>0, <3>2 DEF GetStart, Goto, PopStart, RingTypeOK, PoolTypes
      <4> QED BY <1>0, <2>2, <3>2, <4>1 DEF Carries
    <3>3. CASE u = t /\ (GetNone(t) \/ ReleaseCount(t))
      <4>1. st'[t] = "out"
        BY <1>0, <3>3 DEF GetNone, ReleaseCount, Goto, PoolTypes
      <4> QED BY <2>2, <3>3, <4>1 DEF Carries
    <3>4. CASE u = t /\ GetCount(t)
      <4>1. st[t] = "popping" /\ pc[t] = "idle" /\ st'[t] = "check" /\ val' = val
        BY <1>0, <3>4 DEF GetCount, Goto, PoolTypes, ringVars
      <4> QED BY <2>2, <3>4, <4>1 DEF Carries
    <3>5. CASE u = t /\ GetInit(t)
      <4>1. st[t] = "check" /\ st'[t] = "flag" /\ val' = val
        BY <1>0, <3>5 DEF GetInit, Goto, PoolTypes, ringVars
      <4> QED BY <2>2, <3>5, <4>1 DEF Carries
    <3> QED BY <3>1, <3>2, <3>3, <3>4, <3>5
  <2> QED BY <1>2, <2>1, <2>2, NothingGained
<1>9. Counted'
  <2>0. Held' = Held
    BY <1>2 DEF Held
  <2>1. CASE GetStart(t) \/ GetNone(t) \/ GetInit(t)
    <3>1. Busy' = Busy /\ outstanding' = outstanding
      BY <1>0, <2>1 DEF Busy, PoolTypes, GetStart, GetNone, GetInit, Goto
    <3> QED BY <1>0, <2>0, <3>1, CountSame
  <2>2. CASE GetCount(t)
    <3>1. Busy' = Busy \cup {t} /\ t \notin Busy /\ outstanding' = outstanding + 1
      BY <1>0, <2>2 DEF Busy, PoolTypes, GetCount, Goto
    <3>2. IsFiniteSet(Busy') /\ Cardinality(Busy') = Cardinality(Busy) + 1
      BY <1>0, <3>1, FS_AddElement DEF Counted
    <3>3. Cardinality(Busy) \in Nat /\ Cardinality(Held) \in Nat
      BY <1>0, SlotFacts, FS_CardinalityType DEF Counted, Held
    <3> QED BY <1>0, <2>0, <3>1, <3>2, <3>3 DEF Counted
  <2>3. CASE ReleaseCount(t)
    <3>1. Busy' = Busy \ {t} /\ t \in Busy /\ outstanding' = outstanding - 1
      BY <1>0, <2>3 DEF Busy, PoolTypes, ReleaseCount, Goto
    <3>2. IsFiniteSet(Busy') /\ Cardinality(Busy') = Cardinality(Busy) - 1
      BY <1>0, <3>1, FS_RemoveElement DEF Counted
    <3>3. Cardinality(Busy) \in Nat /\ Cardinality(Held) \in Nat
      BY <1>0, SlotFacts, FS_CardinalityType DEF Counted, Held
    <3> QED BY <1>0, <2>0, <3>1, <3>2, <3>3 DEF Counted
  <2> QED BY <2>1, <2>2, <2>3
<1> QED BY <1>1, <1>3, <1>5, <1>7, <1>8, <1>9 DEF PoolInv

\* get_with returns a guard: the slot passes from the call to the guard.
LEMMA PoolStepGuard ==
  ASSUME PoolInv, Cap > 1, NEW t \in Thread, GetReuse(t) \/ GetFlag(t)
  PROVE  PoolInv'
<1>0. /\ CallsMatch /\ RingTypeOK /\ PoolTypes /\ GuardInitialised /\ Counted /\ RingInv
      /\ NoVal \notin Slots /\ Val = Slots
  BY SlotFacts DEF PoolInv, RingInv
<1>1. PICK x : x = val[t]
  OBVIOUS
<1>2. /\ st[t] \in {"check", "flag"} /\ st'[t] = "out" /\ pc[t] = "idle" /\ x \in Slots
      /\ UNCHANGED <<enq, deq, seq, cell, pc, pos, claimed, expect, ready, outstanding>>
      /\ val' = [val EXCEPT ![t] = NoVal] /\ guards' = [guards EXCEPT ![x] = @ + 1]
      /\ \A u \in Thread \ {t} : val'[u] = val[u] /\ st'[u] = st[u]
      /\ st' \in [Thread -> {"out", "popping", "check", "flag", "pushing"}]
      /\ initialized' = initialized \/ initialized' = initialized \cup {x}
      /\ x \in ready
  <2>1. CASE GetReuse(t)
    BY <1>0, <1>1, <2>1 DEF GetReuse, Goto, PoolTypes, CallsMatch, RingTypeOK, GuardInitialised,
       posVars, cellVars, orderVars
  <2>2. CASE GetFlag(t)
    BY <1>0, <1>1, <2>2 DEF GetFlag, Goto, PoolTypes, CallsMatch, RingTypeOK, GuardInitialised,
       posVars, cellVars, orderVars
  <2> QED BY <2>1, <2>2
<1>3. RingInv'
  <2>1. HandedOn(t)
    BY <1>2 DEF HandedOn, posVars, cellVars, orderVars
  <2> QED BY <1>0, <2>1, RingInvStep
<1>4. Carries(t, x) /\ OneOwner(x)
  BY <1>1, <1>2 DEF Carries, PoolInv
<1>5. guards[x] = 0 /\ \A i \in 1 .. Len(claimed) : claimed[i] # x
  BY <1>4 DEF OneOwner
<1>6. guards'[x] = 1 /\ \A s \in Slots \ {x} : guards'[s] = guards[s]
  BY <1>0, <1>2, <1>5 DEF PoolTypes
<1>7. PoolTypes'
  BY <1>0, <1>2 DEF PoolTypes
<1>8. GuardInitialised'
  BY <1>0, <1>2, <1>6 DEF GuardInitialised
<1>9. CallsMatch'
  <2> SUFFICES ASSUME NEW u \in Thread
               PROVE  /\ st'[u] \in {"out", "check", "flag"} => pc[u] = "idle"
                      /\ st'[u] = "popping" => pc[u] \in {"idle"} \cup Popping \cup PopOwning
                      /\ st'[u] = "pushing" => pc[u] \in {"idle"} \cup Pushing \cup PushOwning
                      /\ st'[u] \in {"check", "flag"} => val'[u] \in Slots
                      /\ st'[u] = "flag" => val'[u] \in ready
    BY <1>2 DEF CallsMatch
  <2>1. CASE u = t
    BY <1>2, <2>1
  <2>2. CASE u # t
    BY <1>0, <1>2, <2>2 DEF CallsMatch
  <2> QED BY <2>1, <2>2
<1>a. \A s \in Slots : OneOwner(s)'
  <2> SUFFICES ASSUME NEW s \in Slots PROVE OneOwner(s)'
    OBVIOUS
  <2>1. OneOwner(s)
    BY DEF PoolInv
  <2>2. ~ Carries(t, s)' /\ \A u \in Thread \ {t} : Carries(u, s)' <=> Carries(u, s)
    BY <1>2 DEF Carries
  <2>3. CASE s = x
    <3>1. \A u \in Thread : ~ Carries(u, s)'
      BY <1>4, <2>2, <2>3 DEF OneOwner
    <3> QED BY <1>2, <1>5, <1>6, <2>3, <3>1 DEF OneOwner
  <2>4. CASE s # x
    <3>1. \A u \in Thread : Carries(u, s)' => Carries(u, s)
      BY <2>2
    <3>2. guards'[s] = guards[s] /\ claimed' = claimed
      BY <1>2, <1>6, <2>4
    <3> QED BY <2>1, <3>1, <3>2, NothingGained
  <2> QED BY <2>3, <2>4
<1>b. Counted'
  <2>1. Held' = Held \cup {x} /\ x \notin Held
    BY <1>2, <1>5, <1>6 DEF Held
  <2>2. Busy' = Busy \ {t} /\ t \in Busy
    BY <1>2 DEF Busy
  <2>3. IsFiniteSet(Held)
    BY SlotFacts DEF Held
  <2>4. Cardinality(Held') = Cardinality(Held) + 1
    BY <2>1, <2>3, FS_AddElement
  <2>5. IsFiniteSet(Busy') /\ Cardinality(Busy') = Cardinality(Busy) - 1
    BY <1>0, <2>2, FS_RemoveElement DEF Counted
  <2>6. Cardinality(Busy) \in Nat /\ Cardinality(Held) \in Nat
    BY <1>0, <2>3, FS_CardinalityType DEF Counted
  <2> QED BY <1>0, <1>2, <2>4, <2>5, <2>6 DEF Counted
<1> QED BY <1>3, <1>7, <1>8, <1>9, <1>a, <1>b DEF PoolInv

\* The drop of a guard begins: the slot passes from the guard to the call.
LEMMA PoolStepRelease ==
  ASSUME PoolInv, Cap > 1, NEW t \in Thread, NEW x \in Slots, ReleaseStart(t, x)
  PROVE  PoolInv'
<1>0. /\ CallsMatch /\ RingTypeOK /\ PoolTypes /\ GuardInitialised /\ Counted /\ RingInv
      /\ NoVal \notin Slots /\ Val = Slots
  BY SlotFacts DEF PoolInv, RingInv
<1>1. RingInv'
  BY <1>0, RingInvStep DEF ReleaseStart
<1>2. /\ st[t] = "out" /\ st'[t] = "pushing" /\ pc'[t] = "pushSeq" /\ val'[t] = x /\ guards[x] > 0
      /\ UNCHANGED <<claimed, expect, ready, initialized, outstanding>>
      /\ guards' = [guards EXCEPT ![x] = @ - 1]
      /\ \A u \in Thread \ {t} : pc'[u] = pc[u] /\ val'[u] = val[u] /\ st'[u] = st[u]
      /\ st' \in [Thread -> {"out", "popping", "check", "flag", "pushing"}]
  BY <1>0 DEF ReleaseStart, Goto, PushStart, PoolTypes, RingTypeOK, orderVars
<1>3. OneOwner(x) /\ guards[x] = 1
  BY <1>2 DEF PoolInv, OneOwner
<1>4. guards'[x] = 0 /\ \A s \in Slots \ {x} : guards'[s] = guards[s]
  BY <1>0, <1>2, <1>3 DEF PoolTypes
<1>5. PoolTypes'
  <2>1. guards' \in [Slots -> Nat]
    BY <1>0, <1>2, <1>3 DEF PoolTypes
  <2> QED BY <1>0, <1>2, <2>1 DEF PoolTypes
<1>6. GuardInitialised'
  <2> SUFFICES ASSUME NEW s \in Slots, guards'[s] > 0 \/ s \in initialized' PROVE s \in ready'
    BY DEF GuardInitialised
  <2>1. guards[s] > 0 \/ s \in initialized
    BY <1>2, <1>4
  <2> QED BY <1>0, <1>2, <2>1 DEF GuardInitialised
<1>7. CallsMatch'
  <2> SUFFICES ASSUME NEW u \in Thread
               PROVE  /\ st'[u] \in {"out", "check", "flag"} => pc'[u] = "idle"
                      /\ st'[u] = "popping" => pc'[u] \in {"idle"} \cup Popping \cup PopOwning
                      /\ st'[u] = "pushing" => pc'[u] \in {"idle"} \cup Pushing \cup PushOwning
                      /\ st'[u] \in {"check", "flag"} => val'[u] \in Slots
                      /\ st'[u] = "flag" => val'[u] \in ready
    BY <1>2 DEF CallsMatch
  <2>1. CASE u = t
    BY <1>2, <2>1 DEF Pushing
  <2>2. CASE u # t
    BY <1>0, <1>2, <2>2 DEF CallsMatch
  <2> QED BY <2>1, <2>2
<1>8. \A s \in Slots : OneOwner(s)'
  <2> SUFFICES ASSUME NEW s \in Slots PROVE OneOwner(s)'
    OBVIOUS
  <2>1. OneOwner(s)
    BY DEF PoolInv
  <2>2. (Carries(t, s)' <=> s = x) /\ \A u \in Thread \ {t} : Carries(u, s)' <=> Carries(u, s)
    BY <1>2 DEF Carries
  <2>3. CASE s = x
    <3>1. \A u \in Thread : Carries(u, s)' => u = t
      BY <1>3, <2>2, <2>3 DEF OneOwner
    <3>2. \A i \in 1 .. Len(claimed') : claimed'[i] # s
      BY <1>2, <1>3, <2>3 DEF OneOwner
    <3>3. guards'[s] = 0
      BY <1>4, <2>3
    <3> QED BY <3>1, <3>2, <3>3 DEF OneOwner
  <2>4. CASE s # x
    <3>1. \A u \in Thread : Carries(u, s)' => Carries(u, s)
      BY <2>2, <2>4
    <3>2. guards'[s] = guards[s] /\ claimed' = claimed
      BY <1>2, <1>4, <2>4
    <3> QED BY <2>1, <3>1, <3>2, NothingGained
  <2> QED BY <2>3, <2>4
<1>9. Counted'
  <2>1. Held' = Held \ {x} /\ x \in Held
    BY <1>2, <1>3, <1>4 DEF Held
  <2>2. Busy' = Busy \cup {t} /\ t \notin Busy
    BY <1>2 DEF Busy
  <2>3. IsFiniteSet(Held)
    BY SlotFacts DEF Held
  <2>4. Cardinality(Held') = Cardinality(Held) - 1
    BY <2>1, <2>3, FS_RemoveElement
  <2>5. IsFiniteSet(Busy') /\ Cardinality(Busy') = Cardinality(Busy) + 1
    BY <1>0, <2>2, FS_AddElement DEF Counted
  <2>6. Cardinality(Busy) \in Nat /\ Cardinality(Held) \in Nat
    BY <1>0, <2>3, FS_CardinalityType DEF Counted
  <2> QED BY <1>0, <1>2, <2>4, <2>5, <2>6 DEF Counted
<1> QED BY <1>1, <1>5, <1>6, <1>7, <1>8, <1>9 DEF PoolInv

-----------------------------------------------------------------------------
LEMMA PoolInvStep ==
  ASSUME PoolInv, Cap > 1, [Next]_vars
  PROVE  PoolInv'
<1>1. CASE UNCHANGED vars
  <2>1. UNCHANGED ringVars /\ UNCHANGED <<st, guards, ready, initialized, outstanding, pc, val, claimed, expect>>
    BY <1>1 DEF vars, poolVars, ringVars, orderVars
  <2>2. RingInv'
    BY <2>1, RingInvStutter DEF PoolInv
  <2>3. PoolTypes' /\ CallsMatch' /\ GuardInitialised'
    BY <2>1 DEF PoolInv, PoolTypes, CallsMatch, GuardInitialised
  <2>4. Counted'
    <3>1. Held' = Held /\ Busy' = Busy
      BY <2>1 DEF Held, Busy
    <3> QED BY <2>1, <3>1, CountSame DEF PoolInv
  <2>5. \A s \in Slots : OneOwner(s)'
    <3> SUFFICES ASSUME NEW s \in Slots PROVE OneOwner(s)'
      OBVIOUS
    <3>1. \A t \in Thread : Carries(t, s)' => Carries(t, s)
      BY <2>1 DEF Carries
    <3>2. OneOwner(s)
      BY DEF PoolInv
    <3> QED BY <2>1, <3>1, <3>2, NothingGained
  <2> QED BY <2>2, <2>3, <2>4, <2>5 DEF PoolInv
<1>2. CASE Next
  <2>1. PICK t \in Thread :
          \/ GetStart(t) \/ GetNone(t) \/ GetCount(t) \/ GetReuse(t) \/ GetInit(t) \/ GetFlag(t)
          \/ \E s \in Slots : ReleaseStart(t, s)
          \/ ReleaseCount(t)
          \/ Step(t) /\ UNCHANGED poolVars
    BY <1>2 DEF Next
  <2>2. CASE GetStart(t) \/ GetNone(t) \/ GetCount(t) \/ GetInit(t) \/ ReleaseCount(t)
    BY <2>2, PoolStepQuiet
  <2>3. CASE GetReuse(t) \/ GetFlag(t)
    BY <2>3, PoolStepGuard
  <2>4. CASE \E s \in Slots : ReleaseStart(t, s)
    BY <2>4, PoolStepRelease
  <2>5. CASE Step(t) /\ UNCHANGED poolVars
    <3>1. RingInv' /\ PoolTypes' /\ CallsMatch' /\ GuardInitialised' /\ Counted'
      BY <2>5, RingStepRest
    <3>2. \A s \in Slots : OneOwner(s)'
      BY <2>5, RingStepQuiet, RingStepPush, RingStepPop
    <3> QED BY <3>1, <3>2 DEF PoolInv
  <2> QED BY <2>1, <2>2, <2>3, <2>4, <2>5
<1> QED BY <1>1, <1>2

\* However get_with and the drops of guards interleave, with each other and
\* inside the free list: a slot has one owner, a guard is on a slot that init()
\* has filled, and with no call in progress in_use() is the number of guards
\* (pool.rs).
THEOREM PoolSoundAlways ==
  ASSUME Cap > 1
  PROVE  Spec => []PoolSound
<1>1. Init => PoolInv
  BY PoolInvInit
<1>2. PoolInv /\ [Next]_vars => PoolInv'
  BY PoolInvStep
<1>3. PoolInv => PoolSound
  BY PoolInvSound
<1> QED BY <1>1, <1>2, <1>3, PTL DEF Spec

-----------------------------------------------------------------------------
(* The queue used alone or under the pool, as the run has it.              *)

\* The invariant of both parts.
MCInv == RingInv /\ part \in {"pool", "queue"} /\ (part = "pool" => PoolInv)

\* Both parts start in it.
LEMMA MCInvInit ==
  ASSUME Cap > 1, MCInit
  PROVE  MCInv
BY PoolInvInit, RingInvInit DEF MCInit, MCInv, PoolInv

\* A behaviour is one of the part it started as, and that part keeps it.
LEMMA MCInvStep ==
  ASSUME Cap > 1, MCInv, [MCNext]_<<part, vars>>
  PROVE  MCInv'
<1>1. CASE part = "pool" /\ part' = "pool" /\ [Next]_vars
  <2>1. PoolInv'
    BY <1>1, PoolInvStep DEF MCInv
  <2> QED BY <2>1, <1>1 DEF MCInv, PoolInv
<1>2. CASE part = "queue" /\ part' = "queue" /\ [RingNext]_ringVars
  <2>1. RingInv'
    <3>1. CASE RingNext
      BY <3>1, RingInvStep DEF RingNext, MCInv
    <3>2. CASE UNCHANGED ringVars
      BY <3>2, RingInvStutter DEF MCInv
    <3> QED BY <1>2, <3>1, <3>2
  <2> QED BY <2>1, <1>2 DEF MCInv
<1> QED BY <1>1, <1>2 DEF MCNext, MCInv, vars

\* Queue and pool are exact in every interleaving of the steps of their calls:
\* a claimed cell and a slot have one owner, values come out once and oldest
\* first, a guard reads an initialised value and a quiet pool counts its guards
\* (mpmc.rs, pool.rs).
THEOREM PoolExactAlways ==
  ASSUME Cap > 1
  PROVE  MCSpec => []PoolExact
<1>1. MCInit => MCInv
  BY MCInvInit
<1>2. MCInv /\ [MCNext]_<<part, vars>> => MCInv'
  BY MCInvStep
<1>3. MCInv => PoolExact
  BY RingInvExact, PoolInvSound DEF MCInv, PoolExact
<1> QED BY <1>1, <1>2, <1>3, PTL DEF MCSpec

-----------------------------------------------------------------------------
(* The queue implements ConcurrentQueue.                                   *)

\* A step of thread t that leaves the queued values, the cells and what other
\* threads have in hand, and in which t holds no value of the queue.
LEMMA ResultKept ==
  ASSUME RingTypeOK, RingTypeOK', NEW t \in Thread, claimed' = claimed,
         \A u \in Thread : u # t => pc'[u] = pc[u] /\ pos'[u] = pos[u] /\ val'[u] = val[u],
         \A u \in Thread : u # t /\ pc[u] = "popRead" => cell'[CellOf(pos[u])] = cell[CellOf(pos[u])],
         Result'[t] = Result[t]
  PROVE  UNCHANGED Queue!queueVars
<1>1. ASSUME NEW u \in Thread PROVE Result'[u] = Result[u]
  <2>1. CASE u = t
    BY <2>1
  <2>2. CASE u # t
    BY <2>2 DEF Result
  <2> QED BY <2>1, <2>2
<1>2. Result' = Result
  BY <1>1 DEF Result
<1> QED BY <1>2 DEF Queue!queueVars

\* A pop that claims finds a value queued: an empty queue has equal positions,
\* and moving one of them on makes them differ.
LEMMA ClaimFinds ==
  ASSUME QueueExact, QueueExact', NEW t \in Thread, PopCasOk(t)
  PROVE  claimed # << >>
<1> SUFFICES ASSUME claimed = << >> PROVE FALSE
  OBVIOUS
<1>1. /\ enq \in Position /\ deq \in Position /\ deq' \in Position /\ enq' = enq
      /\ claimed' = << >> /\ deq' = Inc(deq) /\ Len(<< >>) = 0
  BY DEF PopCasOk, QueueExact, RingTypeOK
<1>2. Ahead(enq, deq) = 0
  BY <1>1 DEF QueueExact, NeverOverfull
<1>3. Ahead(enq, deq') = 0
  BY <1>1 DEF QueueExact, NeverOverfull
<1>4. ASSUME NEW x \in Position, NEW y \in Position, Ahead(x, y) = 0
      PROVE  x = y
  <2>1. 0 < Wrap \div 2
    BY Sizes
  <2>2. Diff(x, y) = 0
    BY <1>4, <2>1 DEF Diff
  <2> QED BY <2>2, DiffZero
<1>5. deq = Inc(deq)
  BY <1>1, <1>2, <1>3, <1>4
<1>6. deq \in 0 .. Wrap - 1 /\ Wrap \in Nat /\ Wrap >= 4
  BY <1>1, Sizes DEF Position
<1>7. CASE deq = Wrap - 1
  <2>1. (deq + 1) % Wrap = 0
    <3>1. deq + 1 = Wrap * 1 + 0
      BY <1>6, <1>7
    <3> QED BY <3>1, <1>6, ModIs
  <2> QED BY <2>1, <1>5, <1>6, <1>7 DEF Inc
<1>8. CASE deq # Wrap - 1
  <2>1. (deq + 1) % Wrap = deq + 1
    <3>1. deq + 1 = Wrap * 0 + (deq + 1) /\ deq + 1 \in 0 .. Wrap - 1
      BY <1>6, <1>8
    <3> QED BY <3>1, <1>6, ModIs
  <2> QED BY <2>1, <1>5, <1>6 DEF Inc
<1> QED BY <1>7, <1>8

\* Every step of push and pop is one of the abstract queue, or leaves it alone.
LEMMA CallStep ==
  ASSUME QueueExact, QueueExact', NEW t \in Thread,
         Step(t) \/ PopStart(t) \/ (\E v \in Val : PushStart(t, v))
  PROVE  [Queue!Next]_(Queue!queueVars)
<1>t. /\ RingTypeOK /\ RingTypeOK' /\ CellExclusive /\ PopReturnsOldest' /\ NeverOverfull /\ NeverOverfull'
  BY DEF QueueExact
<1>0. /\ pc \in [Thread -> {"idle", "pushSeq", "pushCas", "pushWrite", "pushStore",
                           "popSeq", "popCas", "popRead", "popStore"}]
      /\ pos \in [Thread -> Position] /\ val \in [Thread -> Val \cup {NoVal}]
      /\ cell \in [Index -> Val \cup {NoVal}] /\ claimed \in Seq(Val) /\ claimed' \in Seq(Val)
      /\ \A u \in Thread : CellOf(pos[u]) \in Index
  <2>1. \A u \in Thread : pos[u] \in Position
    BY <1>t DEF RingTypeOK
  <2>2. \A u \in Thread : CellOf(pos[u]) \in Index
    BY <2>1, Sizes, PosIn DEF CellOf, Position
  <2> QED BY <1>t, <2>2 DEF RingTypeOK
<1>k. ASSUME claimed' = claimed, cell' = cell,
             \A u \in Thread : u # t => pc'[u] = pc[u] /\ pos'[u] = pos[u] /\ val'[u] = val[u],
             pc[t] \notin {"popRead", "popStore"}, pc'[t] \notin {"popRead", "popStore"}
      PROVE  UNCHANGED Queue!queueVars
  <2>1. Result'[t] = Result[t]
    BY <1>k DEF Result
  <2> QED BY <1>k, <1>t, <2>1, ResultKept
<1>1. CASE PopStart(t) \/ (\E v \in Val : PushStart(t, v))
  <2>1. claimed' = claimed /\ cell' = cell
    BY <1>1 DEF PopStart, PushStart, orderVars, cellVars
  <2>2. pc[t] = "idle" /\ pc'[t] \notin {"popRead", "popStore"}
    BY <1>1, <1>0 DEF PopStart, PushStart
  <2>3. \A u \in Thread : u # t => pc'[u] = pc[u] /\ pos'[u] = pos[u] /\ val'[u] = val[u]
    BY <1>1, <1>0 DEF PopStart, PushStart
  <2> QED BY <1>k, <2>1, <2>2, <2>3
<1>2. CASE \/ PushSeqFree(t) \/ PushSeqFull(t) \/ PushSeqStale(t) \/ PushCasFail(t) \/ PushStore(t)
           \/ PopSeqReady(t) \/ PopSeqEmpty(t) \/ PopSeqStale(t) \/ PopCasFail(t)
  <2>1. claimed' = claimed /\ cell' = cell
    BY <1>2 DEF PushSeqFree, PushSeqFull, PushSeqStale, PushCasFail, PushStore, PopSeqReady, PopSeqEmpty,
                PopSeqStale, PopCasFail, orderVars, cellVars
  <2>2. pc[t] \notin {"popRead", "popStore"} /\ pc'[t] \notin {"popRead", "popStore"}
    BY <1>2, <1>0 DEF PushSeqFree, PushSeqFull, PushSeqStale, PushCasFail, PushStore, PopSeqReady,
                      PopSeqEmpty, PopSeqStale, PopCasFail
  <2>3. \A u \in Thread : u # t => pc'[u] = pc[u] /\ pos'[u] = pos[u] /\ val'[u] = val[u]
    BY <1>2, <1>0 DEF PushSeqFree, PushSeqFull, PushSeqStale, PushCasFail, PushStore, PopSeqReady,
                      PopSeqEmpty, PopSeqStale, PopCasFail
  <2> QED BY <1>k, <2>1, <2>2, <2>3
<1>3. CASE PushCasOk(t)
  <2>1. /\ claimed' = Append(claimed, val[t]) /\ cell' = cell /\ pos' = pos /\ val' = val
        /\ pc[t] = "pushCas" /\ pc' = [pc EXCEPT ![t] = "pushWrite"]
    BY <1>3 DEF PushCasOk, cellVars
  <2>2. Result' = Result
    BY <2>1, <1>0 DEF Result
  <2>3. Len(claimed') = Len(claimed) + 1 /\ claimed'[Len(claimed) + 1] = val[t]
    BY <2>1, <1>0
  <2>4. val[t] \in Val
    BY <2>3, <1>0
  <2>5. Len(claimed) < Cap
    BY <2>3, <1>0, <1>t, Sizes DEF NeverOverfull
  <2> QED BY <2>1, <2>2, <2>4, <2>5 DEF Queue!Next, Queue!Put
<1>4. CASE PushWrite(t)
  <2>1. /\ claimed' = claimed /\ cell' = [cell EXCEPT ![CellOf(pos[t])] = val[t]] /\ pos' = pos /\ val' = val
        /\ pc[t] = "pushWrite" /\ pc' = [pc EXCEPT ![t] = "pushStore"]
    BY <1>4 DEF PushWrite, orderVars
  <2>2. Result'[t] = Result[t]
    BY <2>1, <1>0 DEF Result
  <2>3. ASSUME NEW u \in Thread, u # t, pc[u] = "popRead"
        PROVE  cell'[CellOf(pos[u])] = cell[CellOf(pos[u])]
    <3>1. CellOf(pos[t]) # CellOf(pos[u])
      BY <2>1, <2>3, <1>t DEF CellExclusive
    <3> QED BY <3>1, <2>1, <1>0
  <2>4. \A u \in Thread : u # t => pc'[u] = pc[u] /\ pos'[u] = pos[u] /\ val'[u] = val[u]
    BY <2>1, <1>0
  <2> QED BY <2>1, <2>2, <2>3, <2>4, <1>t, ResultKept
<1>5. CASE PopCasOk(t)
  <2>1. claimed # << >>
    BY <1>5, ClaimFinds
  <2>2. /\ cell' = cell /\ pos' = pos /\ val' = val /\ pc[t] = "popCas"
        /\ pc' = [pc EXCEPT ![t] = "popRead"] /\ claimed' = Tail(claimed)
        /\ expect' = [expect EXCEPT ![t] = Head(claimed)]
    BY <1>5, <2>1 DEF PopCasOk, cellVars
  <2>3. pc'[t] = "popRead" /\ expect'[t] = Head(claimed)
    BY <2>2, <1>0, <1>t DEF RingTypeOK
  <2>4. cell[CellOf(pos[t])] = Head(claimed)
    <3>1. cell'[CellOf(pos'[t])] = expect'[t]
      BY <2>3, <1>t DEF PopReturnsOldest, CellOf
    <3> QED BY <3>1, <2>2, <2>3
  <2>5. Result' = [Result EXCEPT ![t] = Head(claimed)]
    <3>1. Result' = [u \in Thread |-> IF pc'[u] = "popRead" THEN cell[CellOf(pos[u])]
                                      ELSE IF pc'[u] = "popStore" THEN val[u] ELSE NoVal]
      BY <2>2 DEF Result, CellOf
    <3>2. \A u \in Thread : u # t => pc'[u] = pc[u]
      BY <2>2, <1>0
    <3>3. \A u \in Thread : Result'[u] = IF u = t THEN Head(claimed) ELSE Result[u]
      BY <3>1, <3>2, <2>3, <2>4 DEF Result
    <3> QED BY <3>1, <3>3 DEF Result
  <2>6. Result[t] = NoVal
    BY <2>2 DEF Result
  <2> QED BY <2>1, <2>2, <2>5, <2>6 DEF Queue!Next, Queue!Take
<1>6. CASE PopRead(t)
  <2>1. /\ claimed' = claimed /\ cell' = [cell EXCEPT ![CellOf(pos[t])] = NoVal] /\ pos' = pos
        /\ val' = [val EXCEPT ![t] = cell[CellOf(pos[t])]]
        /\ pc[t] = "popRead" /\ pc' = [pc EXCEPT ![t] = "popStore"]
    BY <1>6 DEF PopRead, orderVars
  <2>2. Result'[t] = Result[t]
    <3>1. pc'[t] = "popStore" /\ val'[t] = cell[CellOf(pos[t])]
      BY <2>1, <1>0
    <3> QED BY <3>1, <2>1 DEF Result
  <2>3. ASSUME NEW u \in Thread, u # t, pc[u] = "popRead"
        PROVE  cell'[CellOf(pos[u])] = cell[CellOf(pos[u])]
    <3>1. CellOf(pos[t]) # CellOf(pos[u])
      BY <2>1, <2>3, <1>t DEF CellExclusive
    <3> QED BY <3>1, <2>1, <1>0
  <2>4. \A u \in Thread : u # t => pc'[u] = pc[u] /\ pos'[u] = pos[u] /\ val'[u] = val[u]
    BY <2>1, <1>0
  <2> QED BY <2>1, <2>2, <2>3, <2>4, <1>t, ResultKept
<1>7. CASE PopStore(t)
  <2>1. /\ claimed' = claimed /\ cell' = cell /\ pos' = pos /\ val' = val
        /\ pc[t] = "popStore" /\ pc' = [pc EXCEPT ![t] = "idle"]
    BY <1>7 DEF PopStore
  <2>2. Result' = [Result EXCEPT ![t] = NoVal]
    BY <2>1, <1>0 DEF Result, CellOf
  <2> QED BY <2>1, <2>2 DEF Queue!Next, Queue!Return
<1> QED BY <1>1, <1>2, <1>3, <1>4, <1>5, <1>6, <1>7 DEF Step

\* The queue of mpmc.rs is linearizable, alone and as the free list of the
\* pool: however many threads push and pop and wherever each of them is held
\* up, every push that succeeds appends at its compare-and-swap, every pop that
\* succeeds takes the oldest value at its own and returns it, and never more
\* than Cap values are queued.
THEOREM ImplementsQueue ==
  ASSUME Cap > 1
  PROVE  MCSpec => IsQueue
<1>1. MCInit => MCInv
  BY MCInvInit
<1>2. MCInv /\ [MCNext]_<<part, vars>> => MCInv'
  BY MCInvStep
<1>3. MCInv => QueueExact
  BY RingInvExact DEF MCInv
<1>4. MCInit => Queue!Init
  <2> SUFFICES ASSUME MCInit PROVE Queue!Init
    OBVIOUS
  <2>1. RingInv
    BY PoolInvInit, RingInvInit DEF MCInit, PoolInv
  <2>2. claimed \in Seq(Val) /\ Len(claimed) <= Cap
    BY <2>1, RingInvExact DEF QueueExact, RingTypeOK, NeverOverfull
  <2>3. Result = [t \in Thread |-> NoVal]
    BY DEF MCInit, Init, RingInit, Result
  <2> QED BY <2>2, <2>3 DEF Queue!Init
<1>5. MCInv /\ QueueExact /\ QueueExact' /\ [MCNext]_<<part, vars>> => [Queue!Next]_(Queue!queueVars)
  <2> SUFFICES ASSUME MCInv, QueueExact, QueueExact', [MCNext]_<<part, vars>>
      PROVE  [Queue!Next]_(Queue!queueVars)
    OBVIOUS
  <2>1. CASE UNCHANGED vars
    BY <2>1 DEF vars, ringVars, cellVars, posVars, orderVars, Queue!queueVars, Result, CellOf
  <2>2. CASE part = "queue" /\ RingNext
    BY <2>2, CallStep DEF RingNext
  <2>3. CASE part = "pool" /\ Next
    <3>1. PICK t \in Thread :
            \/ GetStart(t) \/ GetNone(t) \/ GetCount(t) \/ GetReuse(t) \/ GetInit(t) \/ GetFlag(t)
            \/ \E s \in Slots : ReleaseStart(t, s)
            \/ ReleaseCount(t)
            \/ Step(t) /\ UNCHANGED poolVars
      BY <2>3 DEF Next
    <3>2. CASE Step(t) \/ GetStart(t) \/ \E s \in Slots : ReleaseStart(t, s)
      BY <3>2, CallStep, SlotFacts DEF GetStart, ReleaseStart
    <3>3. CASE GetNone(t) \/ GetCount(t) \/ GetInit(t)
      BY <3>3 DEF GetNone, GetCount, GetInit, ringVars, cellVars, posVars, orderVars, Queue!queueVars,
                  Result, CellOf
    <3>4. CASE GetReuse(t) \/ GetFlag(t) \/ ReleaseCount(t)
      <4>1. pc[t] = "idle"
        BY <3>4, <2>3 DEF GetReuse, GetFlag, ReleaseCount, Goto, MCInv, PoolInv, CallsMatch
      <4>2. claimed' = claimed /\ cell' = cell /\ pc' = pc /\ pos' = pos /\ val' = [val EXCEPT ![t] = NoVal]
        BY <3>4 DEF GetReuse, GetFlag, ReleaseCount, cellVars, orderVars
      <4>3. Result' = Result
        <5>1. \A u \in Thread : u # t => val'[u] = val[u]
          BY <4>2 DEF QueueExact, RingTypeOK
        <5> QED BY <4>1, <4>2, <5>1 DEF Result, CellOf
      <4> QED BY <4>2, <4>3 DEF Queue!queueVars
    <3> QED BY <3>1, <3>2, <3>3, <3>4
  <2> QED BY <2>1, <2>2, <2>3 DEF MCNext
<1> QED BY <1>1, <1>2, <1>3, <1>4, <1>5, PTL DEF MCSpec, IsQueue, Queue!Spec

=============================================================================
