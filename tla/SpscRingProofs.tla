--------------------------- MODULE SpscRingProofs ---------------------------
(***************************************************************************)
(* Proofs about SpscRing, for every capacity, cursor width and value set:  *)
(* type correctness, the absence of slot races, the bound on len() as its  *)
(* two endpoints see it, and that the ring implements BoundedFifo.         *)
(***************************************************************************)
EXTENDS SpscRing, SequenceTheorems, TLAPS

-----------------------------------------------------------------------------
(* The inductive invariant.                                                *)

\* What each endpoint knows of the other's cursor: the head the producer saw
\* last is behind head, the tail the consumer saw last is behind tail, and the
\* window the producer works in is never wider than the capacity.  A call in
\* progress keeps the ring alive.
Windows ==
    /\ WrappingSub(head, phead) <= WrappingSub(tail, phead)
    /\ WrappingSub(tail, phead) <= Cap
    /\ ppc # "idle" => WrappingSub(tail, phead) < Cap /\ pval \in Val
    /\ WrappingSub(ctail, head) <= WrappingSub(tail, head)
    /\ cpc # "idle" => ctail # head
    /\ ppc # "idle" \/ cpc # "idle" => live

\* Position p holds a value: it was written, and it was not moved out yet.
Holds(p) ==
    \/ /\ WrappingSub(p, head) < WrappingSub(tail, head)
       /\ ~(p = head /\ cpc = "release")
    \/ p = tail /\ ppc = "publish"

\* The cells hold values at exactly the positions that hold one.
Cells ==
    /\ \A p \in Cursor : Holds(p) => slots[SlotOf(p)] \in Val
    /\ \A i \in Index : slots[i] # NoVal => \E p \in Cursor : Holds(p) /\ SlotOf(p) = i
    /\ ppc = "publish" => slots[SlotOf(tail)] = pval

\* What an endpoint inside len() holds.
Lengths ==
    /\ "producer" \in LenCallers /\ lpc["producer"] = "head" =>
          ppc = "idle" /\ ltail["producer"] = tail
    /\ "consumer" \in LenCallers /\ lpc["consumer"] = "head" =>
          cpc = "idle" /\ ltail["consumer"] = ctail
    /\ "observer" \notin LenCallers => \A c \in LenCallers : llen[c] <= Cap

IInv == TypeOK /\ Windows /\ Cells /\ Lengths

-----------------------------------------------------------------------------
(* Arithmetic of the cursors.                                              *)

\* There is at least one cursor value beyond the capacity.
LEMMA WrapPositive == Cap \in Nat /\ Cap > 0 /\ Wrap \in Nat /\ Wrap > Cap
  BY CapAssumption

\* The wrapped difference of two cursors without the modulus.
LEMMA SubLinear ==
    ASSUME NEW a \in Cursor, NEW b \in Cursor
    PROVE  /\ WrappingSub(a, b) = IF a >= b THEN a - b ELSE a - b + Wrap
           /\ WrappingSub(a, b) \in Cursor
  <1>0. Wrap \in Nat /\ Wrap > 0
    BY CapAssumption
  <1>1. CASE a >= b
    BY <1>0, <1>1 DEF WrappingSub, Cursor
  <1>2. CASE a < b
    BY <1>0, <1>2 DEF WrappingSub, Cursor
  <1> QED
    BY <1>1, <1>2 DEF Cursor

\* The wrapped successor of a cursor without the modulus.
LEMMA IncLinear ==
    ASSUME NEW a \in Cursor
    PROVE  /\ WrappingInc(a) = IF a = Wrap - 1 THEN 0 ELSE a + 1
           /\ WrappingInc(a) \in Cursor
  BY CapAssumption DEF WrappingInc, Cursor

\* Moving the upper cursor up by one widens the distance by one.
LEMMA IncUpper ==
    ASSUME NEW a \in Cursor, NEW b \in Cursor, WrappingSub(a, b) < Wrap - 1
    PROVE  WrappingSub(WrappingInc(a), b) = WrappingSub(a, b) + 1
  <1>1. WrappingInc(a) = (IF a = Wrap - 1 THEN 0 ELSE a + 1) /\ WrappingInc(a) \in Cursor
    BY IncLinear
  <1> DEFINE c == WrappingInc(a)
  <1>2. WrappingSub(c, b) = IF c >= b THEN c - b ELSE c - b + Wrap
    BY <1>1, SubLinear
  <1>3. WrappingSub(a, b) = IF a >= b THEN a - b ELSE a - b + Wrap
    BY SubLinear
  <1> QED
    BY <1>1, <1>2, <1>3, WrapPositive DEF Cursor

\* Moving the lower cursor up by one shortens the distance by one.
LEMMA IncLower ==
    ASSUME NEW a \in Cursor, NEW b \in Cursor, a # b
    PROVE  WrappingSub(a, WrappingInc(b)) = WrappingSub(a, b) - 1
  <1>1. WrappingInc(b) = (IF b = Wrap - 1 THEN 0 ELSE b + 1) /\ WrappingInc(b) \in Cursor
    BY IncLinear
  <1> DEFINE c == WrappingInc(b)
  <1>2. WrappingSub(a, c) = IF a >= c THEN a - c ELSE a - c + Wrap
    BY <1>1, SubLinear
  <1>3. WrappingSub(a, b) = IF a >= b THEN a - b ELSE a - b + Wrap
    BY SubLinear
  <1> QED
    BY <1>1, <1>2, <1>3, WrapPositive DEF Cursor

\* Distances add up along a window.
LEMMA Between3 ==
    ASSUME NEW a \in Cursor, NEW b \in Cursor, NEW c \in Cursor,
           WrappingSub(b, c) <= WrappingSub(a, c)
    PROVE  WrappingSub(a, b) = WrappingSub(a, c) - WrappingSub(b, c)
  <1>1. WrappingSub(a, b) = IF a >= b THEN a - b ELSE a - b + Wrap
    BY SubLinear
  <1>2. WrappingSub(a, c) = IF a >= c THEN a - c ELSE a - c + Wrap
    BY SubLinear
  <1>3. WrappingSub(b, c) = IF b >= c THEN b - c ELSE b - c + Wrap
    BY SubLinear
  <1> QED
    BY <1>1, <1>2, <1>3, WrapPositive DEF Cursor

\* Only equal cursors are at distance zero.
LEMMA SubZero ==
    ASSUME NEW a \in Cursor, NEW b \in Cursor
    PROVE  WrappingSub(a, b) = 0 <=> a = b
  <1>1. WrappingSub(a, b) = IF a >= b THEN a - b ELSE a - b + Wrap
    BY SubLinear
  <1> QED
    BY <1>1, WrapPositive DEF Cursor

\* Quotient and remainder by the capacity.
LEMMA QuotRem ==
    ASSUME NEW a \in Nat
    PROVE  /\ a \div Cap \in Int
           /\ a = (Cap * (a \div Cap)) + (a % Cap)
           /\ a % Cap \in Index
  BY CapAssumption DEF Index

\* No multiple of the capacity lies strictly between 0 and the capacity.
LEMMA NoMultiple ==
    ASSUME NEW m \in Int, 0 < Cap * m, Cap * m < Cap
    PROVE  FALSE
  <1>0. Cap \in Int /\ Cap > 0
    BY CapAssumption
  <1>1. CASE m <= 0
    BY <1>0, <1>1
  <1>2. CASE m >= 1
    BY <1>0, <1>2
  <1> QED
    BY <1>1, <1>2

\* "t & mask" tells apart the positions of one window, across the wrap-around
\* of the cursors: this is where the capacity must divide their range.
LEMMA SlotsDistinct ==
    ASSUME NEW a \in Cursor, NEW b \in Cursor,
           0 < WrappingSub(a, b), WrappingSub(a, b) < Cap
    PROVE  SlotOf(a) # SlotOf(b)
  <1>1. a \in Nat /\ b \in Nat /\ Wrap \in Nat /\ Cap \in Nat /\ Cap > 0
    BY CapAssumption DEF Cursor
  <1> DEFINE qa == a \div Cap
             qb == b \div Cap
             k  == Wrap \div Cap
  <1>2. /\ qa \in Int /\ qb \in Int /\ k \in Int
        /\ a = (Cap * qa) + (a % Cap) /\ b = (Cap * qb) + (b % Cap)
        /\ Wrap = Cap * k
        /\ a % Cap \in Int /\ b % Cap \in Int
    BY <1>1, QuotRem, CapAssumption DEF Index
  <1> HIDE DEF qa, qb, k
  <1> SUFFICES ASSUME a % Cap = b % Cap
               PROVE  FALSE
    BY DEF SlotOf
  <1>3. CASE a >= b
    <2>1. WrappingSub(a, b) = Cap * (qa - qb)
      BY <1>1, <1>2, <1>3, SubLinear
    <2> QED
      BY <2>1, <1>2, NoMultiple
  <1>4. CASE ~(a >= b)
    <2>1. WrappingSub(a, b) = a - b + Wrap
      BY <1>4, SubLinear
    <2>2. a - b + Wrap = Cap * (qa - qb + k)
      BY <1>1, <1>2
    <2> QED
      BY <2>1, <2>2, <1>2, NoMultiple
  <1> QED
    BY <1>3, <1>4

\* A cell index is an index.
LEMMA SlotIndex ==
    ASSUME NEW a \in Cursor
    PROVE  SlotOf(a) \in Index
  BY QuotRem DEF SlotOf, Cursor

-----------------------------------------------------------------------------
(* Consequences of the invariant that several actions use.                 *)

\* The values between the cursors fit the ring; a producer past its check has
\* room for one more.
LEMMA Room ==
    ASSUME IInv
    PROVE  /\ WrappingSub(tail, head) \in 0 .. Cap
           /\ ppc # "idle" => WrappingSub(tail, head) < Cap
  <1>1. head \in Cursor /\ tail \in Cursor /\ phead \in Cursor
    BY DEF IInv, TypeOK
  <1>2. WrappingSub(tail, head) = WrappingSub(tail, phead) - WrappingSub(head, phead)
    BY <1>1, Between3 DEF IInv, Windows
  <1>3. /\ WrappingSub(tail, phead) \in Cursor /\ WrappingSub(head, phead) \in Cursor
        /\ WrappingSub(tail, head) \in Cursor
    BY <1>1, SubLinear
  <1> QED
    BY <1>2, <1>3, CapAssumption DEF IInv, Windows, Cursor

\* A consumer past its check has something to take.
LEMMA Something ==
    ASSUME IInv, cpc # "idle"
    PROVE  /\ WrappingSub(tail, head) > 0
           /\ head # tail
  <1>1. head \in Cursor /\ tail \in Cursor /\ ctail \in Cursor
    BY DEF IInv, TypeOK
  <1>2. WrappingSub(ctail, head) \in Cursor /\ WrappingSub(ctail, head) # 0
    BY <1>1, SubLinear, SubZero DEF IInv, Windows
  <1>3. WrappingSub(tail, head) \in Cursor
    BY <1>1, SubLinear
  <1> QED
    BY <1>1, <1>2, <1>3, SubZero DEF IInv, Windows, Cursor

-----------------------------------------------------------------------------
(* The invariant holds initially and every action preserves it.            *)

\* with_capacity: an empty ring satisfies the invariant.
LEMMA InitIInv == Init => IInv
  <1> SUFFICES ASSUME Init
               PROVE  IInv
    OBVIOUS
  <1>1. 0 \in Cursor /\ WrappingSub(0, 0) = 0
    BY WrapPositive, SubZero DEF Cursor
  <1>2. TypeOK
    BY <1>1 DEF Init, TypeOK
  <1>3. Windows
    BY <1>1, WrapPositive DEF Init, Windows
  <1>4. Cells
    <2>1. \A p \in Cursor : ~Holds(p)
      BY <1>1, SubLinear DEF Init, Holds, Cursor
    <2>2. \A i \in Index : slots[i] = NoVal
      BY DEF Init
    <2> QED
      BY <2>1, <2>2 DEF Cells, Init
  <1>5. Lengths
    BY WrapPositive DEF Init, Lengths
  <1> QED
    BY <1>2, <1>3, <1>4, <1>5 DEF IInv

\* A cursor load returns a cursor value between the one seen before and now.
LEMMA VisibleCursor ==
    ASSUME NEW seen \in Cursor, NEW now \in Cursor, NEW c \in Visible(seen, now)
    PROVE  c \in Cursor /\ WrappingSub(c, seen) <= WrappingSub(now, seen)
  BY DEF Visible

\* Every step of push, pop, len and drop keeps the types.
LEMMA TypeStep == TypeOK /\ [Next]_vars => TypeOK'
  <1> SUFFICES ASSUME TypeOK, [Next]_vars
               PROVE  TypeOK'
    OBVIOUS
  <1> USE DEF TypeOK
  <1>1. CASE PushRefused
    BY <1>1, VisibleCursor DEF PushRefused, consVars, lenVars
  <1>2. ASSUME NEW v \in Val, PushClaim(v)
        PROVE  TypeOK'
    BY <1>2, VisibleCursor DEF PushClaim, consVars, lenVars
  <1>3. CASE PushWrite
    BY <1>3, SlotIndex DEF PushWrite, consVars, lenVars
  <1>4. CASE PushPublish
    BY <1>4, IncLinear DEF PushPublish, consVars, lenVars
  <1>5. CASE PopNone
    BY <1>5, VisibleCursor DEF PopNone, prodVars, lenVars
  <1>6. CASE PopClaim
    BY <1>6, VisibleCursor DEF PopClaim, prodVars, lenVars
  <1>7. CASE PopRead
    BY <1>7, SlotIndex DEF PopRead, prodVars, lenVars
  <1>8. CASE PopRelease
    BY <1>8, IncLinear DEF PopRelease, prodVars, lenVars
  <1>9. ASSUME NEW c \in LenCallers, LenLoadTail(c)
        PROVE  TypeOK'
    BY <1>9, VisibleCursor DEF LenLoadTail, prodVars
  <1>10. ASSUME NEW c \in LenCallers, LenLoadHead(c)
         PROVE  TypeOK'
    <2>1. PICK h \in Cursor : /\ llen' = [llen EXCEPT ![c] = WrappingSub(ltail[c], h)]
                              /\ phead' = IF c = "producer" THEN h ELSE phead
      BY <1>10, VisibleCursor DEF LenLoadHead
    <2>2. WrappingSub(ltail[c], h) \in Cursor
      BY SubLinear
    <2> QED
      BY <1>10, <2>1, <2>2 DEF LenLoadHead, consVars
  <1>11. CASE DropRing
    BY <1>11 DEF DropRing, prodVars, lenVars
  <1>12. CASE UNCHANGED vars
    BY <1>12 DEF vars, prodVars, consVars, lenVars
  <1> QED
    BY <1>1, <1>2, <1>3, <1>4, <1>5, <1>6, <1>7, <1>8, <1>9, <1>10, <1>11, <1>12
       DEF Next, Producer, Consumer, Observe

\* Every step keeps the cursors in the windows the endpoints rely on.
LEMMA WindowsStep == IInv /\ [Next]_vars => Windows'
  <1> SUFFICES ASSUME IInv, [Next]_vars
               PROVE  Windows'
    OBVIOUS
  <1>0. /\ head \in Cursor /\ tail \in Cursor /\ phead \in Cursor /\ ctail \in Cursor
        /\ Windows
    BY DEF IInv, TypeOK
  <1>r. WrappingSub(tail, head) \in 0 .. Cap
    BY Room
  \* A fresher head narrows the producer's window.
  <1>h. ASSUME NEW h \in Visible(phead, head)
        PROVE  /\ h \in Cursor
               /\ WrappingSub(head, h) <= WrappingSub(tail, h)
               /\ WrappingSub(tail, h) \in Cursor
               /\ WrappingSub(tail, h) <= Cap
               /\ ppc # "idle" => WrappingSub(tail, h) < Cap
    <2>1. h \in Cursor /\ WrappingSub(h, phead) <= WrappingSub(head, phead)
      BY <1>0, <1>h, VisibleCursor
    <2>2. /\ WrappingSub(head, phead) \in Cursor /\ WrappingSub(tail, phead) \in Cursor
          /\ WrappingSub(h, phead) \in Cursor
      BY <1>0, <2>1, SubLinear
    <2>3. WrappingSub(head, h) = WrappingSub(head, phead) - WrappingSub(h, phead)
      BY <1>0, <2>1, Between3
    <2>4. WrappingSub(h, phead) <= WrappingSub(tail, phead)
      BY <1>0, <2>1, <2>2 DEF Windows, Cursor
    <2>5. WrappingSub(tail, h) = WrappingSub(tail, phead) - WrappingSub(h, phead)
      BY <1>0, <2>1, <2>4, Between3
    <2>6. WrappingSub(tail, h) \in Cursor
      BY <1>0, <2>1, SubLinear
    <2> QED
      BY <1>0, <2>1, <2>2, <2>3, <2>5, <2>6, WrapPositive DEF Windows, Cursor
  \* A fresher tail stays behind tail.
  <1>t. ASSUME NEW t \in Visible(ctail, tail)
        PROVE  t \in Cursor /\ WrappingSub(t, head) <= WrappingSub(tail, head)
    <2>1. t \in Cursor /\ WrappingSub(t, ctail) <= WrappingSub(tail, ctail)
      BY <1>0, <1>t, VisibleCursor
    <2>2. WrappingSub(tail, ctail) = WrappingSub(tail, head) - WrappingSub(ctail, head)
      BY <1>0, Between3 DEF Windows
    <2>3. WrappingSub(t, ctail) = IF t >= ctail THEN t - ctail ELSE t - ctail + Wrap
      BY <1>0, <2>1, SubLinear
    <2>4. WrappingSub(ctail, head) = IF ctail >= head THEN ctail - head ELSE ctail - head + Wrap
      BY <1>0, SubLinear
    <2>5. WrappingSub(t, head) = IF t >= head THEN t - head ELSE t - head + Wrap
      BY <1>0, <2>1, SubLinear
    <2> QED
      BY <1>0, <1>r, <2>1, <2>2, <2>3, <2>4, <2>5, WrapPositive DEF Cursor
  <1>1. CASE PushRefused
    BY <1>1, <1>0, <1>h DEF PushRefused, Windows, consVars
  <1>2. ASSUME NEW v \in Val, PushClaim(v)
        PROVE  Windows'
    <2>1. PICK h \in Visible(phead, head) : ~Full(h) /\ phead' = h
      BY <1>2 DEF PushClaim
    <2>2. WrappingSub(tail, h) < Cap
      BY <1>h, <2>1, WrapPositive DEF Full, Cursor
    <2> QED
      BY <1>2, <1>0, <1>h, <2>1, <2>2 DEF PushClaim, Windows, consVars
  <1>3. CASE PushWrite
    BY <1>3, <1>0 DEF PushWrite, Windows, consVars
  <1>4. CASE PushPublish
    <2>1. WrappingSub(tail, phead) < Cap /\ WrappingSub(tail, head) < Cap
      BY <1>0, <1>4, Room DEF PushPublish, Windows
    <2>2. WrappingSub(tail, phead) \in Cursor /\ WrappingSub(head, phead) \in Cursor
      BY <1>0, SubLinear
    <2>3. /\ WrappingSub(tail', phead) = WrappingSub(tail, phead) + 1
          /\ WrappingSub(tail', head) = WrappingSub(tail, head) + 1
      BY <1>0, <1>4, <1>r, <2>1, <2>2, IncUpper, WrapPositive DEF PushPublish, Cursor
    <2>4. WrappingSub(ctail, head) \in Cursor
      BY <1>0, SubLinear
    <2> QED
      BY <1>0, <1>4, <1>r, <2>1, <2>2, <2>3, <2>4, WrapPositive
         DEF PushPublish, Windows, consVars, Cursor
  <1>5. CASE PopNone
    BY <1>5, <1>0, <1>t DEF PopNone, Windows, prodVars
  <1>6. CASE PopClaim
    BY <1>6, <1>0, <1>t DEF PopClaim, Empty, Windows, prodVars
  <1>7. CASE PopRead
    BY <1>7, <1>0 DEF PopRead, Windows, prodVars
  <1>8. CASE PopRelease
    <2>1. WrappingSub(tail, head) > 0 /\ head # tail /\ ctail # head
      BY <1>8, <1>0, Something DEF PopRelease, Windows
    <2>2. /\ WrappingSub(tail, head') = WrappingSub(tail, head) - 1
          /\ WrappingSub(ctail, head') = WrappingSub(ctail, head) - 1
      BY <1>0, <1>8, <2>1, IncLower DEF PopRelease
    <2>3. /\ WrappingSub(tail, phead) \in Cursor /\ WrappingSub(head, phead) \in Cursor
          /\ WrappingSub(ctail, head) \in Cursor
      BY <1>0, SubLinear
    <2>4. WrappingSub(tail, head) = WrappingSub(tail, phead) - WrappingSub(head, phead)
      BY <1>0, Between3 DEF Windows
    <2>5. WrappingSub(head', phead) = WrappingSub(head, phead) + 1
      BY <1>0, <1>8, <2>1, <2>3, <2>4, IncUpper, WrapPositive DEF PopRelease, Windows, Cursor
    <2> QED
      BY <1>0, <1>8, <1>r, <2>1, <2>2, <2>3, <2>4, <2>5, WrapPositive
         DEF PopRelease, Windows, prodVars, Cursor
  <1>9. ASSUME NEW c \in LenCallers, LenLoadTail(c)
        PROVE  Windows'
    BY <1>9, <1>0, <1>t DEF LenLoadTail, Windows, prodVars
  <1>10. ASSUME NEW c \in LenCallers, LenLoadHead(c)
         PROVE  Windows'
    BY <1>10, <1>0, <1>h DEF LenLoadHead, Windows, consVars
  <1>11. CASE DropRing
    <2>1. WrappingSub(tail, tail) = 0
      BY <1>0, SubZero
    <2> QED
      BY <1>0, <1>11, <2>1, SubLinear DEF DropRing, Windows, prodVars, Cursor
  <1>12. CASE UNCHANGED vars
    BY <1>0, <1>12 DEF vars, Windows, prodVars, consVars
  <1> QED
    BY <1>1, <1>2, <1>3, <1>4, <1>5, <1>6, <1>7, <1>8, <1>9, <1>10, <1>11, <1>12
       DEF Next, Producer, Consumer, Observe

\* Two positions of one window of Cap positions have different cells.
LEMMA WindowDistinct ==
    ASSUME NEW h \in Cursor, NEW p \in Cursor, NEW q \in Cursor, p # q,
           WrappingSub(p, h) < Cap, WrappingSub(q, h) < Cap
    PROVE  SlotOf(p) # SlotOf(q)
  <1>0. /\ WrappingSub(p, h) \in Cursor /\ WrappingSub(q, h) \in Cursor
        /\ WrappingSub(p, q) \in Cursor /\ WrappingSub(q, p) \in Cursor
        /\ WrappingSub(p, q) # 0 /\ WrappingSub(q, p) # 0
    BY SubLinear, SubZero
  <1>1. CASE WrappingSub(q, h) <= WrappingSub(p, h)
    <2>1. WrappingSub(p, q) = WrappingSub(p, h) - WrappingSub(q, h)
      BY <1>1, Between3
    <2>2. 0 < WrappingSub(p, q) /\ WrappingSub(p, q) < Cap
      BY <1>0, <2>1, WrapPositive DEF Cursor
    <2> QED
      BY <2>2, SlotsDistinct
  <1>2. CASE WrappingSub(p, h) <= WrappingSub(q, h)
    <2>1. WrappingSub(q, p) = WrappingSub(q, h) - WrappingSub(p, h)
      BY <1>2, Between3
    <2>2. 0 < WrappingSub(q, p) /\ WrappingSub(q, p) < Cap
      BY <1>0, <2>1, WrapPositive DEF Cursor
    <2> QED
      BY <2>2, SlotsDistinct
  <1> QED
    BY <1>0, <1>1, <1>2 DEF Cursor

\* A position that holds a value lies in the window of Cap positions at head.
LEMMA HoldsWindow ==
    ASSUME IInv, NEW p \in Cursor, Holds(p)
    PROVE  WrappingSub(p, head) < Cap
  <1>1. head \in Cursor /\ tail \in Cursor
    BY DEF IInv, TypeOK
  <1>2. WrappingSub(p, head) \in Cursor
    BY <1>1, SubLinear
  <1> QED
    BY <1>1, <1>2, Room, WrapPositive DEF Holds, Cursor

\* Every step keeps the cells filled at exactly the positions that hold values.
LEMMA CellsStep == IInv /\ [Next]_vars => Cells'
  <1> SUFFICES ASSUME IInv, [Next]_vars
               PROVE  Cells'
    OBVIOUS
  <1>0. /\ head \in Cursor /\ tail \in Cursor
        /\ slots \in [Index -> Val \cup {NoVal}]
        /\ SlotOf(head) \in Index /\ SlotOf(tail) \in Index
        /\ WrappingSub(tail, head) \in 0 .. Cap
        /\ Cells
    BY SlotIndex, Room DEF IInv, TypeOK
  \* Steps that leave the positions in use alone.
  <1>a. ASSUME UNCHANGED <<head, tail, slots, pval>>,
               ppc' = "publish" <=> ppc = "publish",
               cpc' = "release" <=> cpc = "release"
        PROVE  Cells'
    <2>1. \A p \in Cursor : Holds(p)' <=> Holds(p)
      BY <1>a DEF Holds
    <2> QED
      BY <1>0, <1>a, <2>1 DEF Cells
  <1>1. CASE PushRefused
    BY <1>1, <1>a DEF PushRefused, consVars
  <1>2. ASSUME NEW v \in Val, PushClaim(v)
        PROVE  Cells'
    <2>1. \A p \in Cursor : Holds(p)' <=> Holds(p)
      BY <1>2 DEF Holds, PushClaim, consVars
    <2> QED
      BY <1>0, <1>2, <2>1 DEF Cells, PushClaim, consVars
  <1>3. CASE PushWrite
    <2>1. pval \in Val /\ WrappingSub(tail, head) < Cap
      BY <1>3, Room DEF PushWrite, IInv, Windows
    <2>2. /\ slots' = [slots EXCEPT ![SlotOf(tail)] = pval]
          /\ slots'[SlotOf(tail)] = pval
          /\ \A i \in Index : i # SlotOf(tail) => slots'[i] = slots[i]
      BY <1>0, <1>3 DEF PushWrite
    <2>3. \A p \in Cursor : Holds(p)' <=> (Holds(p) \/ p = tail)
      BY <1>3 DEF Holds, PushWrite, consVars
    <2>4. \A p \in Cursor : Holds(p) => p # tail
      BY <1>0, <1>3, SubLinear DEF Holds, PushWrite, Cursor
    <2>5. \A p \in Cursor : Holds(p) => SlotOf(p) \in Index /\ SlotOf(p) # SlotOf(tail)
      BY <1>0, <2>1, <2>4, HoldsWindow, WindowDistinct, SlotIndex
    <2>6. \A p \in Cursor : Holds(p)' => slots'[SlotOf(p)] \in Val
      BY <1>0, <2>1, <2>2, <2>3, <2>5 DEF Cells
    <2>7. \A i \in Index : slots'[i] # NoVal => \E p \in Cursor : Holds(p)' /\ SlotOf(p) = i
      BY <1>0, <2>2, <2>3 DEF Cells
    <2> QED
      BY <1>3, <2>2, <2>6, <2>7 DEF Cells, PushWrite
  <1>4. CASE PushPublish
    <2>1. /\ WrappingSub(tail, head) < Cap
          /\ WrappingSub(tail', head) = WrappingSub(tail, head) + 1
      BY <1>0, <1>4, Room, IncUpper, WrapPositive DEF PushPublish
    <2>2. ASSUME NEW p \in Cursor
          PROVE  Holds(p)' <=> Holds(p)
      <3>1. WrappingSub(p, head) \in Cursor
        BY <1>0, SubLinear
      <3>2. WrappingSub(p, head) = WrappingSub(tail, head) <=> p = tail
        <4>1. WrappingSub(p, head) = IF p >= head THEN p - head ELSE p - head + Wrap
          BY <1>0, SubLinear
        <4>2. WrappingSub(tail, head) = IF tail >= head THEN tail - head ELSE tail - head + Wrap
          BY <1>0, SubLinear
        <4> QED
          BY <1>0, <4>1, <4>2, WrapPositive DEF Cursor
      <3>3. p = tail /\ cpc = "release" => p # head
        BY Something
      <3>4. WrappingSub(p, head) < WrappingSub(tail', head) <=>
               WrappingSub(p, head) < WrappingSub(tail, head) \/ p = tail
        BY <1>0, <2>1, <3>1, <3>2 DEF Cursor
      <3> QED
        BY <1>4, <3>3, <3>4 DEF Holds, PushPublish, consVars
    <2> QED
      BY <1>0, <1>4, <2>2 DEF Cells, PushPublish
  <1>5. CASE PopNone
    BY <1>5, <1>a DEF PopNone, prodVars
  <1>6. CASE PopClaim
    BY <1>6, <1>a DEF PopClaim, prodVars
  <1>7. CASE PopRead
    <2>1. WrappingSub(tail, head) > 0 /\ head # tail /\ WrappingSub(head, head) = 0
      BY <1>0, <1>7, Something, SubZero DEF PopRead
    <2>2. /\ slots'[SlotOf(head)] = NoVal
          /\ \A i \in Index : i # SlotOf(head) => slots'[i] = slots[i]
      BY <1>0, <1>7 DEF PopRead
    <2>3. \A p \in Cursor : Holds(p)' <=> (Holds(p) /\ p # head)
      BY <1>7, <2>1 DEF Holds, PopRead, prodVars
    <2>4. \A p \in Cursor : Holds(p) /\ p # head => SlotOf(p) \in Index /\ SlotOf(p) # SlotOf(head)
      BY <1>0, <2>1, HoldsWindow, WindowDistinct, SlotIndex, WrapPositive
    <2>5. \A p \in Cursor : Holds(p)' => slots'[SlotOf(p)] \in Val
      BY <1>0, <2>2, <2>3, <2>4 DEF Cells
    <2>6. \A i \in Index : slots'[i] # NoVal => \E p \in Cursor : Holds(p)' /\ SlotOf(p) = i
      BY <1>0, <2>2, <2>3 DEF Cells
    <2>7. ppc = "publish" => SlotOf(tail) # SlotOf(head)
      <3>1. ppc = "publish" => Holds(tail)
        BY DEF Holds
      <3> QED
        BY <1>0, <2>1, <2>4, <3>1
    <2> QED
      BY <1>0, <1>7, <2>2, <2>5, <2>6, <2>7 DEF Cells, PopRead, prodVars
  <1>8. CASE PopRelease
    <2>1. /\ WrappingSub(tail, head) > 0 /\ head # tail
          /\ WrappingSub(tail, head') = WrappingSub(tail, head) - 1
      BY <1>0, <1>8, Something, IncLower DEF PopRelease
    <2>2. ASSUME NEW p \in Cursor
          PROVE  Holds(p)' <=> Holds(p)
      <3>1. /\ WrappingSub(p, head) \in Cursor
            /\ p # head => WrappingSub(p, head') = WrappingSub(p, head) - 1
        BY <1>0, <1>8, SubLinear, IncLower DEF PopRelease
      <3>2. p = head => WrappingSub(p, head') = Wrap - 1
        <4>1. head' = (IF head = Wrap - 1 THEN 0 ELSE head + 1) /\ head' \in Cursor
          BY <1>0, <1>8, IncLinear DEF PopRelease
        <4>2. WrappingSub(head, head') = IF head >= head' THEN head - head' ELSE head - head' + Wrap
          BY <1>0, <4>1, SubLinear
        <4> QED
          BY <1>0, <4>1, <4>2, WrapPositive DEF Cursor
      <3>3. WrappingSub(p, head') < WrappingSub(tail, head') <=>
               WrappingSub(p, head) < WrappingSub(tail, head) /\ p # head
        BY <1>0, <2>1, <3>1, <3>2, WrapPositive DEF Cursor
      <3> QED
        BY <1>8, <2>1, <3>3 DEF Holds, PopRelease, prodVars
    <2> QED
      BY <1>0, <1>8, <2>2 DEF Cells, PopRelease, prodVars
  <1>9. ASSUME NEW c \in LenCallers, LenLoadTail(c)
        PROVE  Cells'
    BY <1>9, <1>a DEF LenLoadTail, prodVars
  <1>10. ASSUME NEW c \in LenCallers, LenLoadHead(c)
         PROVE  Cells'
    BY <1>10, <1>a DEF LenLoadHead, consVars
  <1>11. CASE DropRing
    <2>1. WrappingSub(tail', head') = 0 /\ head' \in Cursor
      BY <1>0, <1>11, SubZero DEF DropRing
    <2>2. \A p \in Cursor : ~Holds(p)'
      BY <1>11, <2>1, SubLinear DEF DropRing, Holds, Cursor, prodVars
    <2> QED
      BY <1>11, <2>2 DEF DropRing, Cells, prodVars
  <1>12. CASE UNCHANGED vars
    BY <1>12, <1>a DEF vars, prodVars, consVars
  <1> QED
    BY <1>1, <1>2, <1>3, <1>4, <1>5, <1>6, <1>7, <1>8, <1>9, <1>10, <1>11, <1>12
       DEF Next, Producer, Consumer, Observe

\* Every step keeps what an endpoint inside len() relies on.
LEMMA LengthsStep == IInv /\ [Next]_vars => Lengths'
  <1> SUFFICES ASSUME IInv, [Next]_vars
               PROVE  Lengths'
    OBVIOUS
  <1>0. /\ head \in Cursor /\ tail \in Cursor /\ phead \in Cursor /\ ctail \in Cursor
        /\ lpc \in [LenCallers -> {"idle", "head"}]
        /\ ltail \in [LenCallers -> Cursor] /\ llen \in [LenCallers -> Cursor]
        /\ WrappingSub(tail, head) \in 0 .. Cap
        /\ Lengths /\ Windows
    BY Room DEF IInv, TypeOK
  <1>1. CASE PushRefused
    BY <1>0, <1>1 DEF PushRefused, Lengths, consVars, lenVars
  <1>2. ASSUME NEW v \in Val, PushClaim(v)
        PROVE  Lengths'
    BY <1>0, <1>2 DEF PushClaim, Between, Lengths, consVars, lenVars
  <1>3. CASE PushWrite
    BY <1>0, <1>3 DEF PushWrite, Lengths, consVars, lenVars
  <1>4. CASE PushPublish
    BY <1>0, <1>4 DEF PushPublish, Lengths, consVars, lenVars
  <1>5. CASE PopNone
    BY <1>0, <1>5 DEF PopNone, Between, Lengths, prodVars, lenVars
  <1>6. CASE PopClaim
    BY <1>0, <1>6 DEF PopClaim, Between, Lengths, prodVars, lenVars
  <1>7. CASE PopRead
    BY <1>0, <1>7 DEF PopRead, Lengths, prodVars, lenVars
  <1>8. CASE PopRelease
    BY <1>0, <1>8 DEF PopRelease, Lengths, prodVars, lenVars
  <1>9. ASSUME NEW c \in LenCallers, LenLoadTail(c)
        PROVE  Lengths'
    BY <1>0, <1>9 DEF LenLoadTail, Lengths, prodVars
  <1>10. ASSUME NEW c \in LenCallers, LenLoadHead(c)
         PROVE  Lengths'
    <2>1. PICK h \in (IF c = "producer" THEN Visible(phead, head) ELSE {head}) :
             llen' = [llen EXCEPT ![c] = WrappingSub(ltail[c], h)]
      BY <1>10 DEF LenLoadHead
    <2>2. "observer" \notin LenCallers => WrappingSub(ltail[c], h) <= Cap
      <3>1. CASE c = "producer"
        <4>1. h \in Cursor /\ WrappingSub(h, phead) <= WrappingSub(head, phead)
          BY <1>0, <2>1, <3>1, VisibleCursor
        <4>2. /\ WrappingSub(head, phead) \in Cursor /\ WrappingSub(tail, phead) \in Cursor
              /\ WrappingSub(h, phead) \in Cursor
          BY <1>0, <4>1, SubLinear
        <4>3. WrappingSub(h, phead) <= WrappingSub(tail, phead)
          BY <1>0, <4>1, <4>2 DEF Windows, Cursor
        <4>4. WrappingSub(tail, h) = WrappingSub(tail, phead) - WrappingSub(h, phead)
          BY <1>0, <4>1, <4>3, Between3
        <4>5. ltail[c] = tail
          BY <1>0, <1>10, <3>1 DEF LenLoadHead, Lengths
        <4> QED
          BY <1>0, <4>2, <4>4, <4>5, WrapPositive DEF Windows, Cursor
      <3>2. CASE c = "consumer"
        <4>1. ltail[c] = ctail /\ h = head
          BY <1>0, <1>10, <2>1, <3>2 DEF LenLoadHead, Lengths
        <4>2. WrappingSub(ctail, head) \in Cursor
          BY <1>0, SubLinear
        <4> QED
          BY <1>0, <4>1, <4>2, WrapPositive DEF Windows, Cursor
      <3> QED
        BY <3>1, <3>2, CallersAssumption
    <2>3. "observer" \notin LenCallers => \A d \in LenCallers : llen'[d] <= Cap
      BY <1>0, <2>1, <2>2 DEF Lengths
    <2> QED
      BY <1>0, <1>10, <2>3 DEF LenLoadHead, Lengths, consVars
  <1>11. CASE DropRing
    BY <1>0, <1>11 DEF DropRing, Lengths, prodVars, lenVars
  <1>12. CASE UNCHANGED vars
    BY <1>0, <1>12 DEF vars, Lengths, prodVars, consVars, lenVars
  <1> QED
    BY <1>1, <1>2, <1>3, <1>4, <1>5, <1>6, <1>7, <1>8, <1>9, <1>10, <1>11, <1>12
       DEF Next, Producer, Consumer, Observe

-----------------------------------------------------------------------------
(* The theorems.                                                           *)

\* The inductive invariant holds of every ring, through pushes, pops, calls of
\* len() and the drop.
THEOREM Invariance == Spec => []IInv
  <1>1. IInv /\ [Next]_vars => IInv'
    BY TypeStep, WindowsStep, CellsStep, LengthsStep DEF IInv
  <1> QED
    BY InitIInv, <1>1, PTL DEF Spec

\* The cursors, cells and values in hand keep their types for every capacity
\* and cursor width (do_push, do_pop, len, Drop).
THEOREM TypeCorrect == Spec => []TypeOK
  <1>1. IInv => TypeOK
    BY DEF IInv
  <1> QED
    BY Invariance, <1>1, PTL

\* The SAFETY comments of do_push and do_pop hold for every capacity and every
\* cursor width: no cell is written before it was consumed or read before it
\* was published, also after the cursors have wrapped.
THEOREM SlotRaceFree == Spec => []NoSlotRace
  <1>1. IInv => NoSlotRace
    <2> SUFFICES ASSUME IInv
                 PROVE  NoSlotRace
      OBVIOUS
    <2>0. /\ head \in Cursor /\ tail \in Cursor
          /\ SlotOf(head) \in Index /\ SlotOf(tail) \in Index
          /\ WrappingSub(head, head) = 0
          /\ Cells
      BY SlotIndex, SubZero DEF IInv, TypeOK
    <2>1. cpc = "read" => Holds(head)
      BY <2>0, Something DEF Holds
    <2>2. cpc = "read" => slots[SlotOf(head)] # NoVal
      BY <2>0, <2>1, ValAssumption DEF Cells
    <2>3. ppc = "write" => slots[SlotOf(tail)] = NoVal
      <3> SUFFICES ASSUME ppc = "write", slots[SlotOf(tail)] # NoVal
                   PROVE  FALSE
        OBVIOUS
      <3>1. PICK p \in Cursor : Holds(p) /\ SlotOf(p) = SlotOf(tail)
        BY <2>0 DEF Cells
      <3>2. WrappingSub(p, head) < WrappingSub(tail, head)
        BY <3>1 DEF Holds
      <3>3. p # tail
        BY <2>0, <3>2, SubLinear DEF Cursor
      <3> QED
        BY <2>0, <3>1, <3>3, HoldsWindow, Room, WindowDistinct
    <2> QED
      BY <2>2, <2>3 DEF NoSlotRace
  <1> QED
    BY Invariance, <1>1, PTL

\* len() called by the two endpoints never reports more than the capacity.
THEOREM EndpointLenBounded ==
    ASSUME "observer" \notin LenCallers
    PROVE  Spec => []LenBounded
  <1>1. IInv => LenBounded
    BY DEF IInv, Lengths, LenBounded
  <1> QED
    BY Invariance, <1>1, PTL

-----------------------------------------------------------------------------
(* The ring implements BoundedFifo.                                        *)

\* The k-th position after a cursor, without the modulus.
LEMMA AddLinear ==
    ASSUME NEW h \in Cursor, NEW k \in Cursor
    PROVE  /\ (h + k) % Wrap = IF h + k < Wrap THEN h + k ELSE h + k - Wrap
           /\ (h + k) % Wrap \in Cursor
           /\ WrappingSub((h + k) % Wrap, h) = k
  <1>1. (h + k) % Wrap = (IF h + k < Wrap THEN h + k ELSE h + k - Wrap)
    BY WrapPositive DEF Cursor
  <1>2. (h + k) % Wrap \in Cursor
    BY <1>1, WrapPositive DEF Cursor
  <1> DEFINE c == (h + k) % Wrap
  <1>3. WrappingSub(c, h) = IF c >= h THEN c - h ELSE c - h + Wrap
    BY <1>2, SubLinear
  <1> QED
    BY <1>1, <1>2, <1>3, WrapPositive DEF Cursor

\* The position of the i-th value of the queue.
Pos(i) == (head + Taken + i - 1) % Wrap

\* The queue has at most Cap values, and its i-th value sits at a position
\* that holds a value.
LEMMA QueueShape ==
    ASSUME IInv
    PROVE  /\ Pending \in 0 .. Cap /\ Taken \in 0 .. 1 /\ Pending - Taken \in 0 .. Cap
           /\ \A i \in 1 .. Pending - Taken :
                 /\ Pos(i) \in Cursor
                 /\ WrappingSub(Pos(i), head) = Taken + i - 1
                 /\ Holds(Pos(i))
                 /\ Queue[i] = slots[SlotOf(Pos(i))]
                 /\ Queue[i] \in Val
           /\ Queue \in Seq(Val)
           /\ Len(Queue) = Pending - Taken
  <1>0. head \in Cursor /\ tail \in Cursor /\ Cells
    BY DEF IInv, TypeOK
  <1>1. Pending \in 0 .. Cap /\ Taken \in 0 .. 1 /\ Pending - Taken \in 0 .. Cap
    BY Room, Something, WrapPositive DEF Pending, Taken
  <1>2. ASSUME NEW i \in 1 .. Pending - Taken
        PROVE  /\ Pos(i) \in Cursor
               /\ WrappingSub(Pos(i), head) = Taken + i - 1
               /\ Holds(Pos(i))
               /\ Queue[i] = slots[SlotOf(Pos(i))]
               /\ Queue[i] \in Val
    <2> DEFINE k == Taken + i - 1
    <2>1. k \in Cursor /\ k < Pending /\ (Taken = 1 => k # 0)
      BY <1>1, WrapPositive DEF Cursor
    <2>2. Pos(i) = (head + k) % Wrap
      <3>1. head + Taken + i - 1 = head + k
        BY <1>0, <1>1 DEF Cursor
      <3> QED
        BY <3>1 DEF Pos
    <2> HIDE DEF k
    <2>3. Pos(i) \in Cursor /\ WrappingSub(Pos(i), head) = k
      BY <1>0, <2>1, <2>2, AddLinear
    <2>4. Holds(Pos(i))
      BY <1>0, <2>1, <2>3, SubZero DEF Holds, Pending, Taken
    <2>5. Queue[i] = slots[SlotOf(Pos(i))]
      BY DEF Queue, Pos
    <2> QED
      BY <1>0, <2>3, <2>4, <2>5 DEF Cells, k
  <1>3. Queue \in [1 .. Pending - Taken -> Val]
    BY <1>2 DEF Queue
  <1>4. Pending - Taken \in Nat
    BY <1>1, WrapPositive
  <1>5. Queue \in Seq(Val) /\ Len(Queue) = Pending - Taken
    BY <1>3, <1>4
  <1> QED
    BY <1>1, <1>2, <1>5

\* The same of the state after a step.
LEMMA QueueShapeNext ==
    IInv' => (Queue \in Seq(Val))' /\ (Len(Queue) = Pending - Taken)'
  <1>1. IInv => Queue \in Seq(Val) /\ Len(Queue) = Pending - Taken
    BY QueueShape
  <1> QED
    BY <1>1, PTL

\* Steps of the ring that the queue does not see.
LEMMA QueueSame ==
    ASSUME UNCHANGED <<head, tail, slots>>, cpc' = "release" <=> cpc = "release"
    PROVE  Queue' = Queue
  BY DEF Queue, Pending, Taken

\* Writing a cell the producer claimed leaves the queue alone.
LEMMA WriteQueue ==
    ASSUME IInv, IInv', PushWrite
    PROVE  Queue' = Queue
  <1>0. /\ head \in Cursor /\ tail \in Cursor /\ slots \in [Index -> Val \cup {NoVal}]
        /\ SlotOf(tail) \in Index
        /\ WrappingSub(tail, head) < Cap
    BY SlotIndex, Room DEF IInv, TypeOK, PushWrite
  <1>1. /\ Pending' = Pending /\ Taken' = Taken
        /\ \A i \in 1 .. Pending - Taken : Pos(i)' = Pos(i)
    BY DEF PushWrite, Pending, Taken, Pos, consVars
  <1>2. ASSUME NEW i \in 1 .. Pending - Taken
        PROVE  Queue'[i] = Queue[i]
    <2>1. /\ Pos(i) \in Cursor /\ Holds(Pos(i)) /\ SlotOf(Pos(i)) \in Index
          /\ WrappingSub(Pos(i), head) = Taken + i - 1
          /\ Queue[i] = slots[SlotOf(Pos(i))]
      BY QueueShape, SlotIndex
    <2>2. Pos(i) # tail
      BY QueueShape, <2>1 DEF Pending
    <2>3. SlotOf(Pos(i)) # SlotOf(tail)
      BY <1>0, <2>1, <2>2, HoldsWindow, WindowDistinct
    <2>4. slots'[SlotOf(Pos(i))] = slots[SlotOf(Pos(i))]
      BY <1>0, <2>1, <2>3 DEF PushWrite
    <2>5. Queue'[i] = slots'[SlotOf(Pos(i)')]
      BY <1>1 DEF Queue, Pos
    <2> QED
      BY <1>1, <2>1, <2>4, <2>5
  <1>3. Queue \in Seq(Val) /\ Queue' \in Seq(Val) /\ Len(Queue') = Len(Queue)
        /\ Len(Queue) = Pending - Taken
    <2>1. Queue \in Seq(Val) /\ Len(Queue) = Pending - Taken
      BY QueueShape
    <2>2. Queue' \in Seq(Val) /\ Len(Queue') = Pending' - Taken'
      BY QueueShapeNext
    <2> QED
      BY <1>1, <2>1, <2>2
  <1> QED
    BY <1>2, <1>3, SeqEqual

\* Publishing the cell appends its value to the queue.
LEMMA PublishQueue ==
    ASSUME IInv, IInv', PushPublish
    PROVE  Queue' = Append(Queue, pval) /\ Len(Queue) < Cap /\ pval \in Val
  <1>0. /\ head \in Cursor /\ tail \in Cursor
        /\ WrappingSub(tail, head) < Cap
        /\ pval \in Val /\ slots[SlotOf(tail)] = pval
    BY Room DEF IInv, TypeOK, Windows, Cells, PushPublish
  <1>1. Pending \in 0 .. Cap /\ Taken \in 0 .. 1 /\ Pending - Taken \in 0 .. Cap
    BY QueueShape
  <1>2. Pending' = Pending + 1 /\ Taken' = Taken
    <2>1. WrappingSub(tail, head) < Wrap - 1
      BY <1>0, <1>1, WrapPositive DEF Pending
    <2> QED
      BY <1>0, <2>1, IncUpper DEF PushPublish, Pending, Taken, consVars
  <1> DEFINE n == Pending - Taken
  <1>3. /\ Queue \in Seq(Val) /\ Len(Queue) = n /\ n \in 0 .. Cap /\ n < Cap
    BY <1>0, <1>1, QueueShape, WrapPositive DEF Pending
  <1>4. Queue' \in Seq(Val) /\ Len(Queue') = n + 1
    <2>1. Queue' \in Seq(Val) /\ Len(Queue') = Pending' - Taken'
      BY QueueShapeNext
    <2> QED
      BY <1>1, <1>2, <2>1
  <1>5. \A i \in 1 .. n : Queue'[i] = Queue[i]
    BY <1>1, <1>2 DEF Queue, PushPublish, Taken, consVars
  <1>6. Queue'[n + 1] = pval
    <2>1. Queue'[n + 1] = slots[SlotOf((head + Taken + (n + 1) - 1) % Wrap)]
      BY <1>1, <1>2 DEF Queue, PushPublish, Taken, consVars
    <2>2. head + Taken + (n + 1) - 1 = head + Pending
      BY <1>0, <1>1 DEF Cursor
    <2>3. Pending \in Cursor
      BY <1>0, SubLinear DEF Pending
    <2>4. (head + Pending) % Wrap = IF head + Pending < Wrap THEN head + Pending
                                    ELSE head + Pending - Wrap
      BY <1>0, <2>3, AddLinear
    <2>5. Pending = IF tail >= head THEN tail - head ELSE tail - head + Wrap
      BY <1>0, SubLinear DEF Pending
    <2>6. (head + Pending) % Wrap = tail
      BY <1>0, <2>4, <2>5, WrapPositive DEF Cursor
    <2> QED
      BY <1>0, <2>1, <2>2, <2>6
  <1> HIDE DEF n
  <1>7. /\ Append(Queue, pval) \in Seq(Val)
        /\ Len(Append(Queue, pval)) = n + 1
        /\ \A i \in 1 .. n : Append(Queue, pval)[i] = Queue[i]
        /\ Append(Queue, pval)[n + 1] = pval
    BY <1>0, <1>3
  <1>8. \A i \in 1 .. n + 1 : Queue'[i] = Append(Queue, pval)[i]
    BY <1>3, <1>5, <1>6, <1>7
  <1> QED
    BY <1>0, <1>3, <1>4, <1>7, <1>8, SeqEqual

\* Moving the value out of the cell at head takes the oldest value.
LEMMA ReadQueue ==
    ASSUME IInv, IInv', PopRead
    PROVE  Queue # << >> /\ cval' = Head(Queue) /\ Queue' = Tail(Queue)
  <1>0. /\ head \in Cursor /\ tail \in Cursor /\ slots \in [Index -> Val \cup {NoVal}]
        /\ SlotOf(head) \in Index
        /\ WrappingSub(tail, head) > 0 /\ WrappingSub(head, head) = 0
        /\ Taken = 0 /\ Taken' = 1 /\ Pending' = Pending /\ head' = head
        /\ head + 0 = head
    BY SlotIndex, Something, SubZero DEF IInv, TypeOK, PopRead, Taken, Pending, Cursor
  <1>1. /\ Pending \in 0 .. Cap /\ Pending > 0
        /\ Queue \in Seq(Val) /\ Len(Queue) = Pending
    BY <1>0, QueueShape DEF Pending
  <1>2. Queue # << >>
    BY <1>1
  <1>3. Queue' \in Seq(Val) /\ Len(Queue') = Pending - 1
    <2>1. Queue' \in Seq(Val) /\ Len(Queue') = Pending' - Taken'
      BY QueueShapeNext
    <2> QED
      BY <1>0, <2>1
  <1>4. cval' = Queue[1]
    <2>1. 1 \in 1 .. Pending - Taken
      BY <1>0, <1>1, WrapPositive
    <2>2. Queue[1] = slots[SlotOf(Pos(1))] /\ Pos(1) \in Cursor
          /\ WrappingSub(Pos(1), head) = 0
      BY <1>0, <2>1, QueueShape
    <2>3. Pos(1) = head
      BY <1>0, <2>2, SubZero
    <2> QED
      BY <2>2, <2>3 DEF PopRead
  <1>5. ASSUME NEW i \in 1 .. Pending - 1
        PROVE  Queue'[i] = Queue[i + 1]
    <2>1. i + 1 \in 1 .. Pending - Taken /\ Taken + (i + 1) - 1 = i
      BY <1>0, <1>1
    <2>2. /\ Pos(i + 1) \in Cursor /\ Holds(Pos(i + 1)) /\ SlotOf(Pos(i + 1)) \in Index
          /\ WrappingSub(Pos(i + 1), head) = i
          /\ Queue[i + 1] = slots[SlotOf(Pos(i + 1))]
      BY <2>1, QueueShape, SlotIndex
    <2>3. SlotOf(Pos(i + 1)) # SlotOf(head)
      BY <1>0, <2>2, HoldsWindow, WindowDistinct, WrapPositive
    <2>4. slots'[SlotOf(Pos(i + 1))] = slots[SlotOf(Pos(i + 1))]
      BY <1>0, <2>2, <2>3 DEF PopRead
    <2>5. Queue'[i] = slots'[SlotOf((head' + Taken' + i - 1) % Wrap)]
      BY <1>0, <1>1 DEF Queue
    <2>6. head' + Taken' + i - 1 = head + Taken + (i + 1) - 1
      BY <1>0 DEF Cursor
    <2>7. Queue'[i] = slots'[SlotOf(Pos(i + 1))]
      BY <2>5, <2>6 DEF Pos
    <2> QED
      BY <2>2, <2>4, <2>7
  <1>6. /\ Tail(Queue) \in Seq(Val) /\ Len(Tail(Queue)) = Pending - 1
        /\ \A i \in 1 .. Pending - 1 : Tail(Queue)[i] = Queue[i + 1]
    BY <1>1, <1>2, HeadTailProperties
  <1>7. Queue' = Tail(Queue)
    BY <1>3, <1>5, <1>6, SeqEqual
  <1>8. Head(Queue) = Queue[1]
    BY <1>1, <1>2
  <1> QED
    BY <1>2, <1>4, <1>7, <1>8

\* Releasing the cell hands over nothing more.
LEMMA ReleaseQueue ==
    ASSUME IInv, IInv', PopRelease
    PROVE  Queue' = Queue
  <1>0. /\ head \in Cursor /\ tail \in Cursor /\ head' \in Cursor
        /\ Taken = 1 /\ Taken' = 0 /\ head # tail
        /\ head' = IF head = Wrap - 1 THEN 0 ELSE head + 1
        /\ Pending' = Pending - 1
    BY Something, IncLinear, IncLower DEF IInv, TypeOK, PopRelease, Taken, Pending
  <1>1. Pending \in 0 .. Cap /\ Queue \in Seq(Val) /\ Len(Queue) = Pending - 1
        /\ Pending - 1 \in 0 .. Cap
    BY <1>0, QueueShape
  <1>2. Queue' \in Seq(Val) /\ Len(Queue') = Pending - 1
    <2>1. Queue' \in Seq(Val) /\ Len(Queue') = Pending' - Taken'
      BY QueueShapeNext
    <2> QED
      BY <1>0, <1>1, <2>1
  <1>3. ASSUME NEW i \in 1 .. Pending - 1
        PROVE  Queue'[i] = Queue[i]
    <2>1. i \in Cursor /\ i - 1 \in Cursor
      BY <1>1, WrapPositive DEF Cursor
    <2>2. (head' + (i - 1)) % Wrap =
             IF head' + (i - 1) < Wrap THEN head' + (i - 1) ELSE head' + (i - 1) - Wrap
      BY <1>0, <2>1, AddLinear
    <2>3. (head + i) % Wrap = IF head + i < Wrap THEN head + i ELSE head + i - Wrap
      BY <1>0, <2>1, AddLinear
    <2>4. (head' + (i - 1)) % Wrap = (head + i) % Wrap
      BY <1>0, <1>1, <2>1, <2>2, <2>3, WrapPositive DEF Cursor
    <2>5. head' + Taken' + i - 1 = head' + (i - 1) /\ head + Taken + i - 1 = head + i
      BY <1>0, <2>1 DEF Cursor
    <2>6. Queue'[i] = slots[SlotOf((head' + Taken' + i - 1) % Wrap)]
      BY <1>0, <1>1 DEF Queue, PopRelease
    <2>7. Queue[i] = slots[SlotOf((head + Taken + i - 1) % Wrap)]
      BY <1>0, <1>1 DEF Queue
    <2> QED
      BY <2>4, <2>5, <2>6, <2>7
  <1> QED
    BY <1>1, <1>2, <1>3, SeqEqual

\* The ring is a bounded first-in first-out queue, for every capacity, cursor
\* width and value set, with the two endpoints interleaved at their atomic
\* loads and stores: every step of the ring is a step of BoundedFifo or leaves
\* its state unchanged.
THEOREM ImplementsFifo == Spec => IsFifo
  <1>1. Init => Fifo!Init
    <2> SUFFICES ASSUME Init
                 PROVE  Fifo!Init
      OBVIOUS
    <2>1. Pending - Taken = 0
      BY InitIInv, SubZero DEF Init, Pending, Taken, IInv, TypeOK
    <2>2. Queue = << >>
      <3>1. IInv
        BY InitIInv
      <3> QED
        BY <2>1, <3>1, QueueShape, EmptySeq
    <2> QED
      BY <2>2 DEF Init, Fifo!Init
  <1>2. IInv /\ IInv' /\ [Next]_vars => [Fifo!Next]_(Fifo!fifoVars)
    <2> SUFFICES ASSUME IInv, IInv', [Next]_vars
                 PROVE  [Fifo!Next]_(Fifo!fifoVars)
      OBVIOUS
    <2>s. ASSUME Queue' = Queue, UNCHANGED <<cval, live>>
          PROVE  [Fifo!Next]_(Fifo!fifoVars)
      BY <2>s DEF Fifo!fifoVars
    <2>1. CASE PushRefused
      BY <2>1, <2>s, QueueSame DEF PushRefused, consVars
    <2>2. ASSUME NEW v \in Val, PushClaim(v)
          PROVE  [Fifo!Next]_(Fifo!fifoVars)
      BY <2>2, <2>s, QueueSame DEF PushClaim, consVars
    <2>3. CASE PushWrite
      BY <2>3, <2>s, WriteQueue DEF PushWrite, consVars
    <2>4. CASE PushPublish
      <3>1. live /\ UNCHANGED <<cval, live>>
        BY <2>4 DEF PushPublish, IInv, Windows, consVars
      <3>2. pval \in Val /\ Queue' = Append(Queue, pval) /\ Len(Queue) < Cap
        BY <2>4, PublishQueue
      <3> QED
        BY <3>1, <3>2 DEF Fifo!Next, Fifo!Push
    <2>5. CASE PopNone
      BY <2>5, <2>s, QueueSame DEF PopNone
    <2>6. CASE PopClaim
      BY <2>6, <2>s, QueueSame DEF PopClaim
    <2>7. CASE PopRead
      <3>1. live /\ UNCHANGED live
        BY <2>7 DEF PopRead, IInv, Windows
      <3> QED
        BY <2>7, <3>1, ReadQueue DEF Fifo!Next, Fifo!Pop
    <2>8. CASE PopRelease
      BY <2>8, <2>s, ReleaseQueue DEF PopRelease
    <2>9. ASSUME NEW c \in LenCallers, LenLoadTail(c)
          PROVE  [Fifo!Next]_(Fifo!fifoVars)
      BY <2>9, <2>s, QueueSame DEF LenLoadTail
    <2>10. ASSUME NEW c \in LenCallers, LenLoadHead(c)
           PROVE  [Fifo!Next]_(Fifo!fifoVars)
      BY <2>10, <2>s, QueueSame DEF LenLoadHead, consVars
    <2>11. CASE DropRing
      <3>1. Queue' \in Seq(Val) /\ Len(Queue') = Pending' - Taken'
        BY QueueShapeNext
      <3>2. Pending' = 0 /\ Taken' = 0
        <4>1. tail \in Cursor
          BY DEF IInv, TypeOK
        <4> QED
          BY <2>11, <4>1, SubZero DEF DropRing, Pending, Taken
      <3>3. Queue' = << >>
        BY <3>1, <3>2, EmptySeq
      <3> QED
        BY <2>11, <3>3 DEF DropRing, Fifo!Next, Fifo!Drop
    <2>12. CASE UNCHANGED vars
      BY <2>12, <2>s, QueueSame DEF vars, consVars
    <2> QED
      BY <2>1, <2>2, <2>3, <2>4, <2>5, <2>6, <2>7, <2>8, <2>9, <2>10, <2>11, <2>12
         DEF Next, Producer, Consumer, Observe
  <1> QED
    BY <1>1, <1>2, Invariance, PTL DEF Spec, IsFifo, Fifo!Spec
=============================================================================
