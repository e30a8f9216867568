----------------------------- MODULE UnitProofs -----------------------------
(***************************************************************************)
(* Proofs about the parts of a unit that run beside each other: the mode   *)
(* machine (for one mutator, as in the program, and types for any), a      *)
(* domain session, the neighbor table, the bandwidth estimator, the        *)
(* io_uring transmit queue and the flight recorder.                        *)
(***************************************************************************)
EXTENDS ModeMachine, DomainSession, NeighborTable, Backpressure, UringTx, FlightRecorder,
        SequenceTheorems, FiniteSetTheorems, WellFoundedInduction, TLAPS

-----------------------------------------------------------------------------
(* The mode machine: the inductive invariant.                              *)

\* No store came between a mutator's check of the table and its own store, or
\* between its store and the push of its record.
Undisturbed ==
    \A t \in Mutators :
       /\ pc[t] = "store" => from[t] = mode /\ Allows(mode, to[t])
       /\ pc[t] = "push" => to[t] = mode

\* The mode the records account for: a mutator about to push has changed the
\* mode already.
Recorded ==
    IF \E t \in Mutators : pc[t] = "push"
    THEN from[CHOOSE t \in Mutators : pc[t] = "push"]
    ELSE mode

\* Commits whose record is still in the hands of a mutator.
InHand == IF \E t \in Mutators : pc[t] = "push" THEN 1 ELSE 0

\* The records form a chain from Auto to the mode they account for.
Chain ==
    /\ Len(Log) + dropped + InHand = commits
    /\ dropped = 0 =>
          /\ \A i \in 1 .. Len(Log) :
                Log[i].from = IF i = 1 THEN "Auto" ELSE Log[i - 1].to
          /\ Recorded = IF Log = << >> THEN "Auto" ELSE Log[Len(Log)].to

-----------------------------------------------------------------------------
(* Types, for any set of mutators.                                         *)

\* A new machine is well typed.
LEMMA TypeInit == Init => TypeOK
  BY ModeAssumption, EmptySeq DEF Init, TypeOK, Mode

\* Every step of a call and every drain keeps the types.
LEMMA TypeStep == TypeOK /\ [Next]_vars => TypeOK'
  <1> SUFFICES ASSUME TypeOK, [Next]_vars
               PROVE  TypeOK'
    OBVIOUS
  <1> USE DEF TypeOK
  <1>1. ASSUME NEW t \in Mutators, NEW m \in Mode, Begin(t, m)
        PROVE  TypeOK'
    BY <1>1 DEF Begin
  <1>2. ASSUME NEW t \in Mutators, CommitStore(t)
        PROVE  TypeOK'
    BY <1>2 DEF CommitStore
  <1>3. ASSUME NEW t \in Mutators, CommitPush(t)
        PROVE  TypeOK'
    <2>1. [from |-> from[t], to |-> to[t]] \in Transition
      BY DEF Transition
    <2>2. CASE Len(events) < EventCap
      <3>1. events' = Append(events, [from |-> from[t], to |-> to[t]]) /\ dropped' = dropped
        BY <1>3, <2>2, ModeAssumption, LenProperties DEF CommitPush
      <3>2. events' \in Seq(Transition) /\ Len(events') = Len(events) + 1
        BY <2>1, <3>1
      <3> QED
        BY <1>3, <2>2, <3>1, <3>2, ModeAssumption, LenProperties DEF CommitPush
    <2>3. CASE ~(Len(events) < EventCap)
      BY <1>3, <2>3 DEF CommitPush
    <2> QED
      BY <2>2, <2>3
  <1>4. CASE TakeTransition
    <2>1. /\ Head(events) \in Transition /\ Tail(events) \in Seq(Transition)
          /\ Len(Tail(events)) = Len(events) - 1
      BY <1>4, HeadTailProperties DEF TakeTransition
    <2>2. Append(seen, Head(events)) \in Seq(Transition)
      BY <2>1
    <2> QED
      BY <1>4, <2>1, <2>2, ModeAssumption, LenProperties DEF TakeTransition
  <1>5. CASE UNCHANGED vars
    BY <1>5 DEF vars
  <1> QED
    BY <1>1, <1>2, <1>3, <1>4, <1>5
       DEF Next, Call, TryTransition, ForceEmergencyStop, Mode

\* The mode and the records keep their types, whoever calls.
THEOREM TypeCorrect == Spec => []TypeOK
  BY TypeInit, TypeStep, PTL DEF Spec

-----------------------------------------------------------------------------
(* One mutator.                                                            *)

\* With one mutator, no store comes between its steps.
LEMMA UndisturbedStep ==
    ASSUME SingleMutator
    PROVE  TypeOK /\ Undisturbed /\ [Next]_vars => Undisturbed'
  <1> SUFFICES ASSUME TypeOK, Undisturbed, [Next]_vars
               PROVE  Undisturbed'
    OBVIOUS
  <1> USE DEF TypeOK, Undisturbed, SingleMutator
  <1>1. ASSUME NEW t \in Mutators, NEW m \in Mode, Allows(mode, m), Begin(t, m)
        PROVE  Undisturbed'
    BY <1>1 DEF Begin
  <1>2. ASSUME NEW t \in Mutators, CommitStore(t)
        PROVE  Undisturbed'
    BY <1>2 DEF CommitStore
  <1>3. ASSUME NEW t \in Mutators, CommitPush(t)
        PROVE  Undisturbed'
    BY <1>3 DEF CommitPush
  <1>4. CASE TakeTransition
    BY <1>4 DEF TakeTransition
  <1>5. CASE UNCHANGED vars
    BY <1>5 DEF vars
  <1>6. Allows(mode, "EmergencyStop") /\ "EmergencyStop" \in Mode
    BY DEF Allows, Mode
  <1> QED
    BY <1>1, <1>2, <1>3, <1>4, <1>5, <1>6
       DEF Next, Call, TryTransition, ForceEmergencyStop

\* A record pushed is the last of the log.
LEMMA ConcatAppend ==
    ASSUME NEW S, NEW a \in Seq(S), NEW b \in Seq(S), NEW x \in S
    PROVE  a \o Append(b, x) = Append(a \o b, x)
  <1>1. /\ Append(b, x) \in Seq(S) /\ a \o b \in Seq(S)
        /\ Len(a) \in Nat /\ Len(b) \in Nat
        /\ Len(a \o b) = Len(a) + Len(b)
        /\ Len(Append(b, x)) = Len(b) + 1
    BY ConcatProperties
  <1>2. /\ a \o Append(b, x) \in Seq(S) /\ Append(a \o b, x) \in Seq(S)
        /\ Len(a \o Append(b, x)) = Len(a) + Len(b) + 1
        /\ Len(Append(a \o b, x)) = Len(a) + Len(b) + 1
    BY <1>1, ConcatProperties
  <1>3. ASSUME NEW i \in 1 .. Len(a) + Len(b) + 1
        PROVE  (a \o Append(b, x))[i] = Append(a \o b, x)[i]
    BY <1>1, ConcatProperties
  <1> QED
    BY <1>2, <1>3, SeqEqual

\* Draining moves the oldest pending record to the end of the drained ones:
\* the log stays the same.
LEMMA ConcatDrain ==
    ASSUME NEW S, NEW a \in Seq(S), NEW b \in Seq(S), b # << >>
    PROVE  Append(a, Head(b)) \o Tail(b) = a \o b
  <1>1. /\ Head(b) \in S /\ Tail(b) \in Seq(S) /\ Len(Tail(b)) = Len(b) - 1
        /\ \A i \in 1 .. Len(b) - 1 : Tail(b)[i] = b[i + 1]
        /\ Head(b) = b[1]
        /\ Len(a) \in Nat /\ Len(b) \in Nat \ {0}
    BY HeadTailProperties, EmptySeq
  <1>2. /\ Append(a, Head(b)) \in Seq(S) /\ Len(Append(a, Head(b))) = Len(a) + 1
        /\ \A i \in 1 .. Len(a) : Append(a, Head(b))[i] = a[i]
        /\ Append(a, Head(b))[Len(a) + 1] = b[1]
    BY <1>1
  <1> DEFINE l == Append(a, Head(b)) \o Tail(b)
  <1>3. /\ l \in Seq(S) /\ Len(l) = Len(a) + Len(b)
        /\ \A i \in 1 .. Len(a) + Len(b) :
              l[i] = IF i <= Len(a) + 1 THEN Append(a, Head(b))[i]
                     ELSE Tail(b)[i - (Len(a) + 1)]
    <2>1. Len(Append(a, Head(b))) + Len(Tail(b)) = Len(a) + Len(b)
      BY <1>1, <1>2
    <2> QED
      BY <1>1, <1>2, <2>1, ConcatProperties
  <1>4. /\ a \o b \in Seq(S) /\ Len(a \o b) = Len(a) + Len(b)
        /\ \A i \in 1 .. Len(a) + Len(b) :
              (a \o b)[i] = IF i <= Len(a) THEN a[i] ELSE b[i - Len(a)]
    BY ConcatProperties
  <1> HIDE DEF l
  <1>5. ASSUME NEW i \in 1 .. Len(a) + Len(b)
        PROVE  l[i] = (a \o b)[i]
    <2>1. CASE i <= Len(a)
      <3>1. l[i] = Append(a, Head(b))[i] /\ (a \o b)[i] = a[i] /\ i \in 1 .. Len(a)
        BY <1>1, <1>3, <1>4, <2>1
      <3> QED
        BY <1>2, <3>1
    <2>2. CASE i = Len(a) + 1
      <3>1. l[i] = Append(a, Head(b))[Len(a) + 1] /\ (a \o b)[i] = b[1]
        BY <1>1, <1>3, <1>4, <2>2
      <3> QED
        BY <1>2, <3>1
    <2>3. CASE i > Len(a) + 1
      <3>1. /\ l[i] = Tail(b)[i - (Len(a) + 1)] /\ (a \o b)[i] = b[i - Len(a)]
            /\ i - (Len(a) + 1) \in 1 .. Len(b) - 1
            /\ (i - (Len(a) + 1)) + 1 = i - Len(a)
        BY <1>1, <1>3, <1>4, <2>3
      <3> QED
        BY <1>1, <3>1
    <2> QED
      BY <1>1, <2>1, <2>2, <2>3
  <1>6. l = a \o b
    BY <1>3, <1>4, <1>5, SeqEqual
  <1> QED
    BY <1>6 DEF l

\* The accounting definitions with the one mutator named.
LEMMA NamedMutator ==
    ASSUME SingleMutator, NEW t \in Mutators
    PROVE  /\ Recorded = IF pc[t] = "push" THEN from[t] ELSE mode
           /\ InHand = IF pc[t] = "push" THEN 1 ELSE 0
  <1>1. (\E u \in Mutators : pc[u] = "push") <=> pc[t] = "push"
    BY DEF SingleMutator
  <1>2. pc[t] = "push" => (CHOOSE u \in Mutators : pc[u] = "push") = t
    BY DEF SingleMutator
  <1> QED
    BY <1>1, <1>2 DEF Recorded, InHand

\* Every step of the one mutator and of the consumer keeps the chain.
LEMMA ChainStep ==
    ASSUME SingleMutator
    PROVE  TypeOK /\ Undisturbed /\ Chain /\ [Next]_vars => Chain'
  <1> SUFFICES ASSUME TypeOK, Undisturbed, Chain, [Next]_vars
               PROVE  Chain'
    OBVIOUS
  <1>0. /\ seen \in Seq(Transition) /\ events \in Seq(Transition)
        /\ Log \in Seq(Transition) /\ Len(Log) \in Nat
        /\ dropped \in Nat /\ commits \in Nat
        /\ \A i \in 1 .. Len(Log) : Log[i] \in Transition
    BY ConcatProperties, LenProperties, ElementOfSeq DEF TypeOK, Log
  <1>n. ASSUME NEW t \in Mutators
        PROVE  /\ Recorded' = IF pc'[t] = "push" THEN from'[t] ELSE mode'
               /\ InHand' = IF pc'[t] = "push" THEN 1 ELSE 0
    <2>1. (\E u \in Mutators : pc'[u] = "push") <=> pc'[t] = "push"
      BY DEF SingleMutator
    <2>2. pc'[t] = "push" => (CHOOSE u \in Mutators : pc'[u] = "push") = t
      BY DEF SingleMutator
    <2> QED
      BY <2>1, <2>2 DEF Recorded, InHand
  \* Steps that leave the log and the mode it accounts for alone.
  <1>s. ASSUME Log' = Log, dropped' = dropped, Recorded' = Recorded,
               commits' = commits + (InHand' - InHand)
        PROVE  Chain'
    <2>1. InHand \in Int /\ InHand' \in Int /\ Len(Log) + dropped + InHand = commits
      BY DEF InHand, Chain
    <2>2. Len(Log) + dropped + InHand' = commits + (InHand' - InHand)
      BY <1>0, <2>1
    <2> QED
      BY <1>s, <2>2 DEF Chain
  <1>1. ASSUME NEW t \in Mutators, NEW m \in Mode, Begin(t, m)
        PROVE  Chain'
    <2>1. /\ pc[t] = "idle" /\ pc'[t] = "store"
          /\ UNCHANGED <<mode, events, seen, dropped, commits>>
      BY <1>1 DEF Begin, TypeOK
    <2>2. Recorded = mode /\ Recorded' = mode /\ InHand = 0 /\ InHand' = 0
      BY <1>n, <2>1, NamedMutator
    <2> QED
      BY <1>0, <1>s, <2>1, <2>2 DEF Log
  <1>2. ASSUME NEW t \in Mutators, CommitStore(t)
        PROVE  Chain'
    <2>1. /\ pc[t] = "store" /\ pc'[t] = "push" /\ from'[t] = mode
          /\ UNCHANGED <<events, seen, dropped>> /\ commits' = commits + 1
      BY <1>2 DEF CommitStore, TypeOK, Undisturbed
    <2>2. Recorded = mode /\ Recorded' = mode /\ InHand = 0 /\ InHand' = 1
      BY <1>n, <2>1, NamedMutator
    <2> QED
      BY <1>0, <1>s, <2>1, <2>2 DEF Log
  <1>3. ASSUME NEW t \in Mutators, CommitPush(t)
        PROVE  Chain'
    <2> DEFINE r == [from |-> from[t], to |-> to[t]]
    <2>1. /\ pc[t] = "push" /\ pc'[t] = "idle" /\ to[t] = mode
          /\ UNCHANGED <<mode, seen, commits>>
          /\ r \in Transition /\ r.from = from[t] /\ r.to = mode
      BY <1>3 DEF CommitPush, TypeOK, Undisturbed, Transition
    <2>2. Recorded = from[t] /\ Recorded' = mode /\ InHand = 1 /\ InHand' = 0
      BY <1>n, <2>1, NamedMutator
    <2> HIDE DEF r
    <2>3. CASE events' = Append(events, r) /\ dropped' = dropped
      <3>1. Log' = Append(Log, r)
        BY <1>0, <2>1, <2>3, ConcatAppend DEF Log
      <3> DEFINE n == Len(Log)
                 A == Append(Log, r)
      <3>2. /\ A \in Seq(Transition) /\ Len(A) = n + 1 /\ n \in Nat
            /\ \A i \in 1 .. n : A[i] = Log[i]
            /\ A[n + 1] = r
            /\ A # << >>
        BY <1>0, <2>1
      <3>3. Len(Log') + dropped' + InHand' = commits'
        BY <1>0, <2>1, <2>2, <2>3, <3>1, <3>2 DEF Chain
      <3>4. ASSUME dropped' = 0
            PROVE  /\ \A i \in 1 .. n + 1 :
                         A[i].from = IF i = 1 THEN "Auto" ELSE A[i - 1].to
                   /\ A[n + 1].to = mode
        <4>1. /\ \A i \in 1 .. n : Log[i].from = IF i = 1 THEN "Auto" ELSE Log[i - 1].to
              /\ from[t] = IF Log = << >> THEN "Auto" ELSE Log[n].to
          BY <2>2, <2>3, <3>4 DEF Chain
        <4>2. Log = << >> <=> n = 0
          BY <1>0, EmptySeq
        <4> HIDE DEF n, A
        <4>3. ASSUME NEW i \in 1 .. n
              PROVE  A[i].from = IF i = 1 THEN "Auto" ELSE A[i - 1].to
          <5>1. i # 1 => i - 1 \in 1 .. n
            BY <3>2
          <5> QED
            BY <3>2, <4>1, <5>1
        <4>4. A[n + 1].from = IF n + 1 = 1 THEN "Auto" ELSE A[(n + 1) - 1].to
          <5>1. n # 0 => n \in 1 .. n /\ (n + 1) - 1 = n
            BY <3>2
          <5>2. A[n + 1].from = from[t]
            BY <2>1, <3>2
          <5> QED
            BY <3>2, <4>1, <4>2, <5>1, <5>2
        <4>5. A[n + 1].to = mode
          BY <2>1, <3>2
        <4> QED
          BY <3>2, <4>3, <4>4, <4>5
      <3>5. Len(Log') = n + 1 /\ Log' = A /\ Log' # << >>
        BY <3>1, <3>2
      <3> HIDE DEF n, A
      <3> QED
        BY <2>2, <3>3, <3>4, <3>5 DEF Chain
    <2>4. CASE events' = events /\ dropped' = dropped + 1
      <3>1. Log' = Log
        BY <2>1, <2>4 DEF Log
      <3> QED
        BY <1>0, <2>1, <2>2, <2>4, <3>1 DEF Chain
    <2> QED
      BY <1>3, <2>3, <2>4 DEF CommitPush, r
  <1>4. CASE TakeTransition
    <2>1. Log' = Log
      BY <1>0, <1>4, ConcatDrain DEF TakeTransition, Log
    <2>2. Recorded' = Recorded /\ InHand' = InHand
      BY <1>4 DEF TakeTransition, Recorded, InHand
    <2>3. commits' = commits + (InHand' - InHand) /\ dropped' = dropped
      <3>1. InHand \in Int /\ commits' = commits /\ dropped' = dropped
        BY <1>4 DEF TakeTransition, InHand
      <3> QED
        BY <1>0, <2>2, <3>1
    <2> QED
      BY <1>s, <2>1, <2>2, <2>3
  <1>5. CASE UNCHANGED vars
    BY <1>0, <1>5, <1>s DEF vars, Log, Recorded, InHand
  <1> QED
    BY <1>1, <1>2, <1>3, <1>4, <1>5
       DEF Next, Call, TryTransition, ForceEmergencyStop, Mode

\* With one mutator the drained and pending records replay the mode, whatever
\* the interleaving of the mutator's steps with the consumer's drain, and no
\* commit goes unrecorded except at a full ring.
THEOREM LogReplays ==
    ASSUME SingleMutator
    PROVE  Spec => []LogReplaysMode
  <1>1. Init => Undisturbed /\ Chain
    <2> SUFFICES ASSUME Init
                 PROVE  Undisturbed /\ Chain
      OBVIOUS
    <2>1. Log = << >> /\ Len(Log) = 0
      BY EmptySeq, ConcatEmptySeq DEF Init, Log
    <2> QED
      BY <2>1 DEF Init, Undisturbed, Chain, Recorded, InHand
  <1>2. TypeOK /\ Chain => LogReplaysMode
    <2> SUFFICES ASSUME TypeOK, Chain, \A t \in Mutators : pc[t] = "idle"
                 PROVE  LogReplaysMode
      BY DEF LogReplaysMode
    <2>1. InHand = 0 /\ Recorded = mode
      BY DEF InHand, Recorded
    <2>2. Len(Log) \in Nat /\ dropped \in Nat
      BY ConcatProperties, LenProperties DEF TypeOK, Log
    <2>3. Len(Log) + dropped = commits
      BY <2>1, <2>2 DEF Chain
    <2> QED
      BY <2>1, <2>3 DEF Chain, LogReplaysMode
  <1> QED
    BY <1>1, <1>2, TypeInit, TypeStep, UndisturbedStep, ChainStep, PTL DEF Spec

-----------------------------------------------------------------------------
(* The domain session.                                                     *)

\* MotionHeld is inductive together with the types: each hook is followed, in
\* the same call, by the assignment that keeps session and adapter in step.
SessionInv == SessionTypeOK /\ MotionHeld

\* A new session has no operator.
LEMMA SessionInvInit == SessionInit => SessionInv
  BY DEF SessionInit, SessionInv, SessionTypeOK, MotionHeld, HandoverState

\* Every call of the session keeps the two views in step.
LEMMA SessionInvNext == SessionInv /\ [SessionNext]_sessionVars => SessionInv'
<1> SUFFICES ASSUME SessionInv, [SessionNext]_sessionVars PROVE SessionInv'
  OBVIOUS
<1> USE SessionAssumption DEF SessionInv, SessionTypeOK, MotionHeld, HandoverState
<1>1. CASE RequestAssistance BY <1>1 DEF RequestAssistance, Check
<1>2. CASE CancelRequest BY <1>2 DEF CancelRequest, Check
<1>3. CASE Disengage BY <1>3 DEF Disengage, Check, sessionVars
<1>4. CASE CompleteHandover BY <1>4 DEF CompleteHandover, Check
<1>5. CASE EmergencyStop BY <1>5 DEF EmergencyStop
<1>6. CASE AcknowledgeEmergencyStop BY <1>6 DEF AcknowledgeEmergencyStop, Check
<1>7. CASE \E op \in Operator : Engage(op) BY <1>7 DEF Engage, Check
<1>8. ASSUME NEW m \in Mode, Command(m) PROVE SessionInv'
  <2>1. CASE m = "EmergencyStop" BY <1>8, <2>1 DEF Command, EmergencyStop
  <2>2. CASE m # "EmergencyStop" BY <1>8, <2>2 DEF Command
  <2> QED BY <2>1, <2>2
<1>9. CASE UNCHANGED sessionVars BY <1>9 DEF sessionVars
<1> QED BY <1>1, <1>2, <1>3, <1>4, <1>5, <1>6, <1>7, <1>8, <1>9 DEF SessionNext

\* In every behaviour of a session, with an adapter and a link that refuse
\* whenever they like, the unit moves only for the operator both sides name.
THEOREM SessionHolds == SessionSpec => []MotionHeld
<1>1. SessionSpec => []SessionInv
  BY SessionInvInit, SessionInvNext, PTL DEF SessionSpec
<1>2. SessionInv => MotionHeld
  BY DEF SessionInv
<1> QED BY <1>1, <1>2, PTL

-----------------------------------------------------------------------------
(* Sequences without repetition.                                           *)

\* What a sequence holds, and that it holds nothing twice.
Values(q) == {q[i] : i \in 1 .. Len(q)}

\* Each value is in the sequence once, and there are as many as it is long.
Once(q) ==
    /\ \A i, j \in 1 .. Len(q) : q[i] = q[j] => i = j
    /\ IsFiniteSet(Values(q)) /\ Cardinality(Values(q)) = Len(q)

\* Appending a value, and taking the head, in these terms.
LEMMA ValuesAppend ==
  ASSUME NEW S, NEW q \in Seq(S), NEW x
  PROVE  Values(Append(q, x)) = Values(q) \cup {x}
<1>1. /\ Len(Append(q, x)) = Len(q) + 1 /\ Append(q, x)[Len(q) + 1] = x
      /\ \A i \in 1 .. Len(q) : Append(q, x)[i] = q[i] /\ Len(q) \in Nat
  OBVIOUS
<1>2. Len(q) \in Nat
  OBVIOUS
<1>3. \A y \in Values(Append(q, x)) : y \in Values(q) \cup {x}
  BY <1>1, <1>2 DEF Values
<1>4. \A y \in Values(q) \cup {x} : y \in Values(Append(q, x))
  BY <1>1, <1>2 DEF Values
<1> QED BY <1>3, <1>4

\* A value that is not there yet may be appended.
LEMMA OnceAppend ==
  ASSUME NEW S, NEW q \in Seq(S), NEW x \in S, Once(q), x \notin Values(q)
  PROVE  Once(Append(q, x))
<1>1. /\ Len(Append(q, x)) = Len(q) + 1 /\ Append(q, x)[Len(q) + 1] = x
      /\ \A i \in 1 .. Len(q) : Append(q, x)[i] = q[i]
      /\ Len(q) \in Nat
  OBVIOUS
<1>2. Values(Append(q, x)) = Values(q) \cup {x}
  BY ValuesAppend
<1>3. IsFiniteSet(Values(q) \cup {x}) /\ Cardinality(Values(q) \cup {x}) = Len(q) + 1
  BY FS_AddElement DEF Once
<1>4. \A i \in 1 .. Len(q) : q[i] # x
  BY DEF Values
<1> QED BY <1>1, <1>2, <1>3, <1>4 DEF Once

\* Taking the head leaves the others, once.
LEMMA OnceTail ==
  ASSUME NEW S, NEW q \in Seq(S), q # << >>, Once(q)
  PROVE  /\ Once(Tail(q)) /\ Tail(q) \in Seq(S) /\ Head(q) \in S
         /\ Values(Tail(q)) = Values(q) \ {Head(q)} /\ Head(q) \in Values(q)
<1>1. /\ Len(q) \in Nat /\ Len(q) >= 1 /\ Len(Tail(q)) = Len(q) - 1 /\ Head(q) = q[1]
      /\ \A i \in 1 .. Len(q) - 1 : Tail(q)[i] = q[i + 1]
      /\ Tail(q) \in Seq(S) /\ Head(q) \in S
  OBVIOUS
<1>2. Values(Tail(q)) = Values(q) \ {Head(q)}
  <2>1. ASSUME NEW y \in Values(Tail(q))
        PROVE  y \in Values(q) \ {Head(q)}
    <3>1. PICK i \in 1 .. Len(q) - 1 : y = q[i + 1]
      BY <1>1 DEF Values
    <3>2. i + 1 \in 1 .. Len(q) /\ i + 1 # 1 /\ 1 \in 1 .. Len(q)
      BY <1>1
    <3> QED BY <1>1, <3>1, <3>2 DEF Values, Once
  <2>2. ASSUME NEW y \in Values(q) \ {Head(q)}
        PROVE  y \in Values(Tail(q))
    <3>1. PICK i \in 1 .. Len(q) : y = q[i]
      BY DEF Values
    <3>2. i # 1 /\ i - 1 \in 1 .. Len(q) - 1 /\ (i - 1) + 1 = i
      BY <1>1, <3>1
    <3>3. Tail(q)[i - 1] = y
      BY <1>1, <3>1, <3>2
    <3> QED BY <1>1, <3>2, <3>3 DEF Values
  <2> QED BY <2>1, <2>2
<1>3. Head(q) \in Values(q)
  BY <1>1 DEF Values
<1>4. IsFiniteSet(Values(Tail(q))) /\ Cardinality(Values(Tail(q))) = Len(q) - 1
  BY <1>2, <1>3, FS_RemoveElement DEF Once
<1>5. ASSUME NEW i \in 1 .. Len(Tail(q)), NEW j \in 1 .. Len(Tail(q)), Tail(q)[i] = Tail(q)[j]
      PROVE  i = j
  <2>1. i + 1 \in 1 .. Len(q) /\ j + 1 \in 1 .. Len(q) /\ q[i + 1] = q[j + 1]
    BY <1>1, <1>5
  <2> QED BY <1>1, <2>1 DEF Once
<1> QED BY <1>1, <1>2, <1>3, <1>4, <1>5 DEF Once

\* Two finite sets without a common element count together.
LEMMA DisjointUnion ==
  ASSUME NEW S, NEW T, IsFiniteSet(S), IsFiniteSet(T), S \cap T = {}
  PROVE  IsFiniteSet(S \cup T) /\ Cardinality(S \cup T) = Cardinality(S) + Cardinality(T)
<1>1. Cardinality(S) \in Nat /\ Cardinality(T) \in Nat
  BY FS_CardinalityType
<1>2. Cardinality(S \cap T) = 0
  BY FS_EmptySet
<1>3. IsFiniteSet(S \cup T)
      /\ Cardinality(S \cup T) = Cardinality(S) + Cardinality(T) - Cardinality(S \cap T)
  BY FS_Union
<1> QED BY <1>1, <1>2, <1>3

\* The reverse of one sequence before another.
LEMMA OnceReversed ==
  ASSUME NEW S, NEW d \in Seq(S), NEW q \in Seq(S), Once(d), Once(q), Values(d) \cap Values(q) = {}
  PROVE  LET r == [i \in DOMAIN d |-> d[Len(d) + 1 - i]] \o q
         IN  r \in Seq(S) /\ Values(r) = Values(d) \cup Values(q) /\ Once(r)
<1> DEFINE r == [i \in DOMAIN d |-> d[Len(d) + 1 - i]] \o q
<1>0. PICK n, m : n = Len(d) /\ m = Len(q)
  OBVIOUS
<1>1. n \in Nat /\ m \in Nat /\ DOMAIN d = 1 .. n
  BY <1>0
<1>2. \A i \in 1 .. n : n + 1 - i \in 1 .. n /\ d[n + 1 - i] \in S
  BY <1>0, <1>1
<1>3. PICK e : e = [i \in 1 .. n |-> d[n + 1 - i]]
  OBVIOUS
<1>4. e \in Seq(S) /\ Len(e) = n /\ \A i \in 1 .. n : e[i] = d[n + 1 - i]
  BY <1>1, <1>2, <1>3
<1>5. r = e \o q
  BY <1>0, <1>1, <1>3
<1> HIDE DEF r
<1>6. /\ r \in Seq(S) /\ Len(r) = n + m
      /\ \A i \in 1 .. n : r[i] = d[n + 1 - i]
      /\ \A i \in n + 1 .. n + m : r[i] = q[i - n]
  <2>1. /\ r \in Seq(S) /\ Len(r) = n + m
        /\ \A i \in 1 .. n + m : r[i] = IF i <= n THEN e[i] ELSE q[i - n]
    <3>1. /\ e \o q \in Seq(S) /\ Len(e \o q) = Len(e) + Len(q)
          /\ \A i \in 1 .. Len(e) + Len(q) :
                (e \o q)[i] = IF i <= Len(e) THEN e[i] ELSE q[i - Len(e)]
      BY <1>4, ConcatProperties, Zenon
    <3> QED BY <1>0, <1>4, <1>5, <3>1, Zenon
  <2> QED BY <1>1, <1>4, <2>1
<1>7. Values(r) = Values(d) \cup Values(q)
  <2>1. ASSUME NEW y \in Values(r)
        PROVE  y \in Values(d) \cup Values(q)
    <3>1. PICK i \in 1 .. n + m : y = r[i]
      BY <1>6 DEF Values
    <3>2. CASE i \in 1 .. n
      BY <1>0, <1>2, <1>6, <3>1, <3>2 DEF Values
    <3>3. CASE i \in n + 1 .. n + m
      <4>1. i - n \in 1 .. m
        BY <1>1, <3>3
      <4> QED BY <1>0, <1>6, <3>1, <3>3, <4>1 DEF Values
    <3> QED BY <1>1, <3>2, <3>3
  <2>2. ASSUME NEW y \in Values(d)
        PROVE  y \in Values(r)
    <3>1. PICK i \in 1 .. n : y = d[i]
      BY <1>0 DEF Values
    <3>2. n + 1 - i \in 1 .. n /\ n + 1 - i \in 1 .. n + m /\ n + 1 - (n + 1 - i) = i
      BY <1>1
    <3>3. r[n + 1 - i] = y
      BY <1>6, <3>1, <3>2
    <3> QED BY <1>6, <3>2, <3>3 DEF Values
  <2>3. ASSUME NEW y \in Values(q)
        PROVE  y \in Values(r)
    <3>1. PICK i \in 1 .. m : y = q[i]
      BY <1>0 DEF Values
    <3>2. n + i \in n + 1 .. n + m /\ n + i \in 1 .. n + m /\ (n + i) - n = i
      BY <1>1
    <3>3. r[n + i] = y
      BY <1>6, <3>1, <3>2
    <3> QED BY <1>6, <3>2, <3>3 DEF Values
  <2> QED BY <2>1, <2>2, <2>3
<1>8. IsFiniteSet(Values(r)) /\ Cardinality(Values(r)) = Len(r)
  <2>1. /\ IsFiniteSet(Values(d)) /\ Cardinality(Values(d)) = n
        /\ IsFiniteSet(Values(q)) /\ Cardinality(Values(q)) = m
    BY <1>0 DEF Once
  <2> QED BY <1>6, <1>7, <2>1, DisjointUnion
<1>9. ASSUME NEW i \in 1 .. n + m, NEW j \in 1 .. n + m, r[i] = r[j]
      PROVE  i = j
  <2>1. ASSUME NEW k \in 1 .. n, NEW l \in n + 1 .. n + m
        PROVE  r[k] # r[l]
    <3>1. r[k] \in Values(d)
      BY <1>0, <1>2, <1>6 DEF Values
    <3>2. l - n \in 1 .. m
      BY <1>1
    <3>3. r[l] \in Values(q)
      BY <1>0, <1>6, <3>2 DEF Values
    <3> QED BY <3>1, <3>3
  <2>2. CASE i \in 1 .. n /\ j \in 1 .. n
    <3>0. d[n + 1 - i] = d[n + 1 - j] /\ n + 1 - i \in 1 .. n /\ n + 1 - j \in 1 .. n
      BY <1>2, <1>6, <1>9, <2>2
    <3>1. n + 1 - i = n + 1 - j
      BY <1>0, <3>0 DEF Once
    <3> QED BY <1>1, <3>1
  <2>3. CASE i \in n + 1 .. n + m /\ j \in n + 1 .. n + m
    <3>0. i - n \in 1 .. m /\ j - n \in 1 .. m
      BY <1>1, <2>3
    <3>1. i - n = j - n
      BY <1>0, <1>6, <1>9, <2>3, <3>0 DEF Once
    <3> QED BY <1>1, <3>1
  <2> QED BY <1>1, <1>9, <2>1, <2>2, <2>3
<1> QED BY <1>6, <1>7, <1>8, <1>9 DEF Once, r

-----------------------------------------------------------------------------
(* The io_uring transmit queue.                                            *)

\* The slots in a state, and those with a completion.
InState(st) == {s \in Slot : slotState[s] = st}
Done == {completion[i].slot : i \in 1 .. Len(completion)}

\* The types of the queue.
UringTypeOK ==
    /\ slotState \in [Slot -> {"Free", "Staged", "InFlight"}]
    /\ held \in [Slot -> Nat] /\ datagram \in Nat
    /\ freeList \in Seq(Slot) /\ submission \in Seq(Slot) /\ kernel \subseteq Slot
    /\ completion \in Seq([slot : Slot, sent : BOOLEAN])
    /\ staged \in Int /\ inflight \in Int
    /\ at \in {"idle", "submit", "wait", "reap", "reapFailed", "socket"}

\* The free list has every free slot once.
FreeOnce == Once(freeList) /\ Values(freeList) = InState("Free")

\* Only the datagram being transmitted is ever staged.
StagedOnce ==
    /\ staged = Cardinality(InState("Staged"))
    /\ IF at = "submit" THEN \E s \in Slot : InState("Staged") = {s} /\ held[s] = datagram
                        ELSE InState("Staged") = {}

\* A slot in flight is in one place: pushed, with the kernel, or completed.
InFlightOnce ==
    /\ inflight = Cardinality(InState("InFlight"))
    /\ InState("InFlight") = Values(submission) \cup kernel \cup Done
    /\ Values(submission) \cap kernel = {} /\ Values(submission) \cap Done = {} /\ kernel \cap Done = {}
    /\ Once(CompletedSlots)

\* What completed well has left, and when transmit has waited for everything,
\* the slot of its datagram is among the completed ones.
LeftWhenSent ==
    /\ \A i \in 1 .. Len(completion) : completion[i].sent => held[completion[i].slot] \in onWire
    /\ at \in {"wait", "reap"} => \E s \in InState("InFlight") : held[s] = datagram
    /\ at = "reap" => InState("InFlight") = Done
    /\ reported \subseteq onWire

\* The inductive invariant of the transmit queue.
UringInv == UringTypeOK /\ FreeOnce /\ StagedOnce /\ InFlightOnce /\ LeftWhenSent

\* Every set of slots is finite.
LEMMA SlotsFinite ==
  /\ \A S : S \subseteq Slot => IsFiniteSet(S) /\ Cardinality(S) \in Nat
  /\ Cardinality(Slot) = Slots
<1>1. IsFiniteSet(Slot) /\ Cardinality(Slot) = Slots
  BY UringAssumption, FS_Interval DEF Slot
<1>2. ASSUME NEW S, S \subseteq Slot
      PROVE  IsFiniteSet(S) /\ Cardinality(S) \in Nat
  <2>1. IsFiniteSet(S)
    BY <1>1, <1>2, FS_Subset
  <2> QED BY <2>1, FS_CardinalityType
<1> QED BY <1>1, <1>2

\* The slots of the completions, as a sequence.
LEMMA DoneIsCompleted ==
  ASSUME UringTypeOK
  PROVE  /\ Values(CompletedSlots) = Done /\ CompletedSlots \in Seq(Slot)
         /\ Len(CompletedSlots) = Len(completion) /\ DOMAIN CompletedSlots = 1 .. Len(completion)
         /\ Done \subseteq Slot
<1>1. /\ Len(completion) \in Nat
      /\ \A i \in 1 .. Len(completion) : completion[i].slot \in Slot
  <2>1. completion \in Seq([slot : Slot, sent : BOOLEAN])
    BY DEF UringTypeOK
  <2>2. ASSUME NEW i \in 1 .. Len(completion)
        PROVE  completion[i] \in [slot : Slot, sent : BOOLEAN]
    BY <2>1, ElementOfSeq, Zenon
  <2>3. Len(completion) \in Nat
    BY <2>1, LenProperties, Zenon
  <2> QED BY <2>2, <2>3
<1>2. /\ CompletedSlots \in Seq(Slot) /\ Len(CompletedSlots) = Len(completion)
      /\ DOMAIN CompletedSlots = 1 .. Len(completion)
      /\ \A i \in 1 .. Len(completion) : CompletedSlots[i] = completion[i].slot
  BY <1>1 DEF CompletedSlots
<1> QED BY <1>1, <1>2 DEF Values, Done

\* A new queue has every slot on its free list.
LEMMA UringInvInit == UringInit => UringInv
<1> SUFFICES ASSUME UringInit
             PROVE  UringInv
  OBVIOUS
<1>0. Slots \in Nat
  BY UringAssumption
<1>1. UringTypeOK
  BY <1>0 DEF UringInit, UringTypeOK, Slot
<1>2. /\ Len(freeList) = Slots /\ \A i \in 1 .. Len(freeList) : freeList[i] = i
  BY <1>0 DEF UringInit, Slot
<1>3. Values(freeList) = Slot /\ InState("Free") = Slot
  BY <1>2 DEF UringInit, Values, InState, Slot
<1>4. FreeOnce
  BY <1>2, <1>3, SlotsFinite DEF FreeOnce, Once
<1>5. InState("Staged") = {} /\ InState("InFlight") = {} /\ Done = {} /\ Values(submission) = {}
  BY DEF UringInit, InState, Done, Values
<1>6. StagedOnce
  BY <1>5, FS_EmptySet DEF UringInit, StagedOnce
<1>7. Once(CompletedSlots)
  <2>1. CompletedSlots = << >>
    BY DEF UringInit, CompletedSlots
  <2> QED BY <2>1, FS_EmptySet DEF Once, Values
<1>8. InFlightOnce
  BY <1>5, <1>7, FS_EmptySet DEF UringInit, InFlightOnce
<1>9. LeftWhenSent
  BY DEF UringInit, LeftWhenSent
<1> QED BY <1>1, <1>4, <1>6, <1>8, <1>9 DEF UringInv

\* stage takes the head of the free list.
LEMMA StageKeeps ==
  ASSUME UringInv, Stage
  PROVE  UringInv'
<1> USE DEF UringInv
<1>1. CASE freeList = << >>
  <2>1. /\ at' = "socket" /\ UNCHANGED <<queueVars, kernelVars, onWire, reported>> /\ at = "idle"
        /\ datagram' \in Nat
    BY <1>1 DEF Stage, UringTypeOK
  <2> QED BY <2>1 DEF UringTypeOK, FreeOnce, StagedOnce, InFlightOnce, LeftWhenSent, queueVars, kernelVars,
                      InState, Done, CompletedSlots
<1>2. CASE freeList # << >>
  <2>0. PICK s, d : s = Head(freeList) /\ d = datagram + 1
    OBVIOUS
  <2>1. /\ at = "idle" /\ at' = "submit" /\ datagram' = d /\ freeList' = Tail(freeList)
        /\ held' = [held EXCEPT ![s] = d] /\ slotState' = [slotState EXCEPT ![s] = "Staged"]
        /\ staged' = staged + 1
        /\ UNCHANGED <<inflight, submission, kernel, completion, onWire, reported>>
    BY <1>2, <2>0 DEF Stage, kernelVars
  <2>2. /\ Once(freeList') /\ freeList' \in Seq(Slot) /\ s \in Slot
        /\ Values(freeList') = Values(freeList) \ {s} /\ s \in Values(freeList)
    BY <1>2, <2>0, <2>1, OnceTail DEF FreeOnce, UringTypeOK
  <2>3. /\ slotState[s] = "Free" /\ slotState'[s] = "Staged"
        /\ \A t \in Slot \ {s} : slotState'[t] = slotState[t] /\ held'[t] = held[t]
        /\ held'[s] = d /\ d \in Nat
    BY <2>0, <2>1, <2>2 DEF FreeOnce, InState, UringTypeOK
  <2>4. UringTypeOK'
    BY <2>1, <2>2, <2>3 DEF UringTypeOK
  <2>5. /\ InState("Free")' = InState("Free") \ {s} /\ InState("Staged")' = InState("Staged") \cup {s}
        /\ InState("InFlight")' = InState("InFlight") /\ s \notin InState("InFlight")
    BY <2>2, <2>3 DEF InState
  <2>6. FreeOnce'
    BY <2>2, <2>5 DEF FreeOnce
  <2>7. InState("Staged") = {}
    BY <2>1 DEF StagedOnce
  <2>8. StagedOnce'
    <3>0. staged = 0
      BY <2>7, FS_EmptySet DEF StagedOnce
    <3>1. InState("Staged")' = {s} /\ staged' = 1
      BY <2>1, <2>5, <2>7, <3>0
    <3> QED BY <2>1, <2>2, <2>3, <3>1, FS_Singleton DEF StagedOnce
  <2>9. InFlightOnce'
    BY <2>1, <2>5 DEF InFlightOnce, Done, CompletedSlots
  <2>10. LeftWhenSent'
    <3>1. ASSUME NEW i \in 1 .. Len(completion)
          PROVE  held'[completion[i].slot] = held[completion[i].slot]
      <4>1. completion[i].slot \in InState("InFlight")
        BY DEF InFlightOnce, Done
      <4> QED BY <2>3, <2>5, <4>1 DEF InState
    <3> QED BY <2>1, <3>1 DEF LeftWhenSent
  <2> QED BY <2>4, <2>6, <2>8, <2>9, <2>10
<1> QED BY <1>1, <1>2

\* With one slot staged, that slot is what submit_staged pushes.
LEMMA OneStaged ==
  ASSUME UringInv, NEW s \in Slot, InState("Staged") = {s}
  PROVE  StagedSlots = <<s>>
<1>1. Cardinality({s}) = 1
  BY FS_Singleton
<1>2. {t \in Slot : slotState[t] = "Staged"} = {s}
  BY DEF InState
<1>3. StagedSlots = CHOOSE q \in [1 .. 1 -> {s}] : \A i, j \in 1 .. 1 : i < j => q[i] < q[j]
  BY <1>1, <1>2 DEF StagedSlots
<1>4. \A i, j \in 1 .. 1 : ~(i < j)
  OBVIOUS
<1>5. [i \in 1 .. 1 |-> s] \in [1 .. 1 -> {s}]
  OBVIOUS
<1>6. StagedSlots \in [1 .. 1 -> {s}]
  BY <1>3, <1>4, <1>5, Zenon
<1>7. \A q \in [1 .. 1 -> {s}] : q = <<s>>
  OBVIOUS
<1> QED BY <1>6, <1>7

\* submit_staged pushes what is staged; the kernel takes any part of it.
LEMMA SubmitKeeps ==
  ASSUME UringInv, SubmitStaged
  PROVE  UringInv'
<1> USE DEF UringInv
<1>1. PICK s \in Slot : InState("Staged") = {s} /\ held[s] = datagram
  BY DEF SubmitStaged, StagedOnce
<1>2. StagedSlots = <<s>>
  BY <1>1, OneStaged
<1>3. Len(StagedSlots) = 1 /\ {StagedSlots[i] : i \in DOMAIN StagedSlots} = {s}
  BY <1>2
<1>4. /\ slotState' = [t \in Slot |-> IF slotState[t] = "Staged" THEN "InFlight" ELSE slotState[t]]
      /\ staged' = staged - 1 /\ inflight' = inflight + 1
      /\ UNCHANGED <<held, freeList, completion, datagram, onWire, reported>>
  BY <1>3 DEF SubmitStaged
<1>5. \/ /\ kernel' = Values(submission) \cup kernel \cup {s} /\ submission' = << >> /\ at' = "wait"
      \/ /\ kernel' = kernel /\ submission' = Append(submission, s) /\ at' = "reapFailed"
  <2>1. Handed = Values(submission) \cup kernel
    BY DEF Handed, Values
  <2>2. submission \o <<s>> = Append(submission, s)
    BY DEF UringTypeOK
  <2> QED BY <1>2, <1>3, <2>1, <2>2 DEF SubmitStaged
<1>6. /\ slotState[s] = "Staged" /\ \A t \in Slot \ {s} : slotState[t] # "Staged"
      /\ s \notin InState("InFlight")
  BY <1>1 DEF InState
<1>7. /\ InState("Free")' = InState("Free") /\ InState("Staged")' = {}
      /\ InState("InFlight")' = InState("InFlight") \cup {s}
  BY <1>4, <1>6 DEF InState
<1>8. UringTypeOK'
  <2>1. slotState' \in [Slot -> {"Free", "Staged", "InFlight"}]
    BY <1>4 DEF UringTypeOK
  <2>2. kernel' \subseteq Slot /\ submission' \in Seq(Slot)
    <3>1. Values(submission) \subseteq Slot /\ submission \in Seq(Slot) /\ kernel \subseteq Slot
      BY DEF UringTypeOK, Values
    <3>2. Append(submission, s) \in Seq(Slot) /\ << >> \in Seq(Slot)
      BY <3>1
    <3> QED BY <1>5, <3>1, <3>2
  <2> QED BY <1>4, <1>5, <2>1, <2>2 DEF UringTypeOK
<1>9. FreeOnce'
  BY <1>4, <1>7 DEF FreeOnce
<1>10. StagedOnce'
  <2>1. staged = 1
    BY <1>1, FS_Singleton DEF StagedOnce
  <2>2. staged' = 0 /\ at' # "submit"
    BY <1>4, <1>5, <2>1
  <2> QED BY <1>7, <2>2, FS_EmptySet DEF StagedOnce
<1>11. InFlightOnce'
  <2>1. Done' = Done /\ CompletedSlots' = CompletedSlots
    BY <1>4 DEF Done, CompletedSlots
  <2>2. Values(submission') \cup kernel' = Values(submission) \cup kernel \cup {s}
    <3>1. CASE submission' = << >>
      <4>1. Values(submission') = {}
        BY <3>1 DEF Values
      <4> QED BY <1>5, <3>1, <4>1
    <3>2. CASE submission' = Append(submission, s) /\ kernel' = kernel
      BY <3>2, ValuesAppend DEF UringTypeOK
    <3> QED BY <1>5, <3>1, <3>2
  <2>3. Values(submission') \cap kernel' = {}
    <3>1. CASE submission' = << >>
      BY <3>1 DEF Values
    <3>2. CASE submission' = Append(submission, s) /\ kernel' = kernel
      <4>1. Values(submission') = Values(submission) \cup {s}
        BY <3>2, ValuesAppend DEF UringTypeOK
      <4> QED BY <1>6, <3>2, <4>1 DEF InFlightOnce
    <3> QED BY <1>5, <3>1, <3>2
  <2>4. (Values(submission') \cup kernel') \cap Done' = {}
    BY <1>6, <2>1, <2>2 DEF InFlightOnce
  <2>5. Cardinality(InState("InFlight")') = inflight + 1
    <3>1. IsFiniteSet(InState("InFlight"))
      BY SlotsFinite DEF InState
    <3> QED BY <1>6, <1>7, <3>1, FS_AddElement DEF InFlightOnce
  <2>6. InState("InFlight")' = Values(submission') \cup kernel' \cup Done'
    BY <1>7, <2>1, <2>2 DEF InFlightOnce
  <2> QED BY <1>4, <2>1, <2>3, <2>4, <2>5, <2>6 DEF InFlightOnce
<1>12. LeftWhenSent'
  BY <1>1, <1>4, <1>5, <1>7 DEF LeftWhenSent
<1> QED BY <1>8, <1>9, <1>10, <1>11, <1>12

\* Waiting changes nothing but where the thread is.
LEMMA WaitKeeps ==
  ASSUME UringInv, Wait
  PROVE  UringInv'
<1> USE DEF UringInv
<1>1. UNCHANGED <<slotState, held, freeList, staged, inflight, submission, kernel, completion, datagram,
                  onWire, reported>>
  BY DEF Wait, queueVars, kernelVars
<1>2. /\ at = "wait" /\ at' \in {"reap", "reapFailed"}
      /\ at' = "reap" => Len(completion) >= inflight
  BY DEF Wait
<1>3. UringTypeOK' /\ FreeOnce' /\ StagedOnce' /\ InFlightOnce'
  BY <1>1, <1>2 DEF UringTypeOK, FreeOnce, StagedOnce, InFlightOnce, InState, Done, CompletedSlots
<1>4. ASSUME at' = "reap"
      PROVE  InState("InFlight") = Done
  <2>1. Done \subseteq InState("InFlight") /\ IsFiniteSet(InState("InFlight")) /\ IsFiniteSet(Done)
        /\ Cardinality(Done) \in Nat /\ Cardinality(InState("InFlight")) \in Nat
    BY SlotsFinite, DoneIsCompleted DEF InFlightOnce, InState
  <2>2. Cardinality(Done) = Len(completion)
    BY DoneIsCompleted DEF InFlightOnce, Once
  <2>3. Cardinality(Done) <= Cardinality(InState("InFlight"))
    BY <2>1, FS_Subset
  <2>4. Cardinality(Done) = Cardinality(InState("InFlight"))
    BY <1>2, <1>4, <2>1, <2>2, <2>3 DEF InFlightOnce
  <2> QED BY <2>1, <2>4, FS_Subset
<1>5. LeftWhenSent'
  BY <1>1, <1>2, <1>4 DEF LeftWhenSent, InState, Done
<1> QED BY <1>3, <1>5

\* reap frees every completed slot, in the order of the completions.
LEMMA ReapKeeps ==
  ASSUME UringInv, Reap
  PROVE  UringInv'
<1> USE DEF UringInv
<1>0. PICK d : d = CompletedSlots
  OBVIOUS
<1>1. /\ d \in Seq(Slot) /\ Values(d) = Done /\ Len(d) = Len(completion) /\ Done \subseteq Slot
      /\ DOMAIN d = 1 .. Len(d)
  BY <1>0, DoneIsCompleted
<1>2. /\ inflight' = inflight - Len(d)
      /\ slotState' = [s \in Slot |-> IF \E i \in DOMAIN d : d[i] = s THEN "Free" ELSE slotState[s]]
      /\ freeList' = [i \in DOMAIN d |-> d[Len(d) + 1 - i]] \o freeList
      /\ completion' = << >> /\ at' \in {"idle", "socket"}
      /\ UNCHANGED <<held, staged, submission, kernel, datagram, onWire>>
  BY <1>0 DEF Reap
<1>3. \A s \in Slot : (\E i \in DOMAIN d : d[i] = s) <=> s \in Done
  BY <1>1 DEF Values
<1>4. slotState' = [s \in Slot |-> IF s \in Done THEN "Free" ELSE slotState[s]]
  BY <1>2, <1>3
<1>5. /\ Done \subseteq InState("InFlight")
      /\ InState("Free")' = InState("Free") \cup Done /\ InState("Staged")' = InState("Staged")
      /\ InState("InFlight")' = InState("InFlight") \ Done
  <2>1. Done \subseteq InState("InFlight")
    BY DEF InFlightOnce
  <2> QED BY <1>4, <2>1 DEF InState
<1>6. /\ freeList' \in Seq(Slot) /\ Values(freeList') = Values(d) \cup Values(freeList)
      /\ Once(freeList')
  <2>1. Values(d) \cap Values(freeList) = {}
    BY <1>1, <1>5 DEF FreeOnce, InState
  <2>2. Once(d) /\ Once(freeList) /\ freeList \in Seq(Slot)
    BY <1>0 DEF FreeOnce, InFlightOnce, UringTypeOK
  <2>3. LET r == [i \in DOMAIN d |-> d[Len(d) + 1 - i]] \o freeList
        IN  r \in Seq(Slot) /\ Values(r) = Values(d) \cup Values(freeList) /\ Once(r)
    BY <1>1, <2>1, <2>2, OnceReversed
  <2> QED BY <1>2, <2>3
<1>7. Done' = {} /\ CompletedSlots' = << >>
  BY <1>2 DEF Done, CompletedSlots
<1>8. UringTypeOK'
  <2>1. slotState' \in [Slot -> {"Free", "Staged", "InFlight"}]
    BY <1>4 DEF UringTypeOK
  <2>2. inflight' \in Int
    BY <1>1, <1>2 DEF UringTypeOK
  <2>3. completion' \in Seq([slot : Slot, sent : BOOLEAN])
    BY <1>2
  <2> QED BY <1>2, <1>6, <2>1, <2>2, <2>3 DEF UringTypeOK
<1>9. FreeOnce'
  BY <1>1, <1>5, <1>6 DEF FreeOnce
<1>10. StagedOnce'
  BY <1>2, <1>5 DEF StagedOnce, Reap
<1>11. InFlightOnce'
  <2>1. Once(<< >>)
    BY FS_EmptySet DEF Once, Values
  <2>2. InState("InFlight")' = Values(submission') \cup kernel' \cup Done'
    BY <1>2, <1>5, <1>7 DEF InFlightOnce
  <2>3. IsFiniteSet(InState("InFlight")) /\ InState("InFlight") \cap Done = Done
    BY <1>5, SlotsFinite DEF InState
  <2>4. Cardinality(Done) = Len(d)
    BY <1>0, <1>1 DEF InFlightOnce, Once
  <2>5. inflight' = Cardinality(InState("InFlight")')
    <3>1. Cardinality(InState("InFlight") \ Done) = Cardinality(InState("InFlight")) - Cardinality(Done)
      BY <2>3, FS_Difference
    <3> QED BY <1>2, <1>5, <2>4, <3>1 DEF InFlightOnce
  <2> QED BY <1>2, <1>7, <2>1, <2>2, <2>5 DEF InFlightOnce
<1>12. LeftWhenSent'
  <2>1. CASE at = "reap" /\ AllSent
    <3>1. PICK s \in InState("InFlight") : held[s] = datagram
      BY <2>1 DEF LeftWhenSent
    <3>2. s \in Done
      BY <2>1, <3>1 DEF LeftWhenSent
    <3>3. datagram \in onWire
      BY <2>1, <3>1, <3>2 DEF LeftWhenSent, Done, AllSent
    <3>4. reported' = reported \cup {datagram}
      BY <2>1 DEF Reap
    <3> QED BY <1>2, <3>3, <3>4 DEF LeftWhenSent
  <2>2. CASE ~(at = "reap" /\ AllSent)
    <3>1. reported' = reported
      BY <2>2 DEF Reap
    <3> QED BY <1>2, <3>1 DEF LeftWhenSent
  <2> QED BY <2>1, <2>2
<1> QED BY <1>8, <1>9, <1>10, <1>11, <1>12

\* The kernel completes a slot it was given, well or not.
LEMMA CompleteKeeps ==
  ASSUME UringInv, NEW s \in Slot, NEW ok \in BOOLEAN, Complete(s, ok)
  PROVE  UringInv'
<1> USE DEF UringInv
<1>0. PICK c : c = [slot |-> s, sent |-> ok]
  OBVIOUS
<1>1. /\ s \in kernel /\ kernel' = kernel \ {s} /\ completion' = Append(completion, c)
      /\ onWire \subseteq onWire' /\ (ok => held[s] \in onWire')
      /\ UNCHANGED <<slotState, held, freeList, staged, inflight, submission, at, datagram, reported>>
  BY <1>0 DEF Complete, queueVars
<1>2. c \in [slot : Slot, sent : BOOLEAN] /\ c.slot = s /\ c.sent = ok
  BY <1>0
<1>3. PICK R : R = [slot : Slot, sent : BOOLEAN]
  OBVIOUS
<1>4. completion \in Seq(R) /\ c \in R
  BY <1>2, <1>3 DEF UringTypeOK
<1>5. /\ completion' \in Seq(R) /\ Len(completion') = Len(completion) + 1 /\ Len(completion) \in Nat
      /\ completion'[Len(completion) + 1] = c
      /\ \A i \in 1 .. Len(completion) : completion'[i] = completion[i]
  BY <1>1, <1>4
<1>6. UringTypeOK'
  BY <1>1, <1>3, <1>5 DEF UringTypeOK
<1>7. Done' = Done \cup {s} /\ s \notin Done
  <2>1. s \notin Done
    BY <1>1 DEF InFlightOnce
  <2>2. \A y \in Done' : y \in Done \cup {s}
    BY <1>2, <1>5 DEF Done
  <2>3. \A y \in Done \cup {s} : y \in Done'
    <3>1. ASSUME NEW i \in 1 .. Len(completion)
          PROVE  completion[i].slot \in Done'
      <4>1. i \in 1 .. Len(completion') /\ completion'[i] = completion[i]
        BY <1>5
      <4> QED BY <4>1 DEF Done
    <3>2. s \in Done'
      <4>1. Len(completion) + 1 \in 1 .. Len(completion') /\ completion'[Len(completion) + 1].slot = s
        BY <1>2, <1>5
      <4> QED BY <4>1 DEF Done
    <3> QED BY <3>1, <3>2 DEF Done
  <2> QED BY <2>1, <2>2, <2>3
<1>8. CompletedSlots' = Append(CompletedSlots, s)
  <2>1. CompletedSlots \in Seq(Slot) /\ Len(CompletedSlots) = Len(completion)
        /\ \A i \in 1 .. Len(completion) : CompletedSlots[i] = completion[i].slot
    BY DoneIsCompleted DEF CompletedSlots
  <2>2. PICK q, n : q = Append(CompletedSlots, s) /\ n = Len(completion)
    OBVIOUS
  <2>3. /\ q \in Seq(Slot) /\ Len(q) = n + 1 /\ q[n + 1] = s
        /\ \A i \in 1 .. n : q[i] = completion[i].slot
    BY <2>1, <2>2
  <2>4. CompletedSlots' = [i \in 1 .. n + 1 |-> completion'[i].slot] /\ n \in Nat
    BY <1>5, <2>2 DEF CompletedSlots
  <2>5. \A i \in 1 .. n + 1 : completion'[i].slot = q[i]
    BY <1>2, <1>5, <2>2, <2>3
  <2>6. q = [i \in 1 .. n + 1 |-> q[i]]
    BY <2>3, <2>4
  <2>7. CompletedSlots' = q
    BY <2>4, <2>5, <2>6
  <2> QED BY <2>2, <2>7
<1>9. InFlightOnce'
  <2>1. Once(CompletedSlots')
    BY <1>7, <1>8, OnceAppend, DoneIsCompleted DEF InFlightOnce
  <2>2. InState("InFlight")' = InState("InFlight")
    BY <1>1 DEF InState
  <2> QED BY <1>1, <1>7, <2>1, <2>2 DEF InFlightOnce
<1>10. FreeOnce' /\ StagedOnce'
  BY <1>1 DEF FreeOnce, StagedOnce, InState
<1>11. LeftWhenSent'
  <2>1. ASSUME NEW i \in 1 .. Len(completion'), completion'[i].sent
        PROVE  held[completion'[i].slot] \in onWire'
    <3>1. CASE i \in 1 .. Len(completion)
      BY <1>1, <1>5, <2>1, <3>1 DEF LeftWhenSent
    <3>2. CASE i = Len(completion) + 1
      BY <1>1, <1>2, <1>5, <2>1, <3>2
    <3> QED BY <1>5, <3>1, <3>2
  <2>2. at = "reap" => s \in Done
    BY <1>1 DEF LeftWhenSent, InFlightOnce
  <2>3. at # "reap"
    BY <1>7, <2>2
  <2> QED BY <1>1, <2>1, <2>3 DEF LeftWhenSent, InState
<1> QED BY <1>6, <1>9, <1>10, <1>11

\* Every step of transmit and of the kernel keeps the invariant.
LEMMA UringStep == UringInv /\ [UringNext]_uringVars => UringInv'
<1> SUFFICES ASSUME UringInv, [UringNext]_uringVars
             PROVE  UringInv'
  OBVIOUS
<1>1. CASE SocketSend
  <2>1. /\ UNCHANGED <<slotState, held, freeList, staged, inflight>>
        /\ UNCHANGED <<submission, kernel, completion, datagram>> /\ at' = "idle"
    BY <1>1 DEF SocketSend, queueVars, kernelVars
  <2>2. onWire \subseteq onWire' /\ (reported \subseteq onWire => reported' \subseteq onWire')
    BY <1>1 DEF SocketSend
  <2>3. UringTypeOK' /\ FreeOnce'
    BY <2>1 DEF UringInv, UringTypeOK, FreeOnce, InState
  <2>4. StagedOnce' /\ InFlightOnce'
    <3>1. /\ InState("Staged")' = InState("Staged") /\ InState("InFlight")' = InState("InFlight")
          /\ Done' = Done /\ CompletedSlots' = CompletedSlots
      BY <2>1 DEF InState, Done, CompletedSlots
    <3>2. at # "submit" /\ at' # "submit"
      BY <1>1, <2>1 DEF SocketSend
    <3>3. StagedOnce /\ InFlightOnce
      BY DEF UringInv
    <3>4. StagedOnce'
      BY <2>1, <3>1, <3>2, <3>3 DEF StagedOnce
    <3>5. InFlightOnce'
      BY <2>1, <3>1, <3>3 DEF InFlightOnce
    <3> QED BY <3>4, <3>5
  <2>5. LeftWhenSent'
    BY <2>1, <2>2 DEF UringInv, LeftWhenSent
  <2> QED BY <2>3, <2>4, <2>5 DEF UringInv
<1>2. CASE UNCHANGED uringVars
  <2>1. /\ UNCHANGED <<slotState, held, freeList, staged, inflight>>
        /\ UNCHANGED <<submission, kernel, completion, at, datagram, onWire, reported>>
    BY <1>2 DEF uringVars, queueVars, kernelVars
  <2>2. UringTypeOK' /\ FreeOnce'
    BY <2>1 DEF UringInv, UringTypeOK, FreeOnce, InState
  <2>3. StagedOnce' /\ InFlightOnce' /\ LeftWhenSent'
    BY <2>1 DEF UringInv, StagedOnce, InFlightOnce, LeftWhenSent, InState, Done, CompletedSlots
  <2> QED BY <2>2, <2>3 DEF UringInv
<1> QED BY <1>1, <1>2, StageKeeps, SubmitKeeps, WaitKeeps, ReapKeeps, CompleteKeeps DEF UringNext

\* The accounting is part of the invariant.
LEMMA InvGivesSlotsAccounted ==
  ASSUME UringInv
  PROVE  SlotsAccounted
<1> USE DEF UringInv
<1>1. DOMAIN freeList = 1 .. Len(freeList) /\ DOMAIN completion = 1 .. Len(completion)
  BY DEF UringTypeOK
<1>2. {freeList[i] : i \in DOMAIN freeList} = Values(freeList)
  BY <1>1 DEF Values
<1>3. Handed \cup {completion[i].slot : i \in DOMAIN completion} = InState("InFlight")
  BY <1>1 DEF Handed, InFlightOnce, Values, Done
<1> QED BY <1>2, <1>3 DEF SlotsAccounted, FreeOnce, Once, StagedOnce, InFlightOnce, LeftWhenSent, InState

\* For any number of slots and datagrams: every slot is free, staged or in
\* flight, once; the counters agree with the states; and a datagram reported as
\* sent has left, whatever part of a submission the kernel takes and whichever
\* calls fail (uring.rs, transmit of service.rs).
THEOREM SlotsAccountedAlways == UringSpec => []SlotsAccounted
<1>1. UringSpec => []UringInv
  BY UringInvInit, UringStep, PTL DEF UringSpec
<1> QED BY <1>1, InvGivesSlotsAccounted, PTL

-----------------------------------------------------------------------------
(* Facts about numbers.                                                    *)

\* The least-number principle, for a set.
LEMMA LeastOf ==
  ASSUME NEW T, T \subseteq Nat, T # {}
  PROVE  \E x \in T : \A y \in T : x <= y
<1>1. PICK x \in T : \A y \in T : ~(<<y, x>> \in OpToRel(<, Nat))
  BY NatLessThanWellFounded, WFMin
<1>2. ASSUME NEW a \in Nat, NEW b \in Nat, a < b
      PROVE  <<a, b>> \in OpToRel(<, Nat)
  BY <1>2, Zenon DEF OpToRel
<1>3. ASSUME NEW y \in T
      PROVE  x <= y
  <2>1. ~(y < x)
    BY <1>1, <1>2, Zenon
  <2> QED BY <2>1
<1> QED BY <1>3

\* A remainder is what any division leaves.
LEMMA ModIs ==
  ASSUME NEW n \in Nat \ {0}, NEW x \in Int, NEW q \in Int, NEW r \in 0 .. n - 1, x = n * q + r
  PROVE  x % n = r
<1>1. PICK p, s : p = x \div n /\ s = x % n
  OBVIOUS
<1>2. p \in Int /\ s \in 0 .. n - 1 /\ x = n * p + s
  BY <1>1
<1>3. r - s = n * (p - q)
  BY <1>2
<1>4. CASE p - q >= 1
  BY <1>2, <1>3, <1>4
<1>5. CASE p - q <= -1
  BY <1>2, <1>3, <1>5
<1>6. CASE p - q = 0
  BY <1>1, <1>2, <1>3, <1>6
<1> QED BY <1>2, <1>4, <1>5, <1>6

\* A probe wraps around at most once.
LEMMA WrapIs ==
    ASSUME NEW n \in Nat \ {0}, NEW x \in Nat, x < n + n
    PROVE  x % n = IF x < n THEN x ELSE x - n
<1>1. CASE x < n
  <2>1. x = n * 0 + x /\ x \in 0 .. n - 1
    BY <1>1
  <2> QED BY <1>1, <2>1, ModIs
<1>2. CASE x >= n
  <2>1. x = n * 1 + (x - n) /\ x - n \in 0 .. n - 1
    BY <1>2
  <2>2. x % n = x - n
    BY <2>1, ModIs
  <2> QED BY <1>2, <2>2
<1> QED BY <1>1, <1>2

\* A probe visits every slot once.
LEMMA ProbeVisits ==
    ASSUME NEW u \in Neighbor
    PROVE  /\ \A k \in Index : ProbeAt(u, k) \in Index
           /\ \A k, l \in Index : ProbeAt(u, k) = ProbeAt(u, l) => k = l
           /\ \A i \in Index : \E k \in Index : ProbeAt(u, k) = i
<1>1. PICK n, h : n = TableCap /\ h = HomeSlot[u]
  OBVIOUS
<1>2. n \in Nat \ {0} /\ h \in 0 .. n - 1 /\ Index = 0 .. n - 1
  BY <1>1, TableAssumption DEF Index
<1>3. ASSUME NEW k \in 0 .. n - 1
      PROVE  ProbeAt(u, k) = IF h + k < n THEN h + k ELSE h + k - n
  <2>1. h + k \in Nat /\ h + k < n + n
    BY <1>2
  <2>x. PICK x \in Nat : x = h + k
    BY <2>1
  <2>y. x % n = IF x < n THEN x ELSE x - n
    BY <1>2, <2>1, <2>x, WrapIs
  <2>2. (h + k) % n = IF h + k < n THEN h + k ELSE h + k - n
    BY <1>2, <2>x, <2>y
  <2> QED BY <1>1, <2>2 DEF ProbeAt
<1>4. \A k \in 0 .. n - 1 : ProbeAt(u, k) \in 0 .. n - 1
  BY <1>2, <1>3
<1>5. \A k, l \in 0 .. n - 1 : ProbeAt(u, k) = ProbeAt(u, l) => k = l
  BY <1>2, <1>3
<1>6. ASSUME NEW i \in 0 .. n - 1 PROVE \E k \in 0 .. n - 1 : ProbeAt(u, k) = i
  <2>1. CASE i >= h
    <3>1. i - h \in 0 .. n - 1 /\ h + (i - h) = i /\ i < n
      BY <1>2, <2>1
    <3>2. ProbeAt(u, i - h) = i
      BY <1>3, <3>1
    <3> QED BY <3>1, <3>2
  <2>2. CASE i < h
    <3>1. i - h + n \in 0 .. n - 1 /\ h + (i - h + n) = i + n /\ ~(i + n < n) /\ i + n - n = i
      BY <1>2, <2>2
    <3>2. PICK k \in 0 .. n - 1 : h + k = i + n
      BY <3>1
    <3>3. ProbeAt(u, k) = i
      BY <1>2, <1>3, <3>2
    <3> QED BY <3>3
  <2> QED BY <1>2, <2>1, <2>2
<1> QED BY <1>2, <1>4, <1>5, <1>6

\* The least of a set of steps of a probe.
LEMMA LeastStop ==
    ASSUME NEW T, T \subseteq Index, T # {}
    PROVE  Min(T) \in T /\ \A k \in T : Min(T) <= k
<1>1. T \subseteq Nat
  BY TableAssumption DEF Index
<1>2. \E x \in T : \A y \in T : x <= y
  BY <1>1, LeastOf
<1> QED BY <1>2 DEF Min

\* Slot k of the probe for u holds u.
Holds(u, k) == slots[ProbeAt(u, k)] # Vacant /\ slots[ProbeAt(u, k)].unit = u

\* Of two entries of a unit, the one its probe meets first is the fresher.
NearerFresher ==
    \A u \in Neighbor : \A k, l \in Index :
        k < l /\ Holds(u, k) /\ Holds(u, l)
            => slots[ProbeAt(u, k)].seen <= slots[ProbeAt(u, l)].seen

\* The inductive invariant of the table: FindFreshest looks at the first entry
\* a probe meets, NearerFresher at every pair of entries of one unit, which
\* expire leaves behind when it empties a slot inside a probe chain.
TableInv ==
    /\ TableTypeOK
    /\ NearerFresher
    /\ len = Cardinality(Occupied(slots))

\* The occupied slots can be counted.
LEMMA Occupying ==
    ASSUME NEW t
    PROVE  /\ IsFiniteSet(Occupied(t)) /\ Occupied(t) \subseteq Index
           /\ Cardinality(Occupied(t)) \in 0 .. TableCap
<1>1. IsFiniteSet(Index) /\ Cardinality(Index) = TableCap
  <2>1. TableCap \in Nat /\ TableCap # 0 /\ 0 \in Int /\ TableCap - 1 \in Int
    BY TableAssumption
  <2>2. /\ IsFiniteSet(0 .. TableCap - 1)
        /\ Cardinality(0 .. TableCap - 1) = IF 0 > TableCap - 1 THEN 0 ELSE (TableCap - 1) - 0 + 1
    BY <2>1, FS_Interval
  <2> QED BY <2>1, <2>2 DEF Index
<1>2. PICK S : S = Occupied(t)
  OBVIOUS
<1>3. S \in SUBSET Index
  BY <1>2 DEF Occupied
<1>4. IsFiniteSet(S) /\ Cardinality(S) <= Cardinality(Index)
  BY <1>1, <1>3, FS_Subset
<1>5. Cardinality(S) \in Nat
  BY <1>4, FS_CardinalityType
<1>6. Cardinality(S) \in 0 .. TableCap
  BY <1>1, <1>4, <1>5, TableAssumption
<1> QED BY <1>2, <1>3, <1>4, <1>6

\* A beacon of u writes a fresh entry where the probe for u stops first.
LEMMA FreshFirst ==
    ASSUME TableInv, NEW u \in Neighbor, ProbeStops(u) # {}, NEW e \in NeighborEntry,
           e.unit = u, e.seen = 0, slots' = [slots EXCEPT ![Target(u)] = e]
    PROVE  /\ Target(u) \in Index /\ slots' \in [Index -> NeighborEntry \cup {Vacant}]
           /\ NearerFresher' /\ slots'[Target(u)] = e
           /\ \A i \in Index : i # Target(u) => slots'[i] = slots[i]
<1>t. slots \in [Index -> NeighborEntry \cup {Vacant}]
  BY DEF TableInv, TableTypeOK
<1>1. PICK m : m = Min(ProbeStops(u))
  OBVIOUS
<1>2. m \in ProbeStops(u) /\ m \in Index /\ \A k \in ProbeStops(u) : m <= k
  BY <1>1, LeastStop DEF ProbeStops
<1>3. Target(u) = ProbeAt(u, m) /\ Target(u) \in Index
  BY <1>1, <1>2, ProbeVisits DEF Target
<1>4. /\ slots' \in [Index -> NeighborEntry \cup {Vacant}] /\ slots'[Target(u)] = e
      /\ \A i \in Index : i # Target(u) => slots'[i] = slots[i]
  BY <1>3, <1>t
<1>i. Index \subseteq Nat
  BY TableAssumption DEF Index
<1>5. ASSUME NEW w \in Neighbor, NEW k \in Index, NEW l \in Index, k < l,
             slots'[ProbeAt(w, k)] # Vacant, slots'[ProbeAt(w, k)].unit = w,
             slots'[ProbeAt(w, l)] # Vacant, slots'[ProbeAt(w, l)].unit = w
      PROVE  slots'[ProbeAt(w, k)].seen <= slots'[ProbeAt(w, l)].seen
  <2>0. ProbeAt(w, k) \in Index /\ ProbeAt(w, l) \in Index
    BY ProbeVisits
  <2>1. CASE ProbeAt(w, k) = Target(u)
    <3>1. slots'[ProbeAt(w, k)].seen = 0
      BY <2>1, <1>4
    <3>2. slots'[ProbeAt(w, l)] \in NeighborEntry
      BY <1>4, <1>5, <2>0
    <3>3. slots'[ProbeAt(w, l)].seen \in Nat
      BY <3>2, TableAssumption DEF NeighborEntry, Age
    <3> QED BY <3>1, <3>3
  <2>2. CASE ProbeAt(w, k) # Target(u) /\ ProbeAt(w, l) = Target(u)
    <3>1. w = u
      BY <2>2, <1>4, <1>5
    <3>2. l = m
      BY <3>1, <2>2, <1>2, <1>3, ProbeVisits
    <3>3. k \in ProbeStops(u)
      BY <3>1, <2>0, <2>2, <1>4, <1>5 DEF ProbeStops
    <3> QED BY <3>2, <3>3, <1>2, <1>5, <1>i
  <2>3. CASE ProbeAt(w, k) # Target(u) /\ ProbeAt(w, l) # Target(u)
    <3>1. slots'[ProbeAt(w, k)] = slots[ProbeAt(w, k)] /\ slots'[ProbeAt(w, l)] = slots[ProbeAt(w, l)]
      BY <2>0, <2>3, <1>4
    <3> QED BY <3>1, <1>5 DEF TableInv, NearerFresher, Holds
  <2> QED BY <2>1, <2>2, <2>3
<1>6. NearerFresher'
  BY <1>5 DEF NearerFresher, Holds, ProbeAt
<1> QED BY <1>3, <1>4, <1>6

\* The entry a beacon leaves.
LEMMA RefreshedEntry ==
    ASSUME NEW e \in NeighborEntry, NEW addr \in Address, NEW seq \in 0 .. SeqMod - 1
    PROVE  /\ Refreshed(e, addr, seq).entry \in NeighborEntry
           /\ Refreshed(e, addr, seq).entry.unit = e.unit
           /\ Refreshed(e, addr, seq).entry.seen = 0
<1>0. 0 \in Age
  BY TableAssumption DEF Age
<1>3. /\ [e EXCEPT !.seen = 0] \in NeighborEntry
      /\ [e EXCEPT !.seen = 0].unit = e.unit
      /\ [e EXCEPT !.seen = 0].seen = 0
  BY <1>0 DEF NeighborEntry
<1>4. PICK s \in 0 .. SeqMod - 1 : s = IF Advanced(seq, e.seq) THEN seq ELSE e.seq
  BY DEF NeighborEntry
<1>5. \/ Refreshed(e, addr, seq).entry = [e EXCEPT !.seen = 0]
      \/ Refreshed(e, addr, seq).entry = [e EXCEPT !.addr = addr, !.flap = 0, !.seen = 0, !.seq = s]
      \/ Refreshed(e, addr, seq).entry = [e EXCEPT !.seen = 0, !.seq = s]
  <2>1. CASE addr # e.addr /\ e.flap < FlapCooldown
    BY <2>1 DEF Refreshed
  <2>2. CASE addr # e.addr /\ ~(e.flap < FlapCooldown)
    BY <2>2, <1>4 DEF Refreshed
  <2>3. CASE addr = e.addr
    BY <2>3, <1>4 DEF Refreshed
  <2> QED BY <2>1, <2>2, <2>3
<1>6. PICK z : z = Refreshed(e, addr, seq).entry
  OBVIOUS
<1>7. CASE z = [e EXCEPT !.seen = 0]
  BY <1>3, <1>6, <1>7
<1>8. CASE z = [e EXCEPT !.addr = addr, !.flap = 0, !.seen = 0, !.seq = s]
  <2>1. z \in NeighborEntry /\ z.unit = e.unit /\ z.seen = 0
    BY <1>0, <1>8 DEF NeighborEntry
  <2> QED BY <1>6, <2>1
<1>9. CASE z = [e EXCEPT !.seen = 0, !.seq = s]
  <2>1. z \in NeighborEntry /\ z.unit = e.unit /\ z.seen = 0
    BY <1>0, <1>9 DEF NeighborEntry
  <2> QED BY <1>6, <2>1
<1> QED BY <1>5, <1>6, <1>7, <1>8, <1>9

\* observe (mesh.rs), whether it refreshes, inserts or finds the table full.
LEMMA ObserveKeeps ==
    ASSUME TableInv, NEW u \in Neighbor, NEW a \in Address, NEW s \in 0 .. SeqMod - 1, NEW skew,
           Observe(u, a, s, skew)
    PROVE  TableInv'
<1>t. slots \in [Index -> NeighborEntry \cup {Vacant}] /\ beaconSeq' = beaconSeq /\ ProbeStops(u) # {}
  BY DEF TableInv, TableTypeOK, Observe
<1>1. CASE slots[Target(u)] = Vacant
  <2> DEFINE e == [unit |-> u, addr |-> a, seq |-> s, seen |-> 0, flap |-> 0]
  <2>1. slots' = [slots EXCEPT ![Target(u)] = e] /\ len' = len + 1 /\ calls' = {a}
    BY <1>1 DEF Observe
  <2>2. e \in NeighborEntry /\ e.unit = u /\ e.seen = 0
    <3>1. 0 \in Age
      BY TableAssumption DEF Age
    <3> QED BY <3>1 DEF NeighborEntry
  <2> HIDE DEF e
  <2>3. /\ Target(u) \in Index /\ slots' \in [Index -> NeighborEntry \cup {Vacant}]
        /\ NearerFresher' /\ slots'[Target(u)] = e
        /\ \A i \in Index : i # Target(u) => slots'[i] = slots[i]
    BY <1>t, <2>1, <2>2, FreshFirst
  <2>4. e # Vacant
    BY <2>2, VacantAssumption
  <2>5. PICK S, T, x : S = Occupied(slots) /\ T = Occupied(slots)' /\ x = Target(u)
    OBVIOUS
  <2>6. T = S \cup {x} /\ x \notin S
    BY <2>3, <2>4, <2>5, <1>1 DEF Occupied
  <2>7. Cardinality(T) = Cardinality(S) + 1
    <3>1. IsFiniteSet(S)
      BY <2>5, Occupying
    <3> QED BY <3>1, <2>6, FS_AddElement
  <2>8. len' = Cardinality(Occupied(slots)')
    BY <2>1, <2>5, <2>7 DEF TableInv
  <2>9. len' \in 0 .. TableCap
    <3>1. PICK t : t = slots'
      OBVIOUS
    <3>2. Cardinality(Occupied(t)) \in 0 .. TableCap /\ Occupied(t) = Occupied(slots)'
      BY <3>1, Occupying DEF Occupied
    <3> QED BY <3>2, <2>8
  <2>10. TableTypeOK'
    BY <1>t, <2>1, <2>3, <2>9 DEF TableTypeOK, TableInv
  <2> QED BY <2>3, <2>8, <2>10 DEF TableInv
<1>2. CASE slots[Target(u)] # Vacant
  <2>0. PICK m : m = Min(ProbeStops(u))
    OBVIOUS
  <2>1. m \in ProbeStops(u) /\ m \in Index /\ Target(u) = ProbeAt(u, m) /\ Target(u) \in Index
    BY <2>0, <1>t, LeastStop, ProbeVisits DEF ProbeStops, Target
  <2>2. PICK x \in NeighborEntry : x = slots[Target(u)]
    BY <2>1, <1>2, <1>t
  <2>3. x.unit = u
    BY <2>1, <2>2, <1>2 DEF ProbeStops
  <2> DEFINE e == Refreshed(x, a, s).entry
  <2>4. e \in NeighborEntry /\ e.unit = u /\ e.seen = 0
    BY <2>3, RefreshedEntry
  <2>5. /\ slots' = [slots EXCEPT ![Target(u)] = e] /\ len' = len
        /\ calls' = IF Refreshed(x, a, s).answer THEN {a} ELSE {}
    BY <1>2, <2>2 DEF Observe
  <2> HIDE DEF e
  <2>6. /\ slots' \in [Index -> NeighborEntry \cup {Vacant}]
        /\ NearerFresher' /\ slots'[Target(u)] = e
        /\ \A i \in Index : i # Target(u) => slots'[i] = slots[i]
    BY <1>t, <2>4, <2>5, FreshFirst
  <2>7. e # Vacant
    BY <2>4, VacantAssumption
  <2>8. Occupied(slots)' = Occupied(slots)
    BY <2>6, <2>7, <1>2 DEF Occupied
  <2>9. TableTypeOK'
    BY <1>t, <2>5, <2>6 DEF TableTypeOK, TableInv
  <2> QED BY <2>5, <2>6, <2>8, <2>9 DEF TableInv
<1> QED BY <1>1, <1>2

\* expire empties slots only.
LEMMA HeartbeatKeeps ==
    ASSUME TableInv, Heartbeat
    PROVE  TableInv'
<1>t. slots \in [Index -> NeighborEntry \cup {Vacant}] /\ beaconSeq \in 0 .. SeqMod - 1
  BY DEF TableInv, TableTypeOK
<1>1. /\ slots' = [i \in Index |-> IF i \in Silent THEN Vacant ELSE slots[i]]
      /\ len' = len - Cardinality(Silent) /\ calls' = Fanout
      /\ beaconSeq' = (beaconSeq + 1) % SeqMod
  BY DEF Heartbeat
<1>2. /\ slots' \in [Index -> NeighborEntry \cup {Vacant}]
      /\ \A i \in Index : slots'[i] # Vacant => slots'[i] = slots[i]
  BY <1>1, <1>t
<1>3. NearerFresher'
  <2>1. ASSUME NEW u \in Neighbor, NEW k \in Index, NEW l \in Index, k < l,
               slots'[ProbeAt(u, k)] # Vacant, slots'[ProbeAt(u, k)].unit = u,
               slots'[ProbeAt(u, l)] # Vacant, slots'[ProbeAt(u, l)].unit = u
        PROVE  slots'[ProbeAt(u, k)].seen <= slots'[ProbeAt(u, l)].seen
    <3>1. ProbeAt(u, k) \in Index /\ ProbeAt(u, l) \in Index
      BY ProbeVisits
    <3>2. slots'[ProbeAt(u, k)] = slots[ProbeAt(u, k)] /\ slots'[ProbeAt(u, l)] = slots[ProbeAt(u, l)]
      BY <2>1, <3>1, <1>2
    <3> QED BY <3>2, <2>1 DEF TableInv, NearerFresher, Holds
  <2> QED BY <2>1 DEF NearerFresher, Holds, ProbeAt
<1>4. PICK S, T, D : S = Occupied(slots) /\ T = Occupied(slots)' /\ D = Silent
  OBVIOUS
<1>5. S = T \cup D /\ T \cap D = {}
  BY <1>1, <1>4 DEF Silent, Occupied
<1>6. IsFiniteSet(S)
  BY <1>4, Occupying
<1>7. T \in SUBSET S /\ D \in SUBSET S
  BY <1>5
<1>8. IsFiniteSet(T) /\ IsFiniteSet(D)
  BY <1>6, <1>7, FS_Subset
<1>9. Cardinality(S) = Cardinality(T) + Cardinality(D)
  BY <1>5, <1>8, DisjointUnion
<1>10. Cardinality(T) \in Nat /\ Cardinality(D) \in Nat
  BY <1>8, FS_CardinalityType
<1>11. len' = Cardinality(Occupied(slots)')
  <2>1. len = Cardinality(S)
    BY <1>4 DEF TableInv
  <2> QED BY <2>1, <1>1, <1>4, <1>9, <1>10
<1>12. len' \in 0 .. TableCap
  <2>1. PICK t : t = slots'
    OBVIOUS
  <2>2. Cardinality(Occupied(t)) \in 0 .. TableCap /\ Occupied(t) = Occupied(slots)'
    BY <2>1, Occupying DEF Occupied
  <2> QED BY <2>2, <1>11
<1>13. calls' \subseteq Address
  <2>1. \A i \in Occupied(slots) : slots[i].addr \in Address
    BY <1>t DEF Occupied, NeighborEntry
  <2> QED BY <2>1, <1>1, TableAssumption DEF Fanout
<1>14. beaconSeq' \in 0 .. SeqMod - 1
  <2>1. PICK n, x : n = SeqMod /\ x = beaconSeq + 1
    OBVIOUS
  <2>2. n \in Nat /\ n > 0 /\ x \in Nat
    BY <2>1, <1>t, TableAssumption
  <2>3. x % n \in 0 .. n - 1
    BY <2>2
  <2> QED BY <2>1, <2>3, <1>1
<1>15. TableTypeOK'
  BY <1>2, <1>12, <1>13, <1>14 DEF TableTypeOK
<1> QED BY <1>3, <1>11, <1>15 DEF TableInv

\* An age grows up to a limit past all that is asked of it.
LEMMA OlderIs ==
    /\ Age \subseteq Nat
    /\ \A x \in Age : Older(x) \in Age
    /\ \A x, y \in Age : x <= y => Older(x) <= Older(y)
<1>1. PICK n : n = (IF Ttl > FlapCooldown THEN Ttl ELSE FlapCooldown) + 1
  OBVIOUS
<1>2. n \in Nat /\ Age = 0 .. n
  BY <1>1, TableAssumption DEF Age
<1>3. Max(Age) = n
  <2>1. n \in Age /\ \A y \in Age : n >= y
    BY <1>2
  <2>2. \A z \in Age : (\A y \in Age : z >= y) => z = n
    BY <1>2
  <2> QED BY <2>1, <2>2 DEF Max
<1> QED BY <1>2, <1>3 DEF Older

\* Time passes for all entries alike.
LEMMA TableTimeKeeps ==
    ASSUME TableInv, TimePasses
    PROVE  TableInv'
<1>t. slots \in [Index -> NeighborEntry \cup {Vacant}]
  BY DEF TableInv, TableTypeOK
<1>1. /\ slots' = [i \in Index |->
           IF slots[i] = Vacant THEN Vacant
           ELSE [slots[i] EXCEPT !.seen = Older(@), !.flap = Older(@)]]
      /\ calls' = {} /\ len' = len /\ beaconSeq' = beaconSeq
  BY DEF TimePasses
<1>2. ASSUME NEW i \in Index
      PROVE  /\ slots[i] = Vacant => slots'[i] = Vacant
             /\ slots[i] # Vacant =>
                   /\ slots'[i] \in NeighborEntry /\ slots'[i] # Vacant /\ slots'[i].unit = slots[i].unit
                   /\ slots[i].seen \in Age /\ slots'[i].seen = Older(slots[i].seen)
  <2>1. CASE slots[i] = Vacant
    BY <1>1, <2>1
  <2>2. CASE slots[i] # Vacant
    <3>1. PICK e \in NeighborEntry : e = slots[i]
      BY <2>2, <1>t
    <3>2. e.seen \in Age /\ e.flap \in Age
      BY DEF NeighborEntry
    <3>3. PICK p \in Age, q \in Age : p = Older(e.seen) /\ q = Older(e.flap)
      BY <3>2, OlderIs
    <3>4. slots'[i] = [e EXCEPT !.seen = p, !.flap = q]
      BY <1>1, <2>2, <3>1, <3>3
    <3>5. PICK z : z = [e EXCEPT !.seen = p, !.flap = q]
      OBVIOUS
    <3>6. z \in NeighborEntry /\ z.unit = e.unit /\ z.seen = p
      BY <3>5 DEF NeighborEntry
    <3>7. z # Vacant
      BY <3>6, VacantAssumption
    <3> QED BY <2>2, <3>1, <3>2, <3>3, <3>4, <3>5, <3>6, <3>7
  <2> QED BY <2>1, <2>2
<1>3. slots' \in [Index -> NeighborEntry \cup {Vacant}]
  <2>1. slots' \in [Index -> {slots'[i] : i \in Index}]
    BY <1>1
  <2> QED BY <2>1, <1>2
<1>4. Occupied(slots)' = Occupied(slots)
  BY <1>2 DEF Occupied
<1>5. NearerFresher'
  <2>1. ASSUME NEW u \in Neighbor, NEW k \in Index, NEW l \in Index, k < l,
               slots'[ProbeAt(u, k)] # Vacant, slots'[ProbeAt(u, k)].unit = u,
               slots'[ProbeAt(u, l)] # Vacant, slots'[ProbeAt(u, l)].unit = u
        PROVE  slots'[ProbeAt(u, k)].seen <= slots'[ProbeAt(u, l)].seen
    <3>0. PICK i \in Index, j \in Index : i = ProbeAt(u, k) /\ j = ProbeAt(u, l)
      BY ProbeVisits
    <3>2. /\ slots[i] # Vacant /\ slots[i].unit = u /\ slots[i].seen \in Age
          /\ slots'[i].seen = Older(slots[i].seen)
          /\ slots[j] # Vacant /\ slots[j].unit = u /\ slots[j].seen \in Age
          /\ slots'[j].seen = Older(slots[j].seen)
      BY <2>1, <3>0, <1>2
    <3>3. slots[i].seen <= slots[j].seen
      BY <3>0, <3>2, <2>1 DEF TableInv, NearerFresher, Holds
    <3> QED BY <3>0, <3>2, <3>3, OlderIs
  <2> QED BY <2>1 DEF NearerFresher, Holds, ProbeAt
<1> QED BY <1>1, <1>3, <1>4, <1>5 DEF TableInv, TableTypeOK

\* For any number of units, table size and place where the probes start: find
\* returns the freshest entry the table has of a unit, although expire leaves
\* stale copies of it further down the chain, and len counts the occupied
\* slots (mesh.rs).
THEOREM FindFreshestAlways == TableSpec => []FindFreshest
<1>1. TableInit => TableInv
  <2> SUFFICES ASSUME TableInit PROVE TableInv
    OBVIOUS
  <2>1. Occupied(slots) = {} /\ Cardinality({}) = 0
    BY FS_EmptySet DEF TableInit, Occupied
  <2>2. TableTypeOK
    BY TableAssumption DEF TableInit, TableTypeOK
  <2>3. NearerFresher
    <3>1. \A u \in Neighbor : \A k \in Index : slots[ProbeAt(u, k)] = Vacant
      BY ProbeVisits DEF TableInit
    <3> QED BY <3>1 DEF NearerFresher, Holds
  <2> QED BY <2>1, <2>2, <2>3 DEF TableInv, TableInit
<1>2. TableInv /\ [TableNext]_tableVars => TableInv'
  <2>1. TableInv /\ UNCHANGED tableVars => TableInv'
    BY DEF TableInv, TableTypeOK, NearerFresher, Holds, ProbeAt, Occupied, tableVars
  <2>2. TableInv /\ TableNext => TableInv'
    BY ObserveKeeps, HeartbeatKeeps, TableTimeKeeps DEF TableNext
  <2> QED BY <2>1, <2>2
<1>3. TableInv => FindFreshest
  <2> SUFFICES ASSUME TableInv, NEW i \in Occupied(slots), Find(slots[i].unit) # Vacant
      PROVE  Find(slots[i].unit).seen <= slots[i].seen
    BY DEF FindFreshest, TableInv
  <2>t. slots \in [Index -> NeighborEntry \cup {Vacant}] /\ i \in Index /\ slots[i] # Vacant /\ Index \subseteq Nat
    BY TableAssumption DEF TableInv, TableTypeOK, Occupied, Index
  <2>1. PICK u \in Neighbor : u = slots[i].unit
    BY <2>t DEF NeighborEntry
  <2>2. ProbeStops(u) # {}
    BY <2>1 DEF Find
  <2>3. PICK m : m = Min(ProbeStops(u))
    OBVIOUS
  <2>4. m \in ProbeStops(u) /\ m \in Index /\ \A k \in ProbeStops(u) : m <= k
    BY <2>2, <2>3, LeastStop DEF ProbeStops
  <2>5. Find(u) = slots[ProbeAt(u, m)] /\ Find(u) # Vacant
    BY <2>1, <2>2, <2>3 DEF Find
  <2>6. Holds(u, m)
    BY <2>4, <2>5 DEF Holds, ProbeStops
  <2>7. PICK k \in Index : ProbeAt(u, k) = i
    BY <2>t, ProbeVisits
  <2>8. Holds(u, k) /\ k \in ProbeStops(u)
    BY <2>1, <2>7, <2>t DEF Holds, ProbeStops
  <2>9. m = k \/ m < k
    BY <2>4, <2>8, <2>t
  <2>10. CASE m = k
    <3>1. slots[i].seen \in Nat
      BY <2>t, TableAssumption DEF NeighborEntry, Age
    <3> QED BY <3>1, <2>1, <2>5, <2>7, <2>10
  <2>11. CASE m < k
    BY <2>1, <2>4, <2>5, <2>6, <2>7, <2>8, <2>11 DEF TableInv, NearerFresher
  <2> QED BY <2>9, <2>10, <2>11
<1> QED BY <1>1, <1>2, <1>3, PTL DEF TableSpec

-----------------------------------------------------------------------------
(* The greatest of a set, and arithmetic.                                  *)

\* A finite set of numbers has a greatest one.
LEMMA FiniteGreatest ==
    ASSUME NEW S, S \subseteq Nat, S # {}, IsFiniteSet(S)
    PROVE  \E x \in S : \A y \in S : y <= x
<1> DEFINE Topped(R) == \E x \in R : \A y \in R : y <= x
           T == {n \in Nat : \E R \in SUBSET S : R # {} /\ Cardinality(R) = n /\ ~Topped(R)}
<1> SUFFICES ASSUME ~Topped(S) PROVE FALSE
  OBVIOUS
<1>1. Cardinality(S) \in Nat
  BY FS_CardinalityType
<1>2. T \subseteq Nat /\ T # {}
  BY <1>1
<1>3. PICK n \in T : \A m \in T : n <= m
  BY <1>2, LeastOf, Zenon
<1>4. PICK R \in SUBSET S : R # {} /\ Cardinality(R) = n /\ ~Topped(R)
  BY <1>3
<1>5. PICK r : r \in R
  BY <1>4
<1>6. IsFiniteSet(R) /\ R \subseteq Nat /\ n \in Nat
  <2>1. IsFiniteSet(R)
    BY FS_Subset
  <2> QED BY <2>1, <1>3
<1>7. IsFiniteSet(R \ {r}) /\ Cardinality(R \ {r}) = n - 1
  BY <1>4, <1>5, <1>6, FS_RemoveElement
<1>8. Cardinality(R \ {r}) \in Nat
  BY <1>7, FS_CardinalityType
<1>9. Topped(R \ {r}) \/ R \ {r} = {}
  <2>1. R \ {r} \in SUBSET S
    OBVIOUS
  <2>2. n - 1 \notin T
    BY <1>3, <1>6
  <2>3. n - 1 \in Nat
    BY <1>7, <1>8
  <2> QED BY <2>1, <2>2, <2>3, <1>7
<1>10. CASE R \ {r} = {}
  <2>1. \A y \in R : y = r
    BY <1>10
  <2>2. r <= r
    BY <1>5, <1>6
  <2>3. Topped(R)
    BY <2>1, <2>2, <1>5
  <2> QED BY <2>3, <1>4
<1>11. CASE Topped(R \ {r})
  <2>1. PICK m \in R \ {r} : \A y \in R \ {r} : y <= m
    BY <1>11
  <2>2. m \in Nat /\ r \in Nat
    BY <2>1, <1>5, <1>6
  <2>3. CASE m <= r
    <3>1. \A y \in R : y <= r
      BY <2>1, <2>2, <2>3, <1>6
    <3> QED BY <3>1, <1>4, <1>5
  <2>4. CASE r <= m
    <3>1. \A y \in R : y <= m
      BY <2>1, <2>2, <2>4, <1>6
    <3> QED BY <3>1, <2>1, <1>4
  <2> QED BY <2>2, <2>3, <2>4
<1> QED BY <1>9, <1>10, <1>11

\* The greatest of a finite set.
LEMMA MaxOf ==
    ASSUME NEW S, S \subseteq Nat, S # {}, IsFiniteSet(S)
    PROVE  Max(S) \in S /\ \A y \in S : y <= Max(S)
<1>1. PICK x \in S : \A y \in S : y <= x
  BY FiniteGreatest
<1>2. \E z \in S : \A y \in S : z >= y
  BY <1>1
<1>3. Max(S) \in S /\ \A y \in S : Max(S) >= y
  BY <1>2 DEF Max
<1> QED BY <1>3

\* Of two numbers.
LEMMA MaxMinOfTwo ==
    ASSUME NEW a \in Nat, NEW b \in Nat
    PROVE  /\ Max({a, b}) = IF a >= b THEN a ELSE b
           /\ Min({a, b}) = IF a <= b THEN a ELSE b
<1> DEFINE x == IF a >= b THEN a ELSE b
           n == IF a <= b THEN a ELSE b
<1>1. x \in {a, b} /\ (\A y \in {a, b} : x >= y) /\ \A z \in {a, b} : (\A y \in {a, b} : z >= y) => z = x
  OBVIOUS
<1>2. n \in {a, b} /\ (\A y \in {a, b} : n <= y) /\ \A z \in {a, b} : (\A y \in {a, b} : z <= y) => z = n
  OBVIOUS
<1> HIDE DEF x, n
<1>3. Max({a, b}) = x
  BY <1>1 DEF Max
<1>4. Min({a, b}) = n
  BY <1>2 DEF Min
<1> QED BY <1>3, <1>4 DEF x, n

\* Division by the ticks of a second, and multiplication of an inequality.
LEMMA Scaled ==
    ASSUME NEW k \in Nat, NEW a \in Nat, NEW b \in Nat, a <= b
    PROVE  k * a <= k * b
<1>1. PICK d \in Nat : b = a + d
  <2>1. b - a \in Nat /\ b = a + (b - a)
    OBVIOUS
  <2> QED BY <2>1
<1>2. k * d \in Nat /\ k * a \in Nat
  OBVIOUS
<1>3. k * b = k * a + k * d
  BY <1>1
<1> QED BY <1>2, <1>3

\* What is left of n after the division by a positive number.
LEMMA DivideBack ==
    ASSUME NEW k \in Nat \ {0}, NEW x \in Nat
    PROVE  x \div k \in Nat /\ k * (x \div k) <= x
<1>1. PICK q, r : q = x \div k /\ r = x % k
  OBVIOUS
<1>2. q \in Nat /\ r \in Nat /\ x = k * q + r
  BY <1>1
<1> QED BY <1>1, <1>2

-----------------------------------------------------------------------------
(* The bandwidth estimator.                                                *)

\* The bucket at capacity c, the largest bucket, the fastest link, and the
\* ticks that carry a byte at one bit per second.
Burst(c) == Max({c \div 8, 1})          \* the bucket at capacity c
Best == Max({Max({c \div 8, 1}) : c \in Capacity})  \* the largest bucket
Fastest == Max(Capacity)
BitTicks == 8 * Second

\* The buckets and rates are at most those of the fastest link.
LEMMA Limits ==
    /\ Best \in Nat /\ Fastest \in Nat /\ BitTicks \in Nat \ {0}
    /\ \A c \in Capacity : c \in Nat /\ Burst(c) \in Nat /\ Burst(c) <= Best /\ c <= Fastest
<1>0. Capacity \subseteq Nat /\ Capacity # {} /\ IsFiniteSet(Capacity) /\ BitTicks \in Nat \ {0}
  BY BackpressureAssumption DEF BitTicks
<1>1. ASSUME NEW c \in Capacity PROVE Burst(c) \in Nat
  <2>1. c \div 8 \in Nat
    BY <1>0
  <2>2. PICK d \in Nat : d = c \div 8
    BY <2>1
  <2>3. Max({d, 1}) \in Nat
    BY MaxMinOfTwo
  <2> QED BY <2>2, <2>3 DEF Burst
<1> DEFINE S == {Burst(c) : c \in Capacity}
           f == [c \in Capacity |-> Burst(c)]
<1>2. f \in Surjection(Capacity, S)
  BY DEF Surjection
<1>3. S \subseteq Nat /\ S # {}
  BY <1>0, <1>1
<1>4. Best = Max(S)
  BY DEF Best, Burst
<1>5. \A c \in Capacity : Burst(c) \in S
  OBVIOUS
<1> HIDE DEF S, f
<1>6. IsFiniteSet(S)
  BY <1>0, <1>2, FS_Surjection
<1>7. Best \in Nat /\ \A y \in S : y <= Best
  BY <1>3, <1>4, <1>6, MaxOf
<1>8. Fastest \in Nat /\ \A c \in Capacity : c <= Fastest
  BY <1>0, MaxOf DEF Fastest
<1> QED BY <1>0, <1>1, <1>5, <1>7, <1>8

\* While the link still owes for a burst, the burst, the credit and what the
\* time since the last refill may still add are together one full bucket.
PressureInv ==
    /\ capacity \in Capacity
    /\ clock \in Nat /\ lastRefill \in Nat /\ lastRefill <= clock
    /\ tokens \in Nat /\ tokens <= Best
    /\ burst \in Nat
    /\ burst = 0 \/ burst + BitTicks * tokens + Fastest * (clock - lastRefill) <= BitTicks * Best

\* admit (backpressure.rs): the refill adds no more than the link carried in
\* the meantime, and what is admitted is taken from the bucket.
LEMMA AdmitKeeps ==
    ASSUME PressureInv, NEW bytes \in Datagram, Admit(bytes)
    PROVE  PressureInv'
<1>1. PICK K, B, C, t, e, c, b, d :
         /\ K = BitTicks /\ B = Best /\ C = Fastest /\ t = tokens /\ e = clock - lastRefill
         /\ c = capacity /\ b = burst /\ d = bytes
  OBVIOUS
<1>2. /\ K \in Nat \ {0} /\ B \in Nat /\ C \in Nat /\ t \in Nat /\ e \in Nat /\ c \in Nat /\ b \in Nat /\ d \in Nat
      /\ c <= C /\ t <= B /\ c \in Capacity
      /\ b = 0 \/ b + K * t + C * e <= K * B
  BY <1>1, Limits, BackpressureAssumption DEF PressureInv
<1>3. PICK g : g = (c * e) \div (8 * Second)
  OBVIOUS
<1>4. g \in Nat /\ K * g <= C * e
  <2>1. PICK x \in Nat : x = c * e
    BY <1>2
  <2>2. g = x \div K
    BY <1>1, <1>3, <2>1 DEF BitTicks
  <2>3. g \in Nat /\ K * g <= x
    BY <1>2, <2>2, DivideBack
  <2>4. e * c <= e * C
    BY <1>2, Scaled
  <2>5. x <= C * e /\ C * e \in Nat
    BY <2>1, <2>4, <1>2
  <2>6. K * g \in Nat
    BY <2>3, <1>2
  <2> QED BY <2>3, <2>5, <2>6
<1>5. PICK s : s = IF g = 0 THEN t ELSE Min({t + g, Burst(c)})
  OBVIOUS
<1>6. s \in Nat /\ s <= t + g /\ s <= B
  <2>1. Burst(c) \in Nat /\ Burst(c) <= B
    BY <1>1, <1>2, Limits
  <2>2. PICK y \in Nat, z \in Nat : y = t + g /\ z = Burst(c)
    BY <2>1, <1>2, <1>4
  <2>3. Min({y, z}) = IF y <= z THEN y ELSE z
    BY MaxMinOfTwo
  <2> QED BY <2>1, <2>2, <2>3, <1>2, <1>4, <1>5
<1>7. Refill.tokens = s /\ Refill.last = clock
  BY <1>1, <1>3, <1>5 DEF Refill, Burst
<1>8. PICK p \in {0, d} : p <= s /\ tokens' = s - p /\ burst' = b + p * 8 * Second
  <2>1. CASE d <= s
    <3>1. tokens' = s - d /\ burst' = b + d * 8 * Second
      BY <2>1, <1>1, <1>7 DEF Admit
    <3> QED BY <2>1, <3>1
  <2>2. CASE ~(d <= s)
    <3>1. tokens' = s - 0 /\ burst' = b + 0
      BY <2>2, <1>1, <1>7 DEF Admit
    <3>2. 0 * 8 * Second = 0 /\ 0 <= s
      BY <1>6, BackpressureAssumption
    <3> QED BY <3>1, <3>2
  <2> QED BY <2>1, <2>2
<1>9. lastRefill' = clock /\ clock' = clock /\ capacity' = capacity
  BY <1>7 DEF Admit
<1>10. p \in Nat /\ p * 8 * Second = K * p
  BY <1>1, <1>2, <1>8, BackpressureAssumption DEF BitTicks
<1>11. tokens' \in Nat /\ tokens' <= B /\ burst' \in Nat
  <2>1. K * p \in Nat
    BY <1>10, <1>2
  <2> QED BY <2>1, <1>2, <1>6, <1>8, <1>10
<1>12. burst' + K * tokens' = b + K * s
  <2>1. PICK v : v = s - p
    OBVIOUS
  <2>2. v \in Nat /\ s = v + p
    BY <2>1, <1>6, <1>8, <1>10
  <2>3. K * s = K * v + K * p
    BY <2>2, <1>2, <1>10
  <2>4. K * v \in Nat /\ K * p \in Nat
    BY <2>2, <1>2, <1>10
  <2>5. tokens' = v /\ burst' = b + K * p
    BY <2>1, <1>8, <1>10
  <2> QED BY <2>3, <2>4, <2>5, <1>2
<1>13. b + K * s <= K * B
  <2>1. CASE b = 0
    <3>1. K * s <= K * B
      BY <1>2, <1>6, Scaled
    <3> QED BY <2>1, <3>1, <1>2, <1>6
  <2>2. CASE b + K * t + C * e <= K * B
    <3>1. PICK w \in Nat : w = t + g
      BY <1>2, <1>4
    <3>2. K * s <= K * w
      BY <3>1, <1>2, <1>6, Scaled
    <3>3. K * w = K * t + K * g
      BY <3>1, <1>2, <1>4
    <3>4. /\ K * s \in Nat /\ K * t \in Nat /\ K * g \in Nat /\ C * e \in Nat /\ K * B \in Nat
      BY <1>2, <1>4, <1>6
    <3> QED BY <3>2, <3>3, <3>4, <2>2, <1>2, <1>4
  <2> QED BY <2>1, <2>2, <1>2
<1>14. burst' + BitTicks * tokens' + Fastest * (clock' - lastRefill') <= BitTicks * Best
  <2>1. clock' - lastRefill' = 0
    BY <1>9 DEF PressureInv
  <2>2. Fastest * (clock' - lastRefill') = 0
    BY <2>1, Limits
  <2>3. K * tokens' \in Nat /\ K * B \in Nat
    <3>1. PICK v \in Nat : v = tokens'
      BY <1>11
    <3>2. K * v \in Nat /\ K * B \in Nat
      BY <1>2
    <3> QED BY <3>1, <3>2
  <2> QED BY <2>2, <2>3, <1>1, <1>11, <1>12, <1>13
<1> QED BY <1>1, <1>9, <1>11, <1>14 DEF PressureInv

\* While time passes the leaky bucket loses what the link carries.
LEMMA PressureTimeKeeps ==
    ASSUME PressureInv, TimeGoes
    PROVE  PressureInv'
<1>1. PICK K, B, C, t, e, b :
         /\ K = BitTicks /\ B = Best /\ C = Fastest /\ t = tokens /\ e = clock - lastRefill /\ b = burst
  OBVIOUS
<1>2. /\ K \in Nat \ {0} /\ B \in Nat /\ C \in Nat /\ t \in Nat /\ e \in Nat /\ b \in Nat
      /\ b = 0 \/ b + K * t + C * e <= K * B
  BY <1>1, Limits DEF PressureInv
<1>3. /\ clock' = clock + 1 /\ burst' = Max({0, b - C}) /\ tokens' = t /\ lastRefill' = lastRefill
      /\ capacity' = capacity
  BY <1>1 DEF TimeGoes, networkVars, Fastest
<1>4. burst' = IF b > C THEN b - C ELSE 0
  <2>1. CASE b >= C
    <3>1. PICK y \in Nat : y = b - C
      BY <1>2, <2>1
    <3>2. Max({0, y}) = IF 0 >= y THEN 0 ELSE y
      BY MaxMinOfTwo
    <3> QED BY <3>1, <3>2, <1>2, <1>3
  <2>2. CASE b < C
    <3>1. b - C < 0 /\ b - C \in Int
      BY <1>2, <2>2
    <3>2. Max({0, b - C}) = 0
      <4>1. PICK y \in Int : y = b - C /\ y < 0
        BY <3>1
      <4>2. 0 \in {0, y} /\ (\A z \in {0, y} : 0 >= z) /\ \A z \in {0, y} : (\A x \in {0, y} : z >= x) => z = 0
        BY <4>1
      <4>3. Max({0, y}) = 0
        BY <4>2 DEF Max
      <4> QED BY <4>1, <4>3
    <3> QED BY <3>2, <2>2, <1>2, <1>3
  <2> QED BY <2>1, <2>2, <1>2
<1>5. burst' = 0 \/ burst' + BitTicks * tokens' + Fastest * (clock' - lastRefill') <= BitTicks * Best
  <2>1. CASE b > C
    <3>1. clock' - lastRefill' = e + 1 /\ C * (e + 1) = C * e + C
      BY <1>1, <1>2, <1>3 DEF PressureInv
    <3>2. b + K * t + C * e <= K * B
      BY <2>1, <1>2
    <3>3. K * t \in Nat /\ C * e \in Nat /\ K * B \in Nat
      BY <1>2
    <3>4. (b - C) + K * t + (C * e + C) <= K * B
      BY <3>2, <3>3, <1>2
    <3> QED BY <2>1, <3>1, <3>4, <1>1, <1>3, <1>4
  <2>2. CASE ~(b > C)
    BY <2>2, <1>4
  <2> QED BY <2>1, <2>2
<1>6. burst' \in Nat
  BY <1>2, <1>4
<1> QED BY <1>1, <1>3, <1>5, <1>6 DEF PressureInv

\* For any set of capacities, datagram sizes and resolution of the clock: what
\* the estimator admits beyond what the best link carries meanwhile is never
\* more than one full bucket, in spite of refills that round, of changes of
\* the capacity and of ticks without a datagram (backpressure.rs).
THEOREM BurstBoundedAlways == PressureSpec => []BurstBounded
<1>1. PressureInit => PressureInv
  BY Limits DEF PressureInit, PressureInv
<1>2. PressureInv /\ [PressureNext]_pressureVars => PressureInv'
  <2> SUFFICES ASSUME PressureInv, [PressureNext]_pressureVars PROVE PressureInv'
    OBVIOUS
  <2>1. ASSUME capacity' \in Capacity, UNCHANGED <<clock, lastRefill, tokens, burst>> PROVE PressureInv'
    BY <2>1 DEF PressureInv
  <2>2. ASSUME NEW bps \in Capacity, SetCapacity(bps) PROVE PressureInv'
    BY <2>1, <2>2 DEF SetCapacity
  <2>3. ASSUME NEW sample \in RttSample, NoteRtt(sample) PROVE PressureInv'
    BY <2>1, <2>3 DEF NoteRtt, PressureInv
  <2>4. CASE NoteSendBlocked
    BY <2>1, <2>4 DEF NoteSendBlocked, PressureInv
  <2>5. CASE GovernorTick \/ LinkChanges
    BY <2>1, <2>5 DEF GovernorTick, LinkChanges, networkVars, PressureInv
  <2>6. CASE UNCHANGED pressureVars
    BY <2>1, <2>6 DEF pressureVars, networkVars, PressureInv
  <2> QED BY <2>2, <2>3, <2>4, <2>5, <2>6, AdmitKeeps, PressureTimeKeeps DEF PressureNext
<1>3. PressureInv => BurstBounded
  <2> SUFFICES ASSUME PressureInv PROVE burst <= Best * 8 * Second
    BY DEF BurstBounded, Best
  <2>1. PICK K, B, x, y : K = BitTicks /\ B = Best /\ x = BitTicks * tokens /\ y = Fastest * (clock - lastRefill)
    OBVIOUS
  <2>2. x \in Nat /\ y \in Nat /\ K \in Nat /\ B \in Nat /\ K * B \in Nat /\ burst \in Nat
    <3>1. clock - lastRefill \in Nat /\ tokens \in Nat /\ burst \in Nat
      BY DEF PressureInv
    <3> QED BY <2>1, <3>1, Limits
  <2>3. burst = 0 \/ burst + x + y <= K * B
    BY <2>1 DEF PressureInv
  <2>4. burst <= K * B
    BY <2>2, <2>3
  <2>5. Best * 8 * Second = K * B
    BY <2>1, <2>2, BackpressureAssumption DEF BitTicks
  <2> QED BY <2>4, <2>5
<1> QED BY <1>1, <1>2, <1>3, PTL DEF PressureSpec

-----------------------------------------------------------------------------
(* The flight recorder.                                                    *)

\* A remainder is what any division leaves.
LEMMA QuotientIs ==
  ASSUME NEW n \in Nat \ {0}, NEW x \in Int, NEW q \in Int, NEW r \in 0 .. n - 1, x = n * q + r
  PROVE  x % n = r /\ x \div n = q
<1>1. PICK p, s : p = x \div n /\ s = x % n
  OBVIOUS
<1>2. p \in Int /\ s \in 0 .. n - 1 /\ x = n * p + s
  BY <1>1
<1>3. p - q \in Int /\ n * (p - q) = r - s
  BY <1>2
<1>4. p - q = 0
  <2>1. CASE p - q >= 1
    <3>1. n * (p - q) >= n BY <1>3, <2>1
    <3> QED BY <1>2, <1>3, <3>1
  <2>2. CASE p - q <= -1
    <3>1. n * (p - q) <= -n BY <1>3, <2>2
    <3> QED BY <1>2, <1>3, <3>1
  <2> QED BY <1>3, <2>1, <2>2
<1> QED BY <1>1, <1>2, <1>3, <1>4

\* What unit p of the file is once w records were taken out of the ring: a unit
\* of one of them, of the end marker behind them, or padding.
ValAt(w, p) ==
    LET e == ((p - 1) \div EntryLen) + 1
        i == ((p - 1) % EntryLen) + 1
    IN  IF e <= w THEN Unit(e, i) ELSE IF e = w + 1 THEN Unit(EndMark, i) ELSE Pad

\* The place of unit i of entry e.
Place(e, i) == EntryLen * (e - 1) + i

\* Every unit of the file is one of some entry.
LEMMA PlaceOf ==
  ASSUME NEW p \in Nat \ {0}
  PROVE  \E e \in Nat \ {0}, i \in 1 .. EntryLen : p = Place(e, i)
<1>1. PICK n : n = EntryLen
  OBVIOUS
<1>2. n \in Nat \ {0}
  BY <1>1, RecorderAssumption
<1>3. PICK q, r : q = (p - 1) \div n /\ r = (p - 1) % n
  OBVIOUS
<1>4. q \in Int /\ r \in 0 .. n - 1 /\ p - 1 = n * q + r
  BY <1>2, <1>3
<1>5. q >= 0
  <2> SUFFICES ASSUME q <= -1 PROVE FALSE
    BY <1>4
  <2>1. n * q <= -n
    BY <1>2, <1>4
  <2> QED BY <1>2, <1>4, <2>1
<1>6. q + 1 \in Nat \ {0} /\ r + 1 \in 1 .. n /\ p = n * ((q + 1) - 1) + (r + 1)
  BY <1>2, <1>4, <1>5
<1> QED BY <1>1, <1>6 DEF Place

\* What the file has at such a place.
LEMMA ValOfPlace ==
  ASSUME NEW w \in Nat, NEW e \in Nat \ {0}, NEW i \in 1 .. EntryLen
  PROVE  /\ Place(e, i) \in Nat \ {0}
         /\ ValAt(w, Place(e, i)) = IF e <= w THEN Unit(e, i)
                                    ELSE IF e = w + 1 THEN Unit(EndMark, i) ELSE Pad
<1>1. PICK n, p : n = EntryLen /\ p = EntryLen * (e - 1) + i
  OBVIOUS
<1>2. n \in Nat \ {0} /\ i \in 1 .. n
  BY <1>1, RecorderAssumption
<1>3. e - 1 \in Nat /\ i - 1 \in 0 .. n - 1
  BY <1>2
<1>4. p \in Nat /\ p >= 1 /\ p - 1 \in Int /\ p - 1 = n * (e - 1) + (i - 1)
  <2>1. n * (e - 1) \in Nat
    BY <1>2, <1>3
  <2>2. p = n * (e - 1) + i
    BY <1>1
  <2> QED BY <1>2, <2>1, <2>2
<1>5. (p - 1) % n = i - 1 /\ (p - 1) \div n = e - 1
  <2>1. PICK x, q, r : x = p - 1 /\ q = e - 1 /\ r = i - 1
    OBVIOUS
  <2>2. x \in Int /\ q \in Int /\ r \in 0 .. n - 1 /\ x = n * q + r
    BY <1>3, <1>4, <2>1
  <2>3. x % n = r /\ x \div n = q
    BY <1>2, <2>2, QuotientIs
  <2> QED BY <2>1, <2>3
<1>6. ((p - 1) \div n) + 1 = e /\ ((p - 1) % n) + 1 = i
  <2>1. (e - 1) + 1 = e /\ (i - 1) + 1 = i
    BY <1>2
  <2> QED BY <1>5, <2>1, Zenon
<1> QED BY <1>1, <1>4, <1>6 DEF ValAt, Place

\* The places of an entry are those behind the entries before it.
LEMMA PlaceBounds ==
  ASSUME NEW w \in Nat, NEW e \in Nat \ {0}, NEW i \in 1 .. EntryLen
  PROVE  /\ e <= w <=> Place(e, i) <= EntryLen * w
         /\ EntryLen * w \in Nat /\ EntryLen * (w + 1) = EntryLen * w + EntryLen
<1>1. PICK n, p : n = EntryLen /\ p = EntryLen * (e - 1) + i
  OBVIOUS
<1>2. n \in Nat \ {0} /\ i \in 1 .. n /\ n * w \in Nat /\ n * (w + 1) = n * w + n
  BY <1>1, RecorderAssumption
<1>3. p = n * (e - 1) + i /\ n * (e - 1) \in Nat
  BY <1>1, <1>2
<1>4. e <= w => p <= n * w
  <2> SUFFICES ASSUME e <= w PROVE p <= n * w
    OBVIOUS
  <2>1. w - e \in Nat /\ n * (w - e) \in Nat
    BY <1>2
  <2>2. n * w = n * (w - e) + n * (e - 1) + n
    BY <1>2
  <2> QED BY <1>2, <1>3, <2>1, <2>2
<1>5. e > w => p > n * w
  <2> SUFFICES ASSUME e > w PROVE p > n * w
    OBVIOUS
  <2>1. (e - 1) - w \in Nat /\ n * ((e - 1) - w) \in Nat
    BY <1>2
  <2>2. n * (e - 1) = n * ((e - 1) - w) + n * w
    BY <1>2
  <2> QED BY <1>2, <1>3, <2>1, <2>2
<1> QED BY <1>1, <1>2, <1>3, <1>4, <1>5 DEF Place

\* What is in the file stays as it is when a further record is taken.
LEMMA ValGrows ==
  ASSUME NEW w \in Nat, NEW p \in 1 .. EntryLen * w
  PROVE  ValAt(w + 1, p) = ValAt(w, p)
<1>0. EntryLen * w \in Nat
  BY RecorderAssumption
<1>1. PICK e \in Nat \ {0}, i \in 1 .. EntryLen : p = Place(e, i)
  <2>1. p \in Nat \ {0}
    BY <1>0
  <2> QED BY <2>1, PlaceOf
<1>2. e <= w
  <2>1. p <= EntryLen * w
    BY <1>0
  <2> QED BY <1>1, <2>1, PlaceBounds
<1>3. e <= w + 1 /\ w + 1 \in Nat
  BY <1>2
<1> QED BY <1>1, <1>2, <1>3, ValOfPlace

\* Behind the end marker there is padding.
LEMMA ValPadding ==
  ASSUME NEW w \in Nat, NEW p \in Nat, p > EntryLen * (w + 1)
  PROVE  ValAt(w, p) = Pad
<1>0. EntryLen * (w + 1) \in Nat /\ w + 1 \in Nat
  BY RecorderAssumption
<1>1. PICK e \in Nat \ {0}, i \in 1 .. EntryLen : p = Place(e, i)
  <2>1. p \in Nat \ {0}
    BY <1>0
  <2> QED BY <2>1, PlaceOf
<1>2. ~(e <= w + 1)
  <2>1. ~(p <= EntryLen * (w + 1))
    BY <1>0
  <2> QED BY <1>0, <1>1, <2>1, PlaceBounds
<1>3. ~(e <= w) /\ e # w + 1
  BY <1>2
<1> QED BY <1>1, <1>3, ValOfPlace

AnyUnit == [record : Nat, part : Nat]

\* The records taken out of the ring.
Taken == accepted - Len(recRing)

RecTypes ==
    /\ accepted \in Nat /\ recRing \in Seq(Nat) /\ Len(recRing) <= accepted
    /\ staging \in Seq(AnyUnit) /\ disk \in Seq(AnyUnit)
    /\ Len(staging) < SectorLen
    /\ wpc \in {"drain", "check", "end", "flush", "done", "failed"}

\* The ring has the records that follow, in order.
RingIs == \A k \in 1 .. Len(recRing) : recRing[k] = Taken + k

\* The units b are those that follow the first n.
Follows(w, n, b) == \A q \in 1 .. Len(b) : b[q] = ValAt(w, n + q)

\* The file, and what is staged behind it, once w records were taken.
FileIs(w) ==
    /\ Follows(w, 0, disk)
    /\ wpc \in {"drain", "check", "end", "flush"} => Follows(w, Len(disk), staging)
    /\ wpc \in {"drain", "check", "end"} => Len(disk) + Len(staging) = EntryLen * w
    /\ wpc = "flush" => Len(disk) + Len(staging) = EntryLen * (w + 1)
    /\ wpc = "done" => Len(disk) >= EntryLen * (w + 1)

RecInv == RecTypes /\ RingIs /\ FileIs(Taken)

\* Whole sectors of a buffer leave less than a sector.
LEMMA WholeLeaves ==
  ASSUME NEW b \in Seq(AnyUnit)
  PROVE  Whole(b) \in 0 .. Len(b) /\ Len(b) - Whole(b) < SectorLen
<1>1. PICK n, s, q, r : n = Len(b) /\ s = SectorLen /\ q = Len(b) \div SectorLen /\ r = Len(b) % SectorLen
  OBVIOUS
<1>2. n \in Nat /\ s \in Nat \ {0}
  BY <1>1, RecorderAssumption
<1>3. q \in Int /\ r \in 0 .. s - 1 /\ n = s * q + r
  BY <1>1, <1>2
<1>4. q >= 0
  <2> SUFFICES ASSUME q <= -1 PROVE FALSE
    BY <1>3
  <2>1. s * q <= -s
    BY <1>2, <1>3
  <2> QED BY <1>2, <1>3, <2>1
<1>5. q * s = s * q /\ s * q \in Nat
  BY <1>2, <1>3, <1>4
<1>6. q * s \in 0 .. n /\ n - q * s < s
  BY <1>2, <1>3, <1>5
<1> QED BY <1>1, <1>6 DEF Whole

\* Of two buffers that follow each other, the two as one, and the reverse.
LEMMA FollowsBoth ==
  ASSUME NEW w \in Nat, NEW n \in Nat, NEW a \in Seq(AnyUnit), NEW b \in Seq(AnyUnit),
         Follows(w, n, a), Follows(w, n + Len(a), b)
  PROVE  a \o b \in Seq(AnyUnit) /\ Len(a \o b) = Len(a) + Len(b) /\ Follows(w, n, a \o b)
<1>1. PICK l, m, c : l = Len(a) /\ m = Len(b) /\ c = a \o b
  OBVIOUS
<1>2. l \in Nat /\ m \in Nat
  BY <1>1
<1>3. /\ c \in Seq(AnyUnit) /\ Len(c) = l + m
      /\ \A q \in 1 .. l : c[q] = a[q]
      /\ \A q \in 1 .. m : c[l + q] = b[q]
  BY <1>1
<1>4. ASSUME NEW q \in 1 .. l + m
      PROVE  c[q] = ValAt(w, n + q)
  <2>1. CASE q <= l
    <3>1. q \in 1 .. l
      BY <1>2, <2>1
    <3>2. c[q] = a[q] /\ a[q] = ValAt(w, n + q)
      BY <1>1, <1>3, <1>4, <3>1, Zenon DEF Follows
    <3> QED BY <3>2
  <2>2. CASE q > l
    <3>1. PICK r : r = q - l
      OBVIOUS
    <3>2. r \in 1 .. m /\ l + r = q /\ (n + l) + r = n + q
      BY <1>2, <2>2, <3>1
    <3>3. c[l + r] = b[r] /\ b[r] = ValAt(w, (n + l) + r)
      BY <1>1, <1>3, <1>4, <3>2, Zenon DEF Follows
    <3> QED BY <3>2, <3>3
  <2>3. q <= l \/ q > l
    BY <1>2
  <2> QED BY <2>1, <2>2, <2>3, Zenon
<1>5. Follows(w, n, c)
  BY <1>3, <1>4, Zenon DEF Follows
<1> QED BY <1>1, <1>3, <1>5

\* A buffer cut in two.
LEMMA FollowsCut ==
  ASSUME NEW w \in Nat, NEW n \in Nat, NEW b \in Seq(AnyUnit), NEW k \in 0 .. Len(b),
         Follows(w, n, b)
  PROVE  /\ SubSeq(b, 1, k) \in Seq(AnyUnit) /\ Len(SubSeq(b, 1, k)) = k
         /\ Follows(w, n, SubSeq(b, 1, k))
         /\ SubSeq(b, k + 1, Len(b)) \in Seq(AnyUnit)
         /\ Len(SubSeq(b, k + 1, Len(b))) = Len(b) - k
         /\ Follows(w, n + k, SubSeq(b, k + 1, Len(b)))
<1>1. PICK m, f, s : m = Len(b) /\ f = SubSeq(b, 1, k) /\ s = SubSeq(b, k + 1, Len(b))
  OBVIOUS
<1>2. m \in Nat /\ k \in Nat /\ k <= m
  BY <1>1
<1>3. f \in Seq(AnyUnit) /\ Len(f) = k /\ \A q \in 1 .. k : f[q] = b[q]
  BY <1>1, <1>2
<1>4. s \in Seq(AnyUnit) /\ Len(s) = m - k /\ \A q \in 1 .. m - k : s[q] = b[k + q]
  BY <1>1, <1>2
<1>5. Follows(w, n, f)
  <2> SUFFICES ASSUME NEW q \in 1 .. k PROVE f[q] = ValAt(w, n + q)
    BY <1>3, Zenon DEF Follows
  <2>1. q \in 1 .. m
    BY <1>2
  <2>2. b[q] = ValAt(w, n + q)
    BY <1>1, <2>1, Zenon DEF Follows
  <2> QED BY <1>3, <2>2, Zenon
<1>6. Follows(w, n + k, s)
  <2> SUFFICES ASSUME NEW q \in 1 .. m - k PROVE s[q] = ValAt(w, (n + k) + q)
    BY <1>4, Zenon DEF Follows
  <2>1. k + q \in 1 .. m /\ n + (k + q) = (n + k) + q
    BY <1>2
  <2>2. b[k + q] = ValAt(w, n + (k + q))
    BY <1>1, <2>1, Zenon DEF Follows
  <2>3. s[q] = b[k + q]
    BY <1>4, Zenon
  <2> QED BY <2>1, <2>2, <2>3, Zenon
<1> QED BY <1>1, <1>3, <1>4, <1>5, <1>6

\* What is staged and then data, written behind the file.
LEMMA FileWriting ==
  ASSUME RecTypes, NEW w \in Nat, NEW data \in Seq(AnyUnit),
         Follows(w, 0, disk), Follows(w, Len(disk), staging),
         Follows(w, Len(disk) + Len(staging), data)
  PROVE  /\ FileWrite(data) =>
              /\ disk' \in Seq(AnyUnit) /\ staging' \in Seq(AnyUnit) /\ Len(staging') < SectorLen
              /\ Len(disk') + Len(staging') = (Len(disk) + Len(staging)) + Len(data)
              /\ Follows(w, 0, disk') /\ Follows(w, Len(disk'), staging')
         /\ FileFail(staging \o data) =>
              /\ disk' \in Seq(AnyUnit) /\ staging' = staging /\ wpc' = "failed"
              /\ Follows(w, 0, disk')
<1>1. PICK b, l, m, n : b = staging \o data /\ l = Len(disk) /\ m = Len(staging) /\ n = Len(data)
  OBVIOUS
<1>2. l \in Nat /\ m \in Nat /\ n \in Nat /\ disk \in Seq(AnyUnit) /\ staging \in Seq(AnyUnit)
  BY <1>1 DEF RecTypes
<1>3. b \in Seq(AnyUnit) /\ Len(b) = m + n /\ Follows(w, l, b)
  <2>1. Follows(w, l, staging) /\ Follows(w, l + Len(staging), data)
    BY <1>1
  <2>2. /\ staging \o data \in Seq(AnyUnit) /\ Len(staging \o data) = Len(staging) + Len(data)
        /\ Follows(w, l, staging \o data)
    BY <1>2, <2>1, FollowsBoth, Zenon
  <2> QED BY <1>1, <2>2, Zenon
<1>4. ASSUME NEW k \in 0 .. Len(b), NEW e, NEW s,
             e = disk \o SubSeq(b, 1, k), s = SubSeq(b, k + 1, Len(b))
      PROVE  /\ e \in Seq(AnyUnit) /\ Len(e) = l + k /\ Follows(w, 0, e)
             /\ s \in Seq(AnyUnit) /\ Len(s) = (m + n) - k /\ Follows(w, Len(e), s)
  <2>1. PICK f : f = SubSeq(b, 1, k)
    OBVIOUS
  <2>2. /\ f \in Seq(AnyUnit) /\ Len(f) = k /\ Follows(w, l, f)
        /\ s \in Seq(AnyUnit) /\ Len(s) = Len(b) - k /\ Follows(w, l + k, s)
    <3>1. /\ SubSeq(b, 1, k) \in Seq(AnyUnit) /\ Len(SubSeq(b, 1, k)) = k
          /\ Follows(w, l, SubSeq(b, 1, k))
          /\ SubSeq(b, k + 1, Len(b)) \in Seq(AnyUnit)
          /\ Len(SubSeq(b, k + 1, Len(b))) = Len(b) - k
          /\ Follows(w, l + k, SubSeq(b, k + 1, Len(b)))
      BY <1>2, <1>3, FollowsCut, Zenon
    <3> QED BY <1>4, <2>1, <3>1, Zenon
  <2>3. e = disk \o f /\ 0 \in Nat /\ 0 + Len(disk) = l
    BY <1>1, <1>2, <1>4, <2>1
  <2>4. Follows(w, 0, disk) /\ Follows(w, 0 + Len(disk), f)
    BY <2>2, <2>3
  <2>5. e \in Seq(AnyUnit) /\ Len(e) = Len(disk) + Len(f) /\ Follows(w, 0, e)
    <3>1. /\ disk \o f \in Seq(AnyUnit) /\ Len(disk \o f) = Len(disk) + Len(f)
          /\ Follows(w, 0, disk \o f)
      BY <1>2, <2>2, <2>3, <2>4, FollowsBoth, Zenon
    <3> QED BY <2>3, <3>1, Zenon
  <2>6. Len(e) = l + k /\ Len(s) = (m + n) - k
    BY <1>1, <1>3, <2>2, <2>5
  <2> QED BY <2>2, <2>5, <2>6
<1>5. PICK k : k = Whole(b)
  OBVIOUS
<1>6. k \in 0 .. Len(b) /\ Len(b) - k < SectorLen /\ Len(b) \in Nat /\ SectorLen \in Nat
  BY <1>3, <1>5, WholeLeaves, RecorderAssumption
<1>7. ASSUME FileWrite(data)
      PROVE  /\ disk' \in Seq(AnyUnit) /\ staging' \in Seq(AnyUnit) /\ Len(staging') < SectorLen
             /\ Len(disk') + Len(staging') = (Len(disk) + Len(staging)) + Len(data)
             /\ Follows(w, 0, disk') /\ Follows(w, Len(disk'), staging')
  <2>1. disk' = disk \o SubSeq(b, 1, k) /\ staging' = SubSeq(b, k + 1, Len(b))
    BY <1>1, <1>5, <1>7 DEF FileWrite
  <2>2. PICK e, s : e = disk' /\ s = staging'
    OBVIOUS
  <2>3. e = disk \o SubSeq(b, 1, k) /\ s = SubSeq(b, k + 1, Len(b))
    BY <2>1, <2>2
  <2>4. /\ e \in Seq(AnyUnit) /\ Len(e) = l + k /\ Follows(w, 0, e)
        /\ s \in Seq(AnyUnit) /\ Len(s) = (m + n) - k /\ Follows(w, Len(e), s)
    BY <1>4, <1>6, <2>3
  <2>5. (l + k) + ((m + n) - k) = (l + m) + n /\ (m + n) - k < SectorLen
    BY <1>2, <1>3, <1>6
  <2> QED BY <1>1, <2>2, <2>4, <2>5
<1>8. ASSUME FileFail(b)
      PROVE  /\ disk' \in Seq(AnyUnit) /\ staging' = staging /\ wpc' = "failed"
             /\ Follows(w, 0, disk')
  <2>1. PICK j \in 0 .. k - 1 : disk' = disk \o SubSeq(b, 1, j)
    BY <1>5, <1>8 DEF FileFail
  <2>2. j \in 0 .. Len(b)
    BY <1>6
  <2>3. PICK e, s : e = disk' /\ s = SubSeq(b, j + 1, Len(b))
    OBVIOUS
  <2>4. e \in Seq(AnyUnit) /\ Follows(w, 0, e)
    BY <1>4, <2>1, <2>2, <2>3
  <2> QED BY <1>8, <2>3, <2>4 DEF FileFail
<1> QED BY <1>1, <1>7, <1>8

LEMMA EntryIs ==
  ASSUME NEW r \in Nat
  PROVE  /\ Entry(r) \in Seq(AnyUnit) /\ Len(Entry(r)) = EntryLen
         /\ \A i \in 1 .. EntryLen : Entry(r)[i] = Unit(r, i)
<1>1. EntryLen \in Nat
  BY RecorderAssumption
<1>2. \A i \in 1 .. EntryLen : Unit(r, i) \in AnyUnit
  BY <1>1 DEF Unit, AnyUnit
<1>3. Entry(r) \in [1 .. EntryLen -> AnyUnit]
  BY <1>2 DEF Entry
<1> QED BY <1>1, <1>3 DEF Entry

\* Taking a further record leaves what follows of the records before.
LEMMA FollowsGrows ==
  ASSUME NEW w \in Nat, NEW n \in Nat, NEW b \in Seq(AnyUnit),
         n + Len(b) <= EntryLen * w, Follows(w, n, b)
  PROVE  Follows(w + 1, n, b)
<1>1. PICK l, x : l = Len(b) /\ x = EntryLen * w
  OBVIOUS
<1>2. l \in Nat /\ x \in Nat /\ n + l <= x
  BY <1>1, RecorderAssumption
<1> SUFFICES ASSUME NEW q \in 1 .. l PROVE b[q] = ValAt(w + 1, n + q)
  BY <1>1, Zenon DEF Follows
<1>3. n + q \in 1 .. x
  BY <1>2
<1>4. ValAt(w + 1, n + q) = ValAt(w, n + q)
  BY <1>1, <1>3, ValGrows, Zenon
<1>5. b[q] = ValAt(w, n + q)
  BY <1>1, Zenon DEF Follows
<1> QED BY <1>4, <1>5, Zenon

\* The entry that is written behind the first w entries, of v taken.
LEMMA EntryFollows ==
  ASSUME NEW v \in Nat, NEW w \in Nat, NEW r \in Nat,
         \/ v = w + 1 /\ r = w + 1
         \/ v = w /\ r = EndMark
  PROVE  Follows(v, EntryLen * w, Entry(r))
<1>1. PICK data, n : data = Entry(r) /\ n = EntryLen
  OBVIOUS
<1>2. n \in Nat \ {0} /\ Len(data) = n /\ \A i \in 1 .. n : data[i] = Unit(r, i)
  BY <1>1, EntryIs, RecorderAssumption
<1> SUFFICES ASSUME NEW q \in 1 .. n PROVE data[q] = ValAt(v, n * w + q)
  BY <1>1, <1>2, Zenon DEF Follows
<1>3. PICK e : e = w + 1
  OBVIOUS
<1>4. e \in Nat \ {0} /\ e - 1 = w
  BY <1>3
<1>5. Place(e, q) = n * w + q
  BY <1>1, <1>4 DEF Place
<1>6. ValAt(v, Place(e, q)) = IF e <= v THEN Unit(e, q) ELSE IF e = v + 1 THEN Unit(EndMark, q) ELSE Pad
  BY <1>1, <1>4, ValOfPlace
<1>7. \/ e <= v /\ e = r
      \/ ~(e <= v) /\ e = v + 1 /\ r = EndMark
  BY <1>3
<1> QED BY <1>2, <1>5, <1>6, <1>7

LEMMA RecInvInit == RecInit => RecInv
<1> SUFFICES ASSUME RecInit PROVE RecInv
  OBVIOUS
<1>1. << >> \in Seq(Nat) /\ << >> \in Seq(AnyUnit) /\ Len(<< >>) = 0
  OBVIOUS
<1>2. Taken = 0 /\ EntryLen * 0 = 0
  <2>1. accepted = 0 /\ Len(recRing) = 0
    BY <1>1 DEF RecInit
  <2>2. EntryLen * 0 = 0
    BY RecorderAssumption
  <2> QED BY <2>1, <2>2 DEF Taken
<1>3. RecTypes
  BY <1>1, RecorderAssumption DEF RecInit, RecTypes
<1> QED BY <1>1, <1>2, <1>3 DEF RecInit, RecInv, RingIs, FileIs, Follows

LEMMA PopKeeps ==
  ASSUME RecInv, DrainPop
  PROVE  RecInv'
<1>t. /\ accepted \in Nat /\ recRing \in Seq(Nat) /\ recRing # << >> /\ Len(recRing) <= accepted
      /\ wpc = "drain" /\ accepted' = accepted /\ recRing' = Tail(recRing)
  BY DEF RecInv, RecTypes, DrainPop
<1>1. PICK w, v : w = Taken /\ v = Taken + 1
  OBVIOUS
<1>2. Len(recRing) \in Nat /\ Len(recRing) >= 1 /\ Head(recRing) = recRing[1]
  BY <1>t
<1>3. w \in Nat /\ v \in Nat /\ v = w + 1 /\ Head(recRing) = v
  <2>1. 1 \in 1 .. Len(recRing)
    BY <1>2
  <2>2. recRing[1] = w + 1
    BY <1>1, <2>1 DEF RecInv, RingIs
  <2> QED BY <1>t, <1>1, <1>2, <2>2 DEF Taken
<1>4. /\ Tail(recRing) \in Seq(Nat) /\ Len(Tail(recRing)) = Len(recRing) - 1
      /\ \A k \in 1 .. Len(recRing) - 1 : Tail(recRing)[k] = recRing[k + 1]
  BY <1>t
<1>5. Taken' = v
  BY <1>t, <1>1, <1>2, <1>4 DEF Taken
<1>6. RingIs'
  <2> SUFFICES ASSUME NEW k \in 1 .. Len(recRing) - 1 PROVE recRing'[k] = v + k
    BY <1>t, <1>4, <1>5 DEF RingIs
  <2>1. k + 1 \in 1 .. Len(recRing)
    BY <1>2
  <2>2. recRing[k + 1] = w + (k + 1)
    BY <1>1, <2>1 DEF RecInv, RingIs
  <2> QED BY <1>t, <1>3, <1>4, <2>2
<1>7. /\ Follows(w, 0, disk) /\ Follows(w, Len(disk), staging)
      /\ disk \in Seq(AnyUnit) /\ staging \in Seq(AnyUnit)
      /\ Len(disk) + Len(staging) = EntryLen * w /\ Len(disk) \in Nat /\ Len(staging) \in Nat
  BY <1>t, <1>1 DEF RecInv, RecTypes, FileIs
<1>8. Follows(v, 0, disk) /\ Follows(v, Len(disk), staging)
  <2>1. 0 + Len(disk) <= EntryLen * w /\ Len(disk) + Len(staging) <= EntryLen * w
    BY <1>7
  <2> QED BY <1>3, <1>7, <2>1, FollowsGrows
<1>9. PICK data : data = Entry(v)
  OBVIOUS
<1>10. data \in Seq(AnyUnit) /\ Len(data) = EntryLen /\ Follows(v, Len(disk) + Len(staging), data)
  BY <1>3, <1>7, <1>9, EntryIs, EntryFollows
<1>11. EntryLen * v = EntryLen * w + EntryLen
  BY <1>3, RecorderAssumption
<1>w. /\ FileWrite(data) =>
            /\ disk' \in Seq(AnyUnit) /\ staging' \in Seq(AnyUnit) /\ Len(staging') < SectorLen
            /\ Len(disk') + Len(staging') = (Len(disk) + Len(staging)) + Len(data)
            /\ Follows(v, 0, disk') /\ Follows(v, Len(disk'), staging')
      /\ FileFail(staging \o data) =>
            /\ disk' \in Seq(AnyUnit) /\ staging' = staging /\ wpc' = "failed"
            /\ Follows(v, 0, disk')
  <2>1. RecTypes
    BY DEF RecInv
  <2> QED BY <1>3, <1>8, <1>10, <2>1, FileWriting
<1>12. CASE FileWrite(data) /\ wpc' = wpc
  <2>1. RecTypes'
    BY <1>t, <1>w, <1>2, <1>4, <1>12 DEF RecTypes
  <2>2. FileIs(v)'
    BY <1>t, <1>w, <1>7, <1>10, <1>11, <1>12 DEF FileIs
  <2> QED BY <1>5, <1>6, <2>1, <2>2 DEF RecInv
<1>13. CASE FileFail(staging \o data)
  <2>1. RecTypes'
    BY <1>t, <1>w, <1>2, <1>4, <1>13 DEF RecTypes, RecInv
  <2>2. FileIs(v)'
    BY <1>w, <1>13 DEF FileIs
  <2> QED BY <1>5, <1>6, <2>1, <2>2 DEF RecInv
<1> QED BY <1>3, <1>9, <1>12, <1>13 DEF DrainPop

\* The end marker is the entry behind the records that were taken.
LEMMA EndKeeps ==
  ASSUME RecInv, WriteEnd
  PROVE  RecInv'
<1>t. /\ accepted \in Nat /\ recRing \in Seq(Nat) /\ Len(recRing) <= accepted /\ Len(recRing) \in Nat
      /\ wpc = "end" /\ accepted' = accepted /\ recRing' = recRing
  BY DEF RecInv, RecTypes, WriteEnd
<1>1. PICK w : w = Taken
  OBVIOUS
<1>2. w \in Nat /\ Taken' = w /\ RingIs'
  BY <1>t, <1>1 DEF Taken, RecInv, RingIs
<1>3. /\ Follows(w, 0, disk) /\ Follows(w, Len(disk), staging)
      /\ disk \in Seq(AnyUnit) /\ staging \in Seq(AnyUnit)
      /\ Len(disk) + Len(staging) = EntryLen * w /\ Len(disk) \in Nat /\ Len(staging) \in Nat
  BY <1>t, <1>1 DEF RecInv, RecTypes, FileIs
<1>4. PICK data : data = Entry(EndMark)
  OBVIOUS
<1>5. data \in Seq(AnyUnit) /\ Len(data) = EntryLen /\ Follows(w, Len(disk) + Len(staging), data)
  <2>1. EndMark \in Nat
    BY DEF EndMark
  <2> QED BY <1>2, <1>3, <1>4, <2>1, EntryIs, EntryFollows
<1>6. EntryLen * (w + 1) = EntryLen * w + EntryLen
  BY <1>2, RecorderAssumption
<1>w. /\ FileWrite(data) =>
            /\ disk' \in Seq(AnyUnit) /\ staging' \in Seq(AnyUnit) /\ Len(staging') < SectorLen
            /\ Len(disk') + Len(staging') = (Len(disk) + Len(staging)) + Len(data)
            /\ Follows(w, 0, disk') /\ Follows(w, Len(disk'), staging')
      /\ FileFail(staging \o data) =>
            /\ disk' \in Seq(AnyUnit) /\ staging' = staging /\ wpc' = "failed"
            /\ Follows(w, 0, disk')
  <2>1. RecTypes
    BY DEF RecInv
  <2> QED BY <1>2, <1>3, <1>5, <2>1, FileWriting
<1>7. CASE FileWrite(data) /\ wpc' = "flush"
  <2>1. RecTypes'
    BY <1>t, <1>w, <1>7 DEF RecTypes
  <2>2. FileIs(w)'
    BY <1>t, <1>w, <1>3, <1>5, <1>6, <1>7 DEF FileIs
  <2> QED BY <1>2, <2>1, <2>2 DEF RecInv
<1>8. CASE FileFail(staging \o data)
  <2>1. RecTypes'
    BY <1>t, <1>w, <1>8 DEF RecTypes, RecInv
  <2>2. FileIs(w)'
    BY <1>w, <1>8 DEF FileIs
  <2> QED BY <1>2, <2>1, <2>2 DEF RecInv
<1> QED BY <1>4, <1>7, <1>8 DEF WriteEnd

\* The padding of the last sector is what follows the end marker.
LEMMA FlushKeeps ==
  ASSUME RecInv, Flush
  PROVE  RecInv'
<1>t. /\ accepted \in Nat /\ recRing \in Seq(Nat) /\ Len(recRing) <= accepted /\ Len(recRing) \in Nat
      /\ wpc = "flush" /\ accepted' = accepted /\ recRing' = recRing
  BY DEF RecInv, RecTypes, Flush
<1>1. PICK w : w = Taken
  OBVIOUS
<1>2. w \in Nat /\ Taken' = w /\ RingIs'
  BY <1>t, <1>1 DEF Taken, RecInv, RingIs
<1>3. /\ Follows(w, 0, disk) /\ Follows(w, Len(disk), staging)
      /\ disk \in Seq(AnyUnit) /\ staging \in Seq(AnyUnit) /\ Len(staging) < SectorLen
      /\ Len(disk) + Len(staging) = EntryLen * (w + 1) /\ Len(disk) \in Nat /\ Len(staging) \in Nat
  BY <1>t, <1>1 DEF RecInv, RecTypes, FileIs
<1>4. PICK m, pads : m = SectorLen - Len(staging) /\ pads = [i \in 1 .. SectorLen - Len(staging) |-> Pad]
  OBVIOUS
<1>5. m \in Nat /\ pads = [i \in 1 .. m |-> Pad]
  BY <1>3, <1>4, RecorderAssumption
<1>6. pads \in Seq(AnyUnit) /\ Len(pads) = m /\ \A q \in 1 .. m : pads[q] = Pad
  <2>1. Pad \in AnyUnit
    BY RecorderAssumption DEF Pad, Unit, AnyUnit
  <2>2. pads \in [1 .. m -> AnyUnit]
    BY <1>5, <2>1
  <2> QED BY <1>5, <2>2
<1>7. Follows(w, Len(disk) + Len(staging), pads)
  <2> SUFFICES ASSUME NEW q \in 1 .. m PROVE Pad = ValAt(w, EntryLen * (w + 1) + q)
    BY <1>3, <1>6, Zenon DEF Follows
  <2>1. PICK x, p : x = EntryLen * (w + 1) /\ p = EntryLen * (w + 1) + q
    OBVIOUS
  <2>2. x \in Nat
    BY <1>2, <2>1, RecorderAssumption
  <2>3. p \in Nat /\ p > x
    BY <1>5, <2>1, <2>2
  <2> QED BY <1>2, <2>1, <2>3, ValPadding
<1>8. CASE staging = << >> /\ disk' = disk /\ staging' = << >> /\ wpc' = "done"
  <2>1. Len(staging) = 0 /\ << >> \in Seq(AnyUnit) /\ SectorLen > 0
    BY <1>8, RecorderAssumption
  <2>2. RecTypes'
    BY <1>t, <1>3, <1>8, <2>1 DEF RecTypes
  <2>3. FileIs(w)'
    BY <1>3, <1>8, <2>1 DEF FileIs
  <2> QED BY <1>2, <2>2, <2>3 DEF RecInv
<1>9. CASE disk' = disk \o (staging \o pads) /\ staging' = << >> /\ wpc' = "done"
  <2>1. PICK b : b = staging \o pads
    OBVIOUS
  <2>2. b \in Seq(AnyUnit) /\ Len(b) = Len(staging) + Len(pads) /\ Follows(w, Len(disk), b)
    <3>1. /\ staging \o pads \in Seq(AnyUnit) /\ Len(staging \o pads) = Len(staging) + Len(pads)
          /\ Follows(w, Len(disk), staging \o pads)
      BY <1>2, <1>3, <1>6, <1>7, FollowsBoth, Zenon
    <3> QED BY <2>1, <3>1, Zenon
  <2>3. PICK e : e = disk \o b
    OBVIOUS
  <2>4. e \in Seq(AnyUnit) /\ Len(e) = Len(disk) + Len(b) /\ Follows(w, 0, e)
    <3>1. 0 \in Nat /\ 0 + Len(disk) = Len(disk)
      BY <1>3
    <3>2. Follows(w, 0 + Len(disk), b)
      BY <2>2, <3>1
    <3>3. /\ disk \o b \in Seq(AnyUnit) /\ Len(disk \o b) = Len(disk) + Len(b)
          /\ Follows(w, 0, disk \o b)
      BY <1>2, <1>3, <2>2, <3>1, <3>2, FollowsBoth, Zenon
    <3> QED BY <2>3, <3>3, Zenon
  <2>5. Len(e) >= EntryLen * (w + 1)
    BY <1>3, <1>5, <1>6, <2>2, <2>4
  <2>6. disk' = e /\ Len(staging') = 0 /\ staging' \in Seq(AnyUnit) /\ SectorLen > 0
    BY <1>9, <2>1, <2>3, RecorderAssumption
  <2>7. RecTypes'
    BY <1>t, <1>9, <2>4, <2>6 DEF RecTypes
  <2>8. FileIs(w)'
    BY <1>9, <2>4, <2>5, <2>6 DEF FileIs
  <2> QED BY <1>2, <2>7, <2>8 DEF RecInv
<1>10. CASE FileFail(staging \o pads)
  <2>1. RecTypes
    BY DEF RecInv
  <2>2. disk' \in Seq(AnyUnit) /\ staging' = staging /\ wpc' = "failed" /\ Follows(w, 0, disk')
    BY <1>2, <1>3, <1>6, <1>7, <1>10, <2>1, FileWriting
  <2>3. RecTypes'
    BY <1>t, <1>3, <2>2 DEF RecTypes
  <2>4. FileIs(w)'
    BY <2>2 DEF FileIs
  <2> QED BY <1>2, <2>3, <2>4 DEF RecInv
<1> QED BY <1>4, <1>8, <1>9, <1>10 DEF Flush

LEMMA TryKeeps ==
  ASSUME RecInv, TryRecord
  PROVE  RecInv'
<1>t. /\ accepted \in Nat /\ recRing \in Seq(Nat) /\ Len(recRing) <= accepted /\ Len(recRing) \in Nat
      /\ accepted' = accepted + 1 /\ recRing' = Append(recRing, accepted + 1)
      /\ staging' = staging /\ disk' = disk /\ wpc' = wpc
  BY DEF RecInv, RecTypes, TryRecord
<1>1. /\ recRing' \in Seq(Nat) /\ Len(recRing') = Len(recRing) + 1
      /\ \A k \in 1 .. Len(recRing) : recRing'[k] = recRing[k]
      /\ recRing'[Len(recRing) + 1] = accepted + 1
  BY <1>t
<1>2. Taken' = Taken /\ Taken = accepted - Len(recRing)
  BY <1>t, <1>1 DEF Taken
<1>3. RingIs'
  <2> SUFFICES ASSUME NEW k \in 1 .. Len(recRing) + 1 PROVE recRing'[k] = Taken + k
    BY <1>1, <1>2 DEF RingIs
  <2>1. CASE k \in 1 .. Len(recRing)
    BY <1>1, <2>1 DEF RecInv, RingIs
  <2>2. CASE k = Len(recRing) + 1
    BY <1>t, <1>1, <1>2, <2>2
  <2> QED BY <1>t, <2>1, <2>2
<1>4. RecTypes'
  BY <1>t, <1>1 DEF RecInv, RecTypes
<1>5. FileIs(Taken)'
  <2>1. FileIs(Taken)
    BY DEF RecInv
  <2> QED BY <1>t, <1>2, <2>1 DEF FileIs
<1> QED BY <1>3, <1>4, <1>5 DEF RecInv

LEMMA RecInvNext == RecInv /\ [RecNext]_recVars => RecInv'
<1> SUFFICES ASSUME RecInv, [RecNext]_recVars PROVE RecInv'
  OBVIOUS
<1>1. CASE TryRecord
  BY <1>1, TryKeeps
<1>2. CASE DrainPop
  BY <1>2, PopKeeps
<1>3. CASE WriteEnd
  BY <1>3, EndKeeps
<1>4. CASE Flush
  BY <1>4, FlushKeeps
<1>5. CASE StopAndJoin \/ DrainEmpty \/ CheckStop \/ UNCHANGED recVars
  <2>1. /\ accepted' = accepted /\ recRing' = recRing /\ staging' = staging /\ disk' = disk
        /\ \/ wpc' = wpc
           \/ wpc \in {"drain", "check"} /\ wpc' \in {"drain", "check", "end"}
    BY <1>5 DEF StopAndJoin, DrainEmpty, CheckStop, recVars
  <2>2. Taken' = Taken /\ RingIs'
    BY <2>1 DEF Taken, RecInv, RingIs
  <2>3. RecTypes'
    BY <2>1 DEF RecInv, RecTypes
  <2>4. FileIs(Taken)'
    <3>1. FileIs(Taken)
      BY DEF RecInv
    <3> QED BY <2>1, <2>2, <3>1 DEF FileIs
  <2> QED BY <2>2, <2>3, <2>4 DEF RecInv
<1> QED BY <1>1, <1>2, <1>3, <1>4, <1>5 DEF RecNext, Storage

\* A division, by the multiples it counts.
LEMMA DivCounts ==
  ASSUME NEW n \in Nat \ {0}, NEW x \in Nat
  PROVE  /\ x \div n \in Nat
         /\ \A i \in Nat : i <= x \div n <=> n * i <= x
<1>1. PICK q, r : q = x \div n /\ r = x % n
  OBVIOUS
<1>2. q \in Int /\ r \in 0 .. n - 1 /\ x = n * q + r
  BY <1>1
<1>3. q >= 0
  <2> SUFFICES ASSUME q <= -1 PROVE FALSE
    BY <1>2
  <2>1. n * q <= -n
    BY <1>2
  <2> QED BY <1>2, <2>1
<1>4. ASSUME NEW i \in Nat
      PROVE  i <= q <=> n * i <= x
  <2>1. ASSUME i <= q PROVE n * i <= x
    <3>1. q - i \in Nat /\ n * (q - i) \in Nat /\ n * q = n * (q - i) + n * i /\ n * i \in Nat
      BY <1>2, <2>1
    <3> QED BY <1>2, <3>1
  <2>2. ASSUME i > q PROVE n * i > x
    <3>1. i - q \in Int /\ i - q >= 1
      BY <1>2, <2>2
    <3>2. n * (i - q) >= n /\ n * i = n * (i - q) + n * q /\ n * (i - q) \in Int /\ n * q \in Int
      BY <1>2, <3>1
    <3> QED BY <1>2, <3>2
  <2>3. n * i \in Nat
    OBVIOUS
  <2> QED BY <1>2, <2>1, <2>2, <2>3
<1> QED BY <1>1, <1>2, <1>3, <1>4

\* Slice i of the file, when it is all there: its units are those of its places.
LEMMA SliceIs ==
  ASSUME RecInv, NEW i \in 1 .. Len(disk) \div EntryLen
  PROVE  /\ Slice(i) \in Seq(AnyUnit) /\ Len(Slice(i)) = EntryLen
         /\ \A k \in 1 .. EntryLen : Slice(i)[k] = ValAt(Taken, Place(i, k))
<1>1. PICK n, l, a, d : n = EntryLen /\ l = Len(disk) /\ a = (i - 1) * EntryLen /\ d = disk
  OBVIOUS
<1>2. n \in Nat \ {0} /\ l \in Nat /\ d \in Seq(AnyUnit) /\ l = Len(d)
  BY <1>1, RecorderAssumption DEF RecInv, RecTypes
<1>3. i \in Nat /\ i >= 1 /\ n * i <= l
  <2>1. l \div n \in Nat
    BY <1>2, DivCounts
  <2>2. i \in Nat /\ i >= 1 /\ i <= l \div n
    BY <1>1, <2>1
  <2> QED BY <1>2, <2>2, DivCounts
<1>4. a \in Nat /\ a = n * (i - 1) /\ i * n = a + n /\ a + n <= l
  <2>1. i - 1 \in Nat /\ a = (i - 1) * n
    BY <1>1, <1>3
  <2>2. (i - 1) * n = n * (i - 1) /\ n * (i - 1) \in Nat /\ n * i = n * (i - 1) + n /\ i * n = n * i
    BY <1>2, <1>3, <2>1
  <2> QED BY <1>3, <2>1, <2>2
<1>5. Slice(i) = SubSeq(d, a + 1, a + n)
  BY <1>1, <1>4, Zenon DEF Slice
<1>6. PICK s : s = SubSeq(d, a + 1, a + n)
  OBVIOUS
<1>7. s \in Seq(AnyUnit) /\ Len(s) = n /\ \A k \in 1 .. n : s[k] = d[a + k]
  <2>1. PICK x, y : x = a + 1 /\ y = a + n
    OBVIOUS
  <2>2. x \in 1 .. l /\ y \in 1 .. l /\ x <= y /\ (y - x) + 1 = n
    BY <1>2, <1>4, <2>1
  <2>3. s = SubSeq(d, x, y)
    BY <1>6, <2>1
  <2>4. s \in Seq(AnyUnit) /\ Len(s) = (y - x) + 1 /\ \A k \in 1 .. (y - x) + 1 : s[k] = d[(x + k) - 1]
    BY <1>2, <2>2, <2>3
  <2>5. ASSUME NEW k \in 1 .. n
        PROVE  (x + k) - 1 = a + k
    BY <1>2, <1>4, <2>1
  <2> QED BY <2>2, <2>4, <2>5
<1>8. ASSUME NEW k \in 1 .. n
      PROVE  d[a + k] = ValAt(Taken, Place(i, k))
  <2>1. a + k \in 1 .. l /\ 0 + (a + k) = a + k
    BY <1>2, <1>4
  <2>2. Follows(Taken, 0, d)
    BY <1>1 DEF RecInv, FileIs
  <2>3. d[a + k] = ValAt(Taken, 0 + (a + k))
    BY <1>2, <2>1, <2>2, Zenon DEF Follows
  <2>4. Place(i, k) = a + k
    BY <1>1, <1>4 DEF Place
  <2> QED BY <2>1, <2>3, <2>4
<1> QED BY <1>1, <1>5, <1>6, <1>7, <1>8

LEMMA RecInvIs == RecInv => FileIsPrefix
<1> SUFFICES ASSUME RecInv PROVE FileIsPrefix
  OBVIOUS
<1>1. PICK w, m, n : w = Taken /\ m = Len(disk) \div EntryLen /\ n = EntryLen
  OBVIOUS
<1>2. /\ accepted \in Nat /\ Len(recRing) \in Nat /\ w \in Nat /\ w = accepted - Len(recRing)
      /\ n \in Nat \ {0} /\ Len(disk) \in Nat /\ disk \in Seq(AnyUnit)
  <2>1. accepted \in Nat /\ recRing \in Seq(Nat) /\ Len(recRing) <= accepted /\ disk \in Seq(AnyUnit)
    BY DEF RecInv, RecTypes
  <2>2. Len(recRing) \in Nat /\ Len(disk) \in Nat
    BY <2>1
  <2>3. w = accepted - Len(recRing)
    BY <1>1 DEF Taken
  <2>4. w \in Nat
    BY <2>1, <2>2, <2>3
  <2>5. n \in Nat \ {0}
    BY <1>1, RecorderAssumption
  <2> QED BY <2>1, <2>2, <2>3, <2>4, <2>5
<1>3. m \in Nat /\ \A i \in Nat : i <= m <=> n * i <= Len(disk)
  BY <1>1, <1>2, DivCounts
<1>4. ASSUME NEW i \in 1 .. m, NEW k \in 1 .. n
      PROVE  Slice(i)[k] = IF i <= w THEN Unit(i, k) ELSE IF i = w + 1 THEN Unit(EndMark, k) ELSE Pad
  <2>1. i \in Nat \ {0} /\ i \in 1 .. Len(disk) \div EntryLen /\ k \in 1 .. EntryLen
    BY <1>1, <1>3
  <2>2. Slice(i)[k] = ValAt(w, Place(i, k))
    BY <1>1, <2>1, SliceIs
  <2> QED BY <1>2, <2>1, <2>2, ValOfPlace
<1>5. ASSUME NEW i \in 1 .. m
      PROVE  (\E j \in 1 .. i : Slice(j)[1] = Unit(EndMark, 1)) <=> i > w
  <2>0. 1 \in 1 .. n /\ i \in Nat /\ i <= m
    BY <1>2, <1>3
  <2>1. ASSUME NEW j \in 1 .. i, Slice(j)[1] = Unit(EndMark, 1)
        PROVE  i > w
    <3>1. j \in 1 .. m /\ j \in Nat /\ j >= 1 /\ j <= i
      BY <1>3, <2>0
    <3>2. CASE j <= w
      <4>1. Slice(j)[1] = Unit(j, 1)
        BY <1>4, <2>0, <3>1, <3>2
      <4>2. j = EndMark
        BY <2>1, <4>1 DEF Unit
      <4> QED BY <3>1, <4>2 DEF EndMark
    <3> QED BY <1>2, <2>0, <3>1, <3>2
  <2>2. ASSUME i > w
        PROVE  \E j \in 1 .. i : Slice(j)[1] = Unit(EndMark, 1)
    <3>1. PICK j : j = w + 1
      OBVIOUS
    <3>2. j \in 1 .. i /\ j \in 1 .. m /\ ~(j <= w)
      BY <1>2, <1>3, <2>0, <2>2, <3>1
    <3>3. Slice(j)[1] = Unit(EndMark, 1)
      BY <1>4, <2>0, <3>1, <3>2
    <3> QED BY <3>2, <3>3
  <2> QED BY <2>1, <2>2
<1>6. PICK l \in Nat : l <= w /\ l <= m /\ (l = w \/ l = m)
  <2>1. w <= m \/ m <= w
    BY <1>2, <1>3
  <2>2. w <= w /\ m <= m
    BY <1>2, <1>3
  <2> QED BY <1>2, <1>3, <2>1, <2>2
<1>7. {i \in 1 .. m : ~ \E j \in 1 .. i : Slice(j)[1] = Unit(EndMark, 1)} = 1 .. l
  <2>1. {i \in 1 .. m : ~ \E j \in 1 .. i : Slice(j)[1] = Unit(EndMark, 1)} = {i \in 1 .. m : ~(i > w)}
    BY <1>5
  <2>2. {i \in 1 .. m : ~(i > w)} = 1 .. l
    BY <1>2, <1>3, <1>6
  <2> QED BY <2>1, <2>2
<1>8. Parsed = [i \in 1 .. l |-> Slice(i)]
  BY <1>1, <1>7, Zenon DEF Parsed
<1>9. ASSUME NEW i \in 1 .. l
      PROVE  Slice(i) \in Seq(AnyUnit) /\ Slice(i) = Entry(i)
  <2>1. i \in 1 .. m /\ i <= w /\ i \in Nat
    BY <1>2, <1>3, <1>6
  <2>2. /\ Slice(i) \in Seq(AnyUnit) /\ Len(Slice(i)) = n
        /\ Entry(i) \in Seq(AnyUnit) /\ Len(Entry(i)) = n
        /\ \A k \in 1 .. n : Entry(i)[k] = Unit(i, k)
    BY <1>1, <2>1, SliceIs, EntryIs
  <2>3. \A k \in 1 .. n : Slice(i)[k] = Entry(i)[k]
    BY <1>4, <2>1, <2>2
  <2>4. PICK a, b : a = Slice(i) /\ b = Entry(i)
    OBVIOUS
  <2>5. a = b
    BY <2>2, <2>3, <2>4, SeqEqual
  <2> QED BY <2>2, <2>4, <2>5
<1>10. Len(Parsed) = l /\ \A i \in 1 .. l : Parsed[i] = Entry(i)
  <2>1. PICK f : f = Parsed
    OBVIOUS
  <2>2. f \in [1 .. l -> Seq(AnyUnit)] /\ \A i \in 1 .. l : f[i] = Entry(i)
    BY <1>8, <1>9, <2>1
  <2>3. Len(f) = l
    BY <1>6, <2>2
  <2> QED BY <2>1, <2>2, <2>3
<1>11. wpc = "done" => l = w
  <2> SUFFICES ASSUME wpc = "done" PROVE l = w
    OBVIOUS
  <2>1. Len(disk) >= n * (w + 1)
    BY <1>1 DEF RecInv, FileIs
  <2>2. PICK v : v = w + 1
    OBVIOUS
  <2>3. v \in Nat /\ n * v \in Nat /\ n * v <= Len(disk)
    BY <1>2, <2>1, <2>2
  <2>4. v <= m
    BY <1>3, <2>3
  <2> QED BY <1>2, <1>3, <1>6, <2>2, <2>4
<1> QED BY <1>2, <1>6, <1>10, <1>11 DEF FileIsPrefix

\* For any ring, sector and entry length: whatever writes fail and wherever the
\* process dies, a recording reads back as the entries the recorder accepted,
\* whole, in order and from the first on (record.rs, direct_io.rs).
THEOREM FileIsPrefixAlways == RecSpec => []FileIsPrefix
BY RecInvInit, RecInvNext, RecInvIs, PTL DEF RecSpec
=============================================================================
