-------------------------- MODULE SafetyLoopProofs --------------------------
(***************************************************************************)
(* Proofs about SafetyLoop for every envelope, every operator and autonomy *)
(* command, every pose and every capacity of the rings: the stop is final, *)
(* the slew limit, the AI veto and the ceiling pin hold end to end, and    *)
(* the operator's weight keeps its range.                                  *)
(***************************************************************************)
EXTENDS SafetyLoop, SequenceTheorems, TLAPS

-----------------------------------------------------------------------------
(* The stop flag on its way in: no stage raises it by itself, commands and *)
(* baselines come without it.                                              *)

Unstopped == [lat : Int, thr : Int, stop : {FALSE}]

FlagInv == input \in Seq(Unstopped)

\* The input ring starts empty.
LEMMA FlagInit == Init => FlagInv
  BY EmptySeq DEF Init, FlagInv

\* Only operator commands enter the input ring.
LEMMA FlagStep == FlagInv /\ [Next]_vars => FlagInv'
  <1> SUFFICES ASSUME FlagInv, [Next]_vars PROVE FlagInv'
    OBVIOUS
  <1>1. ASSUME NEW c \in Commands, OperatorPush(c) PROVE FlagInv'
    <2>1. c \in Unstopped
      BY InputAssumption DEF Unstopped
    <2>2. input' = Append(input, c)
      BY <1>1 DEF OperatorPush
    <2> QED
      BY <2>1, <2>2, AppendProperties DEF FlagInv
  <1>2. ASSUME input' = << >> PROVE FlagInv'
    BY <1>2, EmptySeq DEF FlagInv
  <1>3. ASSUME input' = input PROVE FlagInv'
    BY <1>3 DEF FlagInv
  <1> QED
    BY <1>1, <1>2, <1>3
       DEF Next, vars, SetPose, SetAutonomyBaseline, RequestMode, EmergencyStop, EngageAiVeto,
           DisengageAiVeto, ProcessIdle, ProcessCommand, ActuatorPop, ringVars

\* The pipeline keeps the flag of the command.
LEMMA InterceptedFlag ==
    ASSUME NEW c \in Unstopped, NEW k, NEW w
    PROVE  Intercepted(c, k, w).stop = FALSE
  BY DEF Unstopped, Intercepted, BrakeThrottle, Limit, Fence, ClampCommand, ApplyVeto, Mix, Compensate

-----------------------------------------------------------------------------
(* The stop on its way out.                                                *)

\* A stop in the output ring, or at the actuator, means that the latch is set
\* and that only stops are behind it.
StopInv ==
    /\ estop \in BOOLEAN /\ actuator \in BOOLEAN
    /\ output \in Seq(BOOLEAN)
    /\ actuator = TRUE => estop = TRUE
    /\ \A i \in 1 .. Len(output) :
          output[i] = TRUE => estop = TRUE /\ \A j \in i .. Len(output) : output[j] = TRUE
    /\ actuator = TRUE => \A i \in 1 .. Len(output) : output[i] = TRUE

\* Nothing has been produced yet.
LEMMA StopInit == Init => StopInv
  <1> SUFFICES ASSUME Init PROVE StopInv
    OBVIOUS
  <1>1. output = << >> /\ actuator = FALSE /\ estop = FALSE
    BY DEF Init
  <1>2. output \in Seq(BOOLEAN) /\ Len(output) = 0
    BY <1>1, EmptySeq
  <1>3. 1 .. Len(output) = {}
    BY <1>2
  <1>4. estop \in BOOLEAN /\ actuator \in BOOLEAN /\ actuator # TRUE
    BY <1>1
  <1> QED
    BY <1>2, <1>3, <1>4, Zenon DEF StopInv

\* A result behind a stop is a stop, because the latch is never reset.
LEMMA StopStep == FlagInv /\ StopInv /\ [Next]_vars => StopInv'
  <1> SUFFICES ASSUME FlagInv, StopInv, [Next]_vars PROVE StopInv'
    OBVIOUS
  <1>1. ASSUME NEW k \in Attenuations, ProcessCommand(k) PROVE StopInv'
    <2> DEFINE f == lastOut'.stop
    <2>1. /\ estop' \in BOOLEAN /\ (estop = TRUE => estop' = TRUE)
          /\ actuator' = actuator
          /\ output' = output \/ output' = Append(output, f)
      BY <1>1 DEF ProcessCommand, EstopNext, StopInv
    <2>2. f = estop'
      <3>1. CASE estop' = TRUE
        <4>1. EstopNext
          BY <1>1, <3>1 DEF ProcessCommand
        <4> QED
          BY <1>1, <3>1, <4>1 DEF ProcessCommand, StopCommand
      <3>2. CASE estop' = FALSE
        <4>1. ~EstopNext
          BY <1>1, <3>2 DEF ProcessCommand
        <4>2. Len(input) \in Nat \ {0}
          BY <1>1, EmptySeq DEF ProcessCommand, FlagInv
        <4>3. input[Len(input)] \in Unstopped
          BY <4>2, ElementOfSeq DEF FlagInv
        <4>4. lastOut' = Intercepted(input[Len(input)], k, authority')
          BY <1>1, <4>1 DEF ProcessCommand
        <4> QED
          BY <3>2, <4>3, <4>4, InterceptedFlag
      <3> QED
        BY <2>1, <3>1, <3>2
    <2>3. CASE output' = output
      BY <2>1, <2>3 DEF StopInv
    <2>4. CASE output' = Append(output, f)
      <3> DEFINE n == Len(output)
      <3>1. n \in Nat
        BY LenProperties DEF StopInv
      <3>2. /\ output' \in Seq(BOOLEAN) /\ Len(output') = n + 1
            /\ \A i \in 1 .. n : output'[i] = output[i]
            /\ output'[n + 1] = estop'
        BY <2>1, <2>2, <2>4, AppendProperties DEF StopInv
      <3>3. ASSUME NEW i \in 1 .. n + 1, output'[i] = TRUE
            PROVE  estop' = TRUE /\ \A j \in i .. n + 1 : output'[j] = TRUE
        BY <2>1, <3>1, <3>2, <3>3 DEF StopInv
      <3>4. actuator' = TRUE => \A i \in 1 .. n + 1 : output'[i] = TRUE
        <4> SUFFICES ASSUME actuator' = TRUE, NEW i \in 1 .. n + 1 PROVE output'[i] = TRUE
          OBVIOUS
        <4>1. actuator = TRUE /\ estop = TRUE /\ estop' = TRUE
          BY <2>1 DEF StopInv
        <4>2. CASE i \in 1 .. n
          BY <3>2, <4>1, <4>2 DEF StopInv
        <4>3. CASE i = n + 1
          BY <3>2, <4>1, <4>3
        <4>4. i \in 1 .. n \/ i = n + 1
          BY <3>1
        <4> QED
          BY <4>2, <4>3, <4>4
      <3> HIDE DEF n
      <3> QED
        BY <2>1, <3>2, <3>3, <3>4 DEF StopInv
    <2> QED
      BY <2>1, <2>3, <2>4
  <1>2. CASE ActuatorPop
    <2>1. /\ output # << >> /\ actuator' = Head(output) /\ output' = Tail(output)
          /\ estop' = estop
      BY <1>2 DEF ActuatorPop
    <2>2. /\ Len(output) \in Nat \ {0} /\ Head(output) = output[1] /\ Head(output) \in BOOLEAN
          /\ Tail(output) \in Seq(BOOLEAN) /\ Len(Tail(output)) = Len(output) - 1
          /\ \A i \in 1 .. Len(output) - 1 : Tail(output)[i] = output[i + 1]
      BY <2>1, HeadTailProperties, EmptySeq DEF StopInv
    <2> QED
      BY <2>1, <2>2 DEF StopInv
  <1>3. CASE EmergencyStop
    BY <1>3 DEF EmergencyStop, ringVars, StopInv
  <1>4. ASSUME UNCHANGED <<estop, output, actuator>> PROVE StopInv'
    BY <1>4 DEF StopInv
  <1> QED
    BY <1>1, <1>2, <1>3, <1>4
       DEF Next, vars, SetPose, SetAutonomyBaseline, RequestMode, EngageAiVeto,
           DisengageAiVeto, ProcessIdle, OperatorPush, ringVars

\* Once a stop has reached the actuator side nothing else ever does, for
\* every capacity of the output ring and whatever modes are requested after
\* it (emergency_stop and process_one).
THEOREM StopFinal == Spec => StopIsFinal
  <1>1. StopInv /\ [Next]_vars => [actuator => actuator']_actuator
    <2> SUFFICES ASSUME StopInv, [Next]_vars, actuator PROVE actuator' \/ actuator' = actuator
      OBVIOUS
    <2>1. CASE ActuatorPop
      <3>1. output # << >> /\ actuator' = Head(output)
        BY <2>1 DEF ActuatorPop
      <3>2. Len(output) \in Nat \ {0} /\ Head(output) = output[1]
        BY <3>1, EmptySeq DEF StopInv
      <3>3. actuator = TRUE
        BY DEF StopInv
      <3>4. output[1] = TRUE
        BY <3>2, <3>3 DEF StopInv
      <3> QED
        BY <3>1, <3>2, <3>4
    <2>2. ASSUME actuator' = actuator PROVE actuator' \/ actuator' = actuator
      BY <2>2
    <2> QED
      BY <2>1, <2>2
         DEF Next, vars, SetPose, SetAutonomyBaseline, RequestMode, EmergencyStop, EngageAiVeto,
             DisengageAiVeto, ProcessIdle, ProcessCommand, OperatorPush, ringVars
  <1> QED
    BY <1>1, FlagInit, FlagStep, StopInit, StopStep, PTL DEF Spec, StopIsFinal

-----------------------------------------------------------------------------
(* The envelope.  The numbers of the loop stay numbers, and the last       *)
(* command stays inside the envelope; the bounds between consecutive       *)
(* commands follow stage by stage.                                         *)

EnvelopeInv ==
    /\ input \in Seq(Unstopped)
    /\ baseline \in Unstopped
    /\ authority \in Int
    /\ blend \in [from : Int, to : Int, elapsed : Int]
    /\ lastOut \in Command
    /\ pose \in [z : Int, at : {"Inside", "SoftWarn", "HardBreach"}]
    /\ vz \in Int
    /\ veto \in Nat

\* Scaling gives an integer.
LEMMA ScaleInt ==
    ASSUME NEW x \in Int, NEW n \in Int, NEW d \in Nat \ {0}
    PROVE  Scale(x, n, d) \in Int
  BY DEF Scale

\* Clamping keeps the bounds.
LEMMA ClampIn ==
    ASSUME NEW x \in Int, NEW lo \in Int, NEW hi \in Int, lo <= hi
    PROVE  Clamp(x, lo, hi) \in lo .. hi
  BY DEF Clamp

\* Stages 1 and 2 give a command.
LEMMA MixCommand ==
    ASSUME EnvelopeInv, NEW c \in Unstopped, NEW k \in Attenuations, NEW w \in Int
    PROVE  Mix(Compensate(c, k), w) \in Unstopped
  <1>1. Full \in Nat \ {0}
    BY LoopAssumption
  <1>2. k \in Int
    BY DEF Attenuations
  <1>3. Compensate(c, k) \in Unstopped
    <2>1. c.lat \in Int /\ Scale(c.lat, k, 10) \in Int
      BY <1>2, ScaleInt DEF Unstopped
    <2> QED
      BY <2>1 DEF Compensate, Unstopped
  <1> DEFINE d == Compensate(c, k)
  <1> HIDE DEF d
  <1>4. d \in Unstopped
    BY <1>3 DEF d
  <1>5. /\ baseline.lat \in Int /\ baseline.thr \in Int /\ d.lat \in Int /\ d.thr \in Int
        /\ Full - w \in Int
    BY <1>1, <1>4 DEF EnvelopeInv, Unstopped
  <1> DEFINE l == baseline.lat * (Full - w) + d.lat * w
             t == baseline.thr * (Full - w) + d.thr * w
  <1>6. l \in Int /\ t \in Int
    BY <1>5
  <1>7. Mix(d, w) = d \/ Mix(d, w) = [d EXCEPT !.lat = Scale(l, 1, Full), !.thr = Scale(t, 1, Full)]
    BY DEF Mix
  <1> HIDE DEF l, t
  <1>8. Scale(l, 1, Full) \in Int /\ Scale(t, 1, Full) \in Int
    BY <1>1, <1>6, ScaleInt
  <1>9. Mix(d, w) \in Unstopped
    BY <1>4, <1>7, <1>8 DEF Unstopped
  <1> QED
    BY <1>9 DEF d

\* The veto caps the translation.
LEMMA VetoCommand ==
    ASSUME EnvelopeInv, NEW c \in Unstopped
    PROVE  /\ ApplyVeto(c) \in Unstopped
           /\ veto > 0 => Abs(ApplyVeto(c).lat) <= veto
  <1>1. veto \in Nat /\ c.lat \in Int
    BY DEF EnvelopeInv, Unstopped
  <1>2. CASE veto = 0
    BY <1>2 DEF ApplyVeto
  <1>3. CASE veto > 0
    <2> DEFINE l == Clamp(c.lat, -veto, veto)
    <2>1. l \in Int /\ Abs(l) <= veto
      BY <1>1, <1>3 DEF Clamp, Abs
    <2>2. ApplyVeto(c) = [c EXCEPT !.lat = l]
      BY <1>1, <1>3 DEF ApplyVeto
    <2> HIDE DEF l
    <2> QED
      BY <2>1, <2>2 DEF Unstopped
  <1> QED
    BY <1>1, <1>2, <1>3

\* The fence only takes translation away.
LEMMA FenceCommand ==
    ASSUME EnvelopeInv, NEW c \in Unstopped
    PROVE  /\ Fence(c) \in Unstopped
           /\ Abs(Fence(c).lat) <= Abs(c.lat)
  <1>1. Neutral \in Int /\ Pin \in Int
    BY LoopAssumption
  <1>2. ClampThrottle(c.thr) \in Int
    BY <1>1 DEF ClampThrottle, Unstopped
  <1>3. ASSUME NEW severity \in {0, 1, 2}
        PROVE  LET l == IF c.lat > 0 THEN c.lat - Scale(c.lat, severity, 2) ELSE c.lat
               IN  l \in Int /\ Abs(l) <= Abs(c.lat)
    BY DEF Scale, Abs, Unstopped
  <1>4. /\ ClampCommand(c) \in Unstopped
        /\ Abs(ClampCommand(c).lat) <= Abs(c.lat)
    BY <1>2, <1>3 DEF ClampCommand, Unstopped
  <1> QED
    <2>1. Abs(c.lat) <= Abs(c.lat)
      BY DEF Abs, Unstopped
    <2> QED
      BY <1>4, <2>1 DEF Fence

\* The limits keep the envelope and the step.
LEMMA LimitCommand ==
    ASSUME EnvelopeInv, NEW c \in Unstopped
    PROVE  /\ Limit(c) \in Command
           /\ Abs(Limit(c).lat - lastOut.lat) <= LatStep
           /\ Limit(c).thr - lastOut.thr <= ThrStep
           /\ \A v \in Nat : Abs(c.lat) <= v =>
                 \/ Abs(Limit(c).lat) <= v
                 \/ Abs(Limit(c).lat) <= Abs(lastOut.lat) - LatStep
  <1>1. {MaxLat, LatStep, MaxThr, ThrStep} \subseteq Nat \ {0}
    BY LoopAssumption
  <1>3. c.lat \in Int /\ c.thr \in Int /\ lastOut.lat \in -MaxLat .. MaxLat /\ lastOut.thr \in 0 .. MaxThr
    BY DEF EnvelopeInv, Command, Unstopped
  <1> DEFINE l == Slew(lastOut.lat, Clamp(c.lat, -MaxLat, MaxLat), LatStep)
             t == Slew(lastOut.thr, Clamp(c.thr, 0, MaxThr), ThrStep)
  <1>4. /\ l \in -MaxLat .. MaxLat
        /\ Abs(l - lastOut.lat) <= LatStep
        /\ \A v \in Nat : Abs(c.lat) <= v => Abs(l) <= v \/ Abs(l) <= Abs(lastOut.lat) - LatStep
    BY <1>1, <1>3 DEF Slew, Clamp, Abs
  <1>5. t \in 0 .. MaxThr /\ t - lastOut.thr <= ThrStep
    BY <1>1, <1>3 DEF Slew, Clamp
  <1>6. Limit(c) = [c EXCEPT !.lat = l, !.thr = t]
    BY DEF Limit
  <1> HIDE DEF l, t
  <1>7. Limit(c).lat = l /\ Limit(c).thr = t /\ Limit(c) \in Unstopped
    <2>1. l \in Int /\ t \in Int
      BY <1>1, <1>4, <1>5
    <2> QED
      BY <1>6, <2>1 DEF Unstopped
  <1>8. Limit(c) \in Command
    BY <1>4, <1>5, <1>7 DEF Command, Unstopped
  <1> QED
    BY <1>4, <1>5, <1>7, <1>8

\* The brake only takes throttle away, down to the pin.
LEMMA BrakeCommand ==
    ASSUME EnvelopeInv, NEW c \in Command
    PROVE  /\ BrakeThrottle(c) \in Command
           /\ BrakeThrottle(c).lat = c.lat
           /\ BrakeThrottle(c).thr <= c.thr
           /\ BrakeNext => BrakeThrottle(c).thr <= Pin
  <1>1. Pin \in Nat /\ Neutral \in Nat /\ MaxThr \in Nat /\ Pin <= Neutral /\ Neutral <= MaxThr
    BY LoopAssumption
  <1> QED
    BY <1>1 DEF BrakeThrottle, Command

\* The pipeline as a whole.
LEMMA InterceptedCommand ==
    ASSUME EnvelopeInv, NEW c \in Unstopped, NEW k \in Attenuations, NEW w \in Int
    PROVE  LET r == Intercepted(c, k, w)
           IN  /\ r \in Command
               /\ Abs(r.lat - lastOut.lat) <= LatStep
               /\ r.thr - lastOut.thr <= ThrStep
               /\ veto > 0 => Abs(r.lat) <= veto \/ Abs(r.lat) <= Abs(lastOut.lat) - LatStep
               /\ BrakeNext => r.thr <= Pin
  <1> DEFINE d == Mix(Compensate(c, k), w)
             e == ApplyVeto(d)
             f == Fence(e)
             g == Limit(f)
             r == BrakeThrottle(g)
  <1>1. d \in Unstopped
    BY MixCommand
  <1> HIDE DEF d
  <1>2. e \in Unstopped /\ (veto > 0 => Abs(e.lat) <= veto)
    BY <1>1, VetoCommand
  <1> HIDE DEF e
  <1>3. f \in Unstopped /\ Abs(f.lat) <= Abs(e.lat)
    BY <1>2, FenceCommand
  <1>4. Abs(e.lat) \in Int /\ Abs(f.lat) \in Int /\ veto \in Nat
    BY <1>2, <1>3 DEF Abs, Unstopped, EnvelopeInv
  <1>5. veto > 0 => Abs(f.lat) <= veto
    BY <1>2, <1>3, <1>4
  <1> HIDE DEF f
  <1>6. /\ g \in Command
        /\ Abs(g.lat - lastOut.lat) <= LatStep
        /\ g.thr - lastOut.thr <= ThrStep
        /\ veto > 0 => Abs(g.lat) <= veto \/ Abs(g.lat) <= Abs(lastOut.lat) - LatStep
    BY <1>3, <1>4, <1>5, LimitCommand
  <1> HIDE DEF g
  <1>7. r \in Command /\ r.lat = g.lat /\ r.thr <= g.thr /\ (BrakeNext => r.thr <= Pin)
    BY <1>6, BrakeCommand
  <1> HIDE DEF r
  <1>8. r.thr \in Int /\ g.thr \in Int /\ lastOut.thr \in Int /\ ThrStep \in Int
    BY <1>6, <1>7, LoopAssumption DEF Command, EnvelopeInv
  <1>9. r.thr - lastOut.thr <= ThrStep
    BY <1>6, <1>7, <1>8
  <1>10. r = Intercepted(c, k, w)
    BY DEF r, g, f, e, d, Intercepted
  <1> QED
    BY <1>6, <1>7, <1>9, <1>10

\* The loop starts inside the envelope.
LEMMA EnvelopeInit == Init => EnvelopeInv
  <1> SUFFICES ASSUME Init PROVE EnvelopeInv
    OBVIOUS
  <1>1. input \in Seq(Unstopped)
    BY EmptySeq DEF Init
  <1>2. {Full, Ticks, MaxLat, MaxThr} \subseteq Nat \ {0}
    BY LoopAssumption
  <1>3. lastOut \in Command
    BY <1>2 DEF Init, Command
  <1>4. authority = 0 /\ blend = [from |-> 0, to |-> 0, elapsed |-> Ticks]
    BY DEF Init, AuthorityTarget, NoBlend
  <1> QED
    BY <1>1, <1>2, <1>3, <1>4 DEF Init, EnvelopeInv, Unstopped

\* A blend step keeps weights integers.
LEMMA BlendInt ==
    ASSUME EnvelopeInv, NEW n \in Nat, AdvanceBlend(n)
    PROVE  authority' \in Int /\ blend' \in [from : Int, to : Int, elapsed : Int]
  <1>1. Ticks \in Nat \ {0}
    BY LoopAssumption
  <1> DEFINE b == Advanced(blend, n)
  <1>2. b \in [from : Int, to : Int, elapsed : Int]
    BY <1>1 DEF EnvelopeInv, Advanced, NoBlend
  <1> HIDE DEF b
  <1>3. b.from \in Int /\ b.to - b.from \in Int /\ b.elapsed \in Int
    BY <1>2
  <1>4. Smootherstep(b.elapsed) \in Int
    BY <1>1, <1>3 DEF Smootherstep
  <1>5. One \in Nat \ {0}
    <2>1. \A x, y \in Nat \ {0} : x * y \in Nat \ {0}
      OBVIOUS
    <2> QED
      BY <1>1, <2>1 DEF One
  <1>6. Weight(b) \in Int
    <2>1. Scale(b.to - b.from, Smootherstep(b.elapsed), One) \in Int
      BY <1>3, <1>4, <1>5, ScaleInt
    <2> QED
      BY <1>3, <2>1 DEF Weight
  <1> QED
    BY <1>2, <1>6 DEF AdvanceBlend, b

\* What a tick with commands does to the last result.
LEMMA TickResult ==
    ASSUME EnvelopeInv, NEW k \in Attenuations, ProcessCommand(k)
    PROVE  /\ lastOut' \in Command
           /\ ~estop' => /\ Abs(lastOut'.lat - lastOut.lat) <= LatStep
                         /\ lastOut'.thr - lastOut.thr <= ThrStep
           /\ veto > 0 => \/ Abs(lastOut'.lat) <= veto
                          \/ Abs(lastOut'.lat) <= Abs(lastOut.lat) - LatStep
           /\ BrakeNext => lastOut'.thr <= Pin
  <1> DEFINE c == input[Len(input)]
  <1>1. c \in Unstopped
    <2>1. Len(input) \in Nat \ {0}
      BY EmptySeq DEF ProcessCommand, EnvelopeInv
    <2> QED
      BY <2>1, ElementOfSeq DEF EnvelopeInv
  <1>2. authority' \in Int
    BY BlendInt DEF ProcessCommand
  <1>3. CASE EstopNext
    <2>1. lastOut' = [lat |-> 0, thr |-> 0, stop |-> TRUE] /\ estop'
      BY <1>3 DEF ProcessCommand, StopCommand
    <2>2. MaxLat \in Nat /\ MaxThr \in Nat /\ Pin \in Nat /\ veto \in Nat
      BY LoopAssumption DEF EnvelopeInv
    <2> QED
      BY <2>1, <2>2 DEF Command, Abs
  <1>4. CASE ~EstopNext
    <2>1. lastOut' = Intercepted(c, k, authority')
      BY <1>4 DEF ProcessCommand
    <2> HIDE DEF c
    <2> QED
      BY <1>1, <1>2, <2>1, InterceptedCommand
  <1> QED
    BY <1>3, <1>4

\* Every operation keeps the envelope.
LEMMA EnvelopeStep == EnvelopeInv /\ [Next]_vars => EnvelopeInv'
  <1> SUFFICES ASSUME EnvelopeInv, [Next]_vars PROVE EnvelopeInv'
    OBVIOUS
  <1>1. ASSUME NEW p \in Poses, SetPose(p) PROVE EnvelopeInv'
    BY <1>1, InputAssumption DEF SetPose, EnvelopeInv, ringVars, blendVars, Command
  <1>2. ASSUME NEW c \in Baselines, SetAutonomyBaseline(c) PROVE EnvelopeInv'
    BY <1>2, InputAssumption
       DEF SetAutonomyBaseline, EnvelopeInv, Unstopped, ringVars, blendVars, poseVars, Command
  <1>3. ASSUME NEW m \in Mode, RequestMode(m) PROVE EnvelopeInv'
    <2>1. AuthorityTarget(m) \in Int
      BY LoopAssumption DEF AuthorityTarget
    <2> QED
      BY <1>3, <2>1 DEF RequestMode, EnvelopeInv, ringVars, poseVars, Command
  <1>4. CASE EmergencyStop
    BY <1>4 DEF EmergencyStop, EnvelopeInv, ringVars, blendVars, poseVars, Command
  <1>5. ASSUME NEW cap \in Caps, EngageAiVeto(cap) PROVE EnvelopeInv'
    BY <1>5, LoopAssumption DEF EngageAiVeto, EnvelopeInv, ringVars, blendVars, poseVars, Command
  <1>6. CASE DisengageAiVeto
    BY <1>6 DEF DisengageAiVeto, EnvelopeInv, ringVars, blendVars, poseVars, Command
  <1>7. CASE ProcessIdle
    <2>1. authority' \in Int /\ blend' \in [from : Int, to : Int, elapsed : Int]
      BY <1>7, BlendInt DEF ProcessIdle
    <2> QED
      BY <1>7, <2>1 DEF ProcessIdle, EnvelopeInv, ringVars, poseVars, Command
  <1>8. ASSUME NEW k \in Attenuations, ProcessCommand(k) PROVE EnvelopeInv'
    <2>1. authority' \in Int /\ blend' \in [from : Int, to : Int, elapsed : Int]
      BY <1>8, BlendInt DEF ProcessCommand
    <2>2. lastOut' \in Command
      BY <1>8, TickResult
    <2>3. input' = << >> /\ UNCHANGED <<baseline, pose, vz, veto>>
      BY <1>8 DEF ProcessCommand, poseVars
    <2>4. input' \in Seq(Unstopped)
      BY <2>3, EmptySeq
    <2> QED
      BY <2>1, <2>2, <2>3, <2>4 DEF EnvelopeInv, Command
  <1>9. ASSUME NEW c \in Commands, OperatorPush(c) PROVE EnvelopeInv'
    <2>1. input' = Append(input, c) /\ UNCHANGED <<baseline, authority, blend, lastOut, pose, vz, veto>>
      BY <1>9 DEF OperatorPush, blendVars, poseVars
    <2>2. input' \in Seq(Unstopped)
      BY <2>1, InputAssumption, AppendProperties DEF EnvelopeInv, Unstopped
    <2> QED
      BY <2>1, <2>2 DEF EnvelopeInv, Command
  <1>10. CASE ActuatorPop
    BY <1>10 DEF ActuatorPop, EnvelopeInv, blendVars, poseVars, Command
  <1>11. CASE UNCHANGED vars
    BY <1>11 DEF vars, EnvelopeInv, ringVars, blendVars, poseVars, Command
  <1> QED
    BY <1>1, <1>2, <1>3, <1>4, <1>5, <1>6, <1>7, <1>8, <1>9, <1>10, <1>11 DEF Next

\* Only process_one empties the input ring.
LEMMA OnlyTicks ==
    ASSUME EnvelopeInv, Next, Processed
    PROVE  \E k \in Attenuations : ProcessCommand(k)
  <1>1. ASSUME NEW c \in Commands, OperatorPush(c) PROVE FALSE
    <2>1. c \in Unstopped
      BY InputAssumption DEF Unstopped
    <2>2. input' # << >>
      BY <1>1, <2>1, AppendProperties DEF OperatorPush, EnvelopeInv
    <2> QED
      BY <2>2 DEF Processed
  <1>2. input' # input
    BY DEF Processed
  <1> QED
    BY <1>1, <1>2
       DEF Next, SetPose, SetAutonomyBaseline, RequestMode, EmergencyStop, EngageAiVeto,
           DisengageAiVeto, ProcessIdle, ActuatorPop, ringVars

-----------------------------------------------------------------------------
\* Consecutive results of process_one differ by at most the slew limits, for
\* every envelope, every command and every blend of authority.
THEOREM Slewed == Spec => SlewBounded
  <1> DEFINE A == Processed /\ ~estop'
                  => /\ Abs(lastOut'.lat - lastOut.lat) <= LatStep
                     /\ lastOut'.thr - lastOut.thr <= ThrStep
  <1>1. EnvelopeInv /\ [Next]_vars => [A]_vars
    BY OnlyTicks, TickResult
  <1> QED
    BY <1>1, EnvelopeInit, EnvelopeStep, PTL DEF Spec, SlewBounded

\* Under an AI veto every result of process_one is inside the cap or one full
\* step closer to it.
THEOREM VetoCaps == Spec => VetoConverges
  <1> DEFINE A == Processed /\ veto > 0
                  => \/ Abs(lastOut'.lat) <= veto
                     \/ Abs(lastOut'.lat) <= Abs(lastOut.lat) - LatStep
  <1>1. EnvelopeInv /\ [Next]_vars => [A]_vars
    BY OnlyTicks, TickResult
  <1> QED
    BY <1>1, EnvelopeInit, EnvelopeStep, PTL DEF Spec, VetoConverges

\* From the tick that predicts the ceiling until the vehicle is back under
\* nine tenths of it, no result of process_one exceeds the descent throttle.
THEOREM Pinned == Spec => CeilingPinned
  <1> DEFINE A == Processed /\ (CeilingPredicted \/ brake) /\ 10 * pose.z > 9 * MaxAlt
                  => lastOut'.thr <= Pin
  <1>1. EnvelopeInv /\ [Next]_vars => [A]_vars
    <2> SUFFICES ASSUME EnvelopeInv, Next, Processed, CeilingPredicted \/ brake,
                        10 * pose.z > 9 * MaxAlt
                 PROVE  lastOut'.thr <= Pin
      OBVIOUS
    <2>1. pose.z \in Int /\ MaxAlt \in Int
      BY LoopAssumption DEF EnvelopeInv
    <2>2. BrakeNext
      BY <2>1 DEF BrakeNext
    <2> QED
      BY <2>2, OnlyTicks, TickResult
  <1> QED
    BY <1>1, EnvelopeInit, EnvelopeStep, PTL DEF Spec, CeilingPinned

-----------------------------------------------------------------------------
(* The authority weight.                                                   *)

\* The polynomial of the blend stays between 0 and 1: both it and what it lacks
\* to 1 are products of sums without a negative term.
LEMMA SmootherstepIn ==
    ASSUME NEW e \in 0 .. Ticks
    PROVE  Smootherstep(e) \in 0 .. One /\ One \in Nat \ {0}
  <1>1. PICK t, d : t = Ticks /\ d = Ticks - e
    OBVIOUS
  <1>2. t \in Nat \ {0} /\ e \in Nat /\ d \in Nat /\ t = e + d
    BY <1>1, LoopAssumption
  <1>3. PICK p, q : /\ p = e * e * e * (e * (6 * e - 15 * t) + 10 * t * t)
                    /\ q = t * t * t * t * t
    OBVIOUS
  <1>4. /\ p = (e * e * e) * ((t * t + 3 * (t * d)) + 6 * (d * d))
        /\ q - p = (d * d * d) * ((t * t + 3 * (t * e)) + 6 * (e * e))
    BY <1>2, <1>3
  <1>5. \A x, y \in Nat : x * y \in Nat
    OBVIOUS
  <1>6. \A x, y \in Nat \ {0} : x * y \in Nat \ {0}
    OBVIOUS
  <1>7. /\ (e * e) * e \in Nat /\ (d * d) * d \in Nat
        /\ t * t \in Nat /\ t * d \in Nat /\ t * e \in Nat /\ d * d \in Nat /\ e * e \in Nat
    BY <1>2, <1>5
  <1>8. (t * t + 3 * (t * d)) + 6 * (d * d) \in Nat /\ (t * t + 3 * (t * e)) + 6 * (e * e) \in Nat
    BY <1>7
  <1>9. p \in Nat /\ q - p \in Nat
    BY <1>4, <1>5, <1>7, <1>8
  <1>10. q \in Nat \ {0}
    BY <1>2, <1>3, <1>6
  <1> QED
    BY <1>1, <1>3, <1>9, <1>10 DEF Smootherstep, One

\* A share of a whole is not more than it.
LEMMA ShareIn ==
    ASSUME NEW x \in Nat, NEW d \in Nat \ {0}, NEW n \in 0 .. d
    PROVE  (x * n) \div d \in 0 .. x
  <1>1. PICK y, z, q : y = x * n /\ z = x * d /\ q = (x * n) \div d
    OBVIOUS
  <1>2. y \in Nat /\ z \in Nat /\ y <= z
    <2>1. PICK m : m = d - n
      OBVIOUS
    <2>2. m \in Nat /\ d = n + m /\ n \in Nat
      BY <2>1
    <2>3. z = y + x * m /\ x * m \in Nat /\ x * n \in Nat
      BY <1>1, <2>2
    <2> QED
      BY <1>1, <2>3
  <1>3. q \in Nat /\ d * q <= y
    BY <1>1, <1>2
  <1>4. ASSUME q > x PROVE FALSE
    <2>1. PICK m : m = q - (x + 1)
      OBVIOUS
    <2>2. m \in Nat /\ q = (x + 1) + m
      BY <1>3, <1>4, <2>1
    <2>3. d * q = (x * d + d) + d * m /\ d * m \in Nat
      BY <2>2
    <2> QED
      BY <1>1, <1>2, <1>3, <2>3
  <1> QED
    BY <1>1, <1>3, <1>4

\* The weight is between the ends of its blend.
LEMMA WeightIn ==
    ASSUME NEW b \in Blend
    PROVE  Weight(b) \in 0 .. Full
  <1>1. PICK f, t, s, o : /\ f = b.from /\ t = b.to
                          /\ s = Smootherstep(b.elapsed) /\ o = One
    OBVIOUS
  <1>2. Full \in Nat /\ f \in 0 .. Full /\ t \in 0 .. Full /\ b.elapsed \in 0 .. Ticks
    BY <1>1, LoopAssumption DEF Blend
  <1>3. o \in Nat \ {0} /\ s \in 0 .. o
    BY <1>1, <1>2, SmootherstepIn
  <1>4. Weight(b) = f + Scale(t - f, s, o)
    BY <1>1 DEF Weight
  <1>5. CASE t - f < 0
    <2>1. PICK x : x = -(t - f)
      OBVIOUS
    <2>2. x \in Nat /\ x <= f
      BY <1>2, <1>5, <2>1
    <2>3. (x * s) \div o \in 0 .. x
      BY <1>3, <2>2, ShareIn
    <2>4. Scale(t - f, s, o) = -((x * s) \div o)
      <3>1. PICK y : y = t - f
        OBVIOUS
      <3>2. y \in Int /\ x = -y /\ s \in Int /\ y < 0
        BY <1>2, <1>3, <1>5, <2>1, <3>1
      <3>3. -(y * s) = x * s
        BY <3>2
      <3>4. Scale(y, s, o) = -((-(y * s)) \div o)
        BY <3>2 DEF Scale
      <3> QED
        BY <3>1, <3>3, <3>4
    <2> QED
      BY <1>2, <1>4, <2>2, <2>3, <2>4
  <1>6. CASE ~(t - f < 0)
    <2>1. PICK x : x = t - f
      OBVIOUS
    <2>2. x \in Nat /\ f + x = t
      BY <1>2, <1>6, <2>1
    <2>3. (x * s) \div o \in 0 .. x
      BY <1>3, <2>2, ShareIn
    <2>4. Scale(t - f, s, o) = (x * s) \div o
      BY <1>6, <2>1 DEF Scale
    <2> QED
      BY <1>2, <1>4, <2>2, <2>3, <2>4
  <1> QED
    BY <1>5, <1>6

\* The weights of the modes.
LEMMA TargetIn == \A m \in Mode : AuthorityTarget(m) \in 0 .. Full
  BY LoopAssumption DEF AuthorityTarget, Mode

\* Advancing a blend keeps its range and that of the weight.
LEMMA AdvanceIn ==
    ASSUME blend \in Blend, NEW n \in Nat, AdvanceBlend(n)
    PROVE  blend' \in Blend /\ authority' \in 0 .. Full
  <1>1. Ticks \in Nat /\ Full \in Nat
    BY LoopAssumption
  <1>2. Advanced(blend, n) \in Blend
    <2>1. CASE blend.elapsed + n < Ticks
      BY <1>1, <2>1 DEF Advanced, Blend
    <2>2. CASE ~(blend.elapsed + n < Ticks)
      BY <1>1, <2>2 DEF Advanced, Blend, NoBlend
    <2> QED
      BY <2>1, <2>2
  <1> QED
    BY <1>2, WeightIn DEF AdvanceBlend

\* The weight and the blend keep their ranges.
BlendInv == authority \in 0 .. Full /\ blend \in Blend

\* A request in the middle of a blend starts the next from the weight in use.
LEMMA BlendStep == BlendInv /\ [Next]_vars => BlendInv'
  <1> SUFFICES ASSUME BlendInv, [Next]_vars PROVE BlendInv'
    OBVIOUS
  <1>1. ASSUME NEW m \in Mode, RequestMode(m) PROVE BlendInv'
    <2>1. AuthorityTarget(m) \in 0 .. Full /\ Ticks \in Nat /\ authority' = authority
      BY <1>1, TargetIn, LoopAssumption DEF RequestMode
    <2>2. [from |-> authority, to |-> AuthorityTarget(m), elapsed |-> 0] \in Blend
      BY <2>1 DEF BlendInv, Blend
    <2> QED
      BY <1>1, <2>1, <2>2 DEF RequestMode, BlendInv
  <1>2. CASE ProcessIdle
    BY <1>2, AdvanceIn DEF ProcessIdle, BlendInv
  <1>3. ASSUME NEW k \in Attenuations, ProcessCommand(k) PROVE BlendInv'
    BY <1>3, AdvanceIn DEF ProcessCommand, BlendInv
  <1>4. CASE UNCHANGED blendVars
    BY <1>4 DEF blendVars, BlendInv
  <1> QED
    BY <1>1, <1>2, <1>3, <1>4
       DEF Next, SetPose, SetAutonomyBaseline, EmergencyStop, EngageAiVeto, DisengageAiVeto,
           OperatorPush, ActuatorPop, vars

-----------------------------------------------------------------------------
(* Types.                                                                  *)

\* The rest of the types: what no stage computes with.
RestInv ==
    /\ mode \in Mode
    /\ Len(input) <= InCap /\ Len(output) <= OutCap
    /\ posed \in BOOLEAN /\ brake \in BOOLEAN
    /\ veto \in Caps \cup {0}

\* The rings keep their capacities, and the switches are switches.
LEMMA RestStep == FlagInv /\ StopInv /\ RestInv /\ [Next]_vars => RestInv'
  <1> SUFFICES ASSUME FlagInv, StopInv, RestInv, [Next]_vars PROVE RestInv'
    OBVIOUS
  <1>1. ASSUME NEW p \in Poses, SetPose(p) PROVE RestInv'
    BY <1>1 DEF SetPose, RestInv, ringVars
  <1>2. ASSUME NEW c \in Baselines, SetAutonomyBaseline(c) PROVE RestInv'
    BY <1>2 DEF SetAutonomyBaseline, RestInv, ringVars, poseVars
  <1>3. ASSUME NEW m \in Mode, RequestMode(m) PROVE RestInv'
    BY <1>3 DEF RequestMode, RestInv, ringVars, poseVars
  <1>4. CASE EmergencyStop
    BY <1>4 DEF EmergencyStop, RestInv, ringVars, poseVars, Mode
  <1>5. ASSUME NEW cap \in Caps, EngageAiVeto(cap) PROVE RestInv'
    BY <1>5 DEF EngageAiVeto, RestInv, ringVars, poseVars
  <1>6. CASE DisengageAiVeto
    BY <1>6 DEF DisengageAiVeto, RestInv, ringVars, poseVars
  <1>7. CASE ProcessIdle
    BY <1>7 DEF ProcessIdle, RestInv, ringVars, poseVars
  <1>8. ASSUME NEW k \in Attenuations, ProcessCommand(k) PROVE RestInv'
    <2>1. mode' \in Mode /\ posed' \in BOOLEAN /\ veto' \in Caps \cup {0}
      BY <1>8 DEF ProcessCommand, RestInv, poseVars, Mode
    <2>2. brake' \in BOOLEAN
      <3>1. brake' = BrakeNext
        BY <1>8 DEF ProcessCommand
      <3>2. BrakeNext \in BOOLEAN
        BY DEF BrakeNext
      <3> QED
        BY <3>1, <3>2
    <2>3. Len(input') <= InCap
      <3>1. input' = << >> /\ Len(<< >>) = 0 /\ InCap \in Nat
        BY <1>8, EmptySeq, LoopAssumption DEF ProcessCommand
      <3> QED
        BY <3>1
    <2>4. Len(output') <= OutCap
      <3>1. output \in Seq(BOOLEAN) /\ Len(output) <= OutCap /\ OutCap \in Nat
        BY LoopAssumption DEF StopInv, RestInv
      <3>2. PICK f : output' = IF Len(output) < OutCap THEN Append(output, f) ELSE output
        BY <1>8 DEF ProcessCommand
      <3>3. Len(Append(output, f)) = Len(output) + 1 /\ Len(output) \in Nat
        BY <3>1
      <3> QED
        BY <3>1, <3>2, <3>3
    <2> QED
      BY <2>1, <2>2, <2>3, <2>4 DEF RestInv
  <1>9. ASSUME NEW c \in Commands, OperatorPush(c) PROVE RestInv'
    <2>1. /\ Len(input) < InCap /\ input' = Append(input, c)
          /\ UNCHANGED <<mode, output, posed, brake, veto>>
      BY <1>9 DEF OperatorPush, poseVars
    <2>2. Len(input') = Len(input) + 1 /\ Len(input) \in Nat /\ InCap \in Nat
      BY <2>1, LoopAssumption DEF FlagInv
    <2> QED
      BY <2>1, <2>2 DEF RestInv
  <1>10. CASE ActuatorPop
    <2>1. output # << >> /\ output' = Tail(output) /\ UNCHANGED <<mode, input, posed, brake, veto>>
      BY <1>10 DEF ActuatorPop, poseVars
    <2>2. output \in Seq(BOOLEAN) /\ Len(output) <= OutCap /\ OutCap \in Nat
      BY LoopAssumption DEF StopInv, RestInv
    <2>3. Len(output') = Len(output) - 1 /\ Len(output) \in Nat
      BY <2>1, <2>2
    <2> QED
      BY <2>1, <2>2, <2>3 DEF RestInv
  <1>11. CASE UNCHANGED vars
    BY <1>11 DEF vars, RestInv, ringVars, poseVars
  <1> QED
    BY <1>1, <1>2, <1>3, <1>4, <1>5, <1>6, <1>7, <1>8, <1>9, <1>10, <1>11 DEF Next

\* For every envelope, blend length and command: the operator's weight stays
\* between none and full, also when a mode is requested in the middle of a blend
\* (spline.rs, request_mode of loop_.rs), the rings keep their capacities, and
\* what the loop produces is inside the kinematic envelope (limits.rs).
THEOREM TypeCorrect == Spec => []TypeOK
  <1>1. Init => BlendInv /\ RestInv
    <2> SUFFICES ASSUME Init PROVE BlendInv /\ RestInv
      OBVIOUS
    <2>1. /\ Full \in Nat /\ Ticks \in Nat /\ InCap \in Nat /\ OutCap \in Nat
          /\ AuthorityTarget("Auto") = 0
      BY LoopAssumption DEF AuthorityTarget
    <2>2. BlendInv
      BY <2>1 DEF Init, BlendInv, Blend, NoBlend
    <2>3. Len(input) = 0 /\ Len(output) = 0
      <3>1. input = << >> /\ output = << >>
        BY DEF Init
      <3> QED
        BY <3>1, EmptySeq
    <2>4. Len(input) <= InCap /\ Len(output) <= OutCap
      BY <2>1, <2>3
    <2>5. /\ mode \in Mode /\ posed \in BOOLEAN /\ brake \in BOOLEAN
          /\ veto \in Caps \cup {0}
      BY Zenon DEF Init, Mode
    <2> QED
      BY <2>2, <2>4, <2>5, Zenon DEF RestInv
  <1>2. FlagInv /\ StopInv /\ EnvelopeInv /\ BlendInv /\ RestInv => TypeOK
    <2> SUFFICES ASSUME StopInv, EnvelopeInv, BlendInv, RestInv PROVE TypeOK
      OBVIOUS
    <2>1. /\ output \in Seq(BOOLEAN) /\ actuator \in BOOLEAN /\ estop \in BOOLEAN
          /\ lastOut \in Command /\ vz \in Int
      BY DEF StopInv, EnvelopeInv
    <2> QED
      BY <2>1, Zenon DEF TypeOK, BlendInv, RestInv
  <1> QED
    BY <1>1, <1>2, FlagInit, FlagStep, StopInit, StopStep, EnvelopeInit, EnvelopeStep,
       BlendStep, RestStep, PTL DEF Spec
=============================================================================
