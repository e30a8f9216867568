----------------------------- MODULE SafetyLoop -----------------------------
(***************************************************************************)
(* The deterministic intercept loop of tpt-t-safety                        *)
(* (src/crates/tpt-t-safety/src/loop_.rs with geo.rs, limits.rs,           *)
(* latency.rs, spline.rs and veto.rs), composed with the mode machine it   *)
(* drives.  One thread owns the loop: it feeds poses, mode requests and    *)
(* stops between ticks; the operator side pushes commands into the input   *)
(* ring and the actuator side pops the output ring.                        *)
(*                                                                         *)
(* Of a command three fields are kept: `lat`, a translational axis whose   *)
(* positive direction points away from the fence centre, `thr`, the        *)
(* throttle, and `stop`, the E-stop flag.  Axes, weights, metres and       *)
(* metres per second are integers, and one tick is one second.  As the     *)
(* loop is the only caller of the mode machine's mutating methods, a call  *)
(* of them is one step (UnitProofs).                                       *)
(***************************************************************************)
EXTENDS Modes, Integers, Sequences

CONSTANTS
    Full,       \* authority weight of the operator in command
    Ticks,      \* transition_s, in ticks
    MaxLat,     \* max_lateral_norm
    LatStep,    \* max_axis_step
    MaxThr,     \* throttle 1.0
    ThrStep,    \* max_throttle_step
    Neutral,    \* THROTTLE_NEUTRAL
    Pin,        \* DESCEND_PIN_THROTTLE
    MaxAlt,     \* max_alt_m; min_alt_m is 0
    Poses,      \* poses the estimator reports: [z, at]
    Commands,   \* operator commands
    Baselines,  \* autonomy commands
    Caps,       \* caps an AI source may engage
    InCap,      \* capacity of the input ring
    OutCap      \* capacity of the output ring

ASSUME LoopAssumption ==
    /\ {Full, Ticks, MaxLat, LatStep, MaxThr, ThrStep, MaxAlt, InCap, OutCap} \subseteq Nat \ {0}
    /\ Full % 2 = 0
    /\ Pin \in Nat /\ Neutral \in Pin .. MaxThr
    /\ Caps \subseteq Nat \ {0}

\* No input stage and no autonomy raises the E-stop flag bit of a command.
ASSUME InputAssumption ==
    /\ Commands \cup Baselines \subseteq [lat : Int, thr : Int, stop : {FALSE}]
    /\ Poses \subseteq [z : Int, at : {"Inside", "SoftWarn", "HardBreach"}]

VARIABLES
    mode,       \* the mode machine's atomic
    input,      \* input ring
    output,     \* output ring: the E-stop flags of the commands in it
    actuator,   \* E-stop flag of the command the actuator side got last
    authority,  \* weight of the operator, 0 .. Full
    blend,      \* the authority blend
    baseline,   \* the latest autonomy command
    lastOut,    \* the last command the loop produced
    pose, posed, vz,    \* pose, have_prev_z, vz_est
    estop,      \* estop_latched
    brake,      \* brake_latched
    veto        \* cap of the AI veto, 0 when disengaged

ringVars  == <<input, output, actuator>>
blendVars == <<authority, blend>>
poseVars  == <<pose, posed, vz>>
vars == <<mode, ringVars, blendVars, baseline, lastOut, poseVars, estop, brake, veto>>

-----------------------------------------------------------------------------
(* Arithmetic.                                                             *)

Abs(x) == IF x < 0 THEN -x ELSE x

\* x * n / d, rounded toward zero.
Scale(x, n, d) == IF x < 0 THEN -((-x * n) \div d) ELSE (x * n) \div d

\* x.clamp(lo, hi)
Clamp(x, lo, hi) == IF x < lo THEN lo ELSE IF x > hi THEN hi ELSE x

-----------------------------------------------------------------------------
(* spline.rs                                                               *)

Blend == [from : 0 .. Full, to : 0 .. Full, elapsed : 0 .. Ticks]

\* authority_target
AuthorityTarget(m) ==
    CASE m = "Assist" -> Full \div 2
      [] m = "FullTeleop" -> Full
      [] OTHER -> 0

\* smootherstep(e / Ticks), times One
One == Ticks * Ticks * Ticks * Ticks * Ticks
Smootherstep(e) == e * e * e * (e * (6 * e - 15 * Ticks) + 10 * Ticks * Ticks)

\* AuthorityBlend::weight
Weight(b) == b.from + Scale(b.to - b.from, Smootherstep(b.elapsed), One)

\* No blend is a blend that has ended at the weight in use, and so is one that
\* has reached its target.
NoBlend(w) == [from |-> w, to |-> w, elapsed |-> Ticks]

\* AuthorityBlend::advance by n ticks
Advanced(b, n) == IF b.elapsed + n < Ticks THEN [b EXCEPT !.elapsed = @ + n] ELSE NoBlend(b.to)

\* The blend and the weight after n advances.
AdvanceBlend(n) ==
    /\ blend' = Advanced(blend, n)
    /\ authority' = Weight(Advanced(blend, n))

-----------------------------------------------------------------------------
(* The stages of the pipeline, on a command.                               *)

\* LatencyCompensator::compensate with attenuation k / 10, between 0.2 and 1.
Compensate(c, k) == [c EXCEPT !.lat = Scale(@, k, 10)]

\* The authority mix, skipped at full authority.
Mix(c, w) ==
    IF w = Full THEN c
    ELSE [c EXCEPT !.lat = Scale(baseline.lat * (Full - w) + @ * w, 1, Full),
                   !.thr = Scale(baseline.thr * (Full - w) + @ * w, 1, Full)]

\* A mutated form: only the positive side is capped.
ApplyVetoOneSided(c) == IF veto = 0 THEN c ELSE [c EXCEPT !.lat = Clamp(@, -MaxLat, veto)]

\* VetoGate::apply
ApplyVeto(c) == IF veto = 0 THEN c ELSE [c EXCEPT !.lat = Clamp(@, -veto, veto)]

\* GeoFence::evaluate; `at` is the verdict of the horizontal distance.
Evaluate ==
    IF pose.at = "HardBreach" \/ pose.z > MaxAlt \/ pose.z < 0 THEN "HardBreach"
    ELSE IF pose.at = "SoftWarn" \/ 20 * pose.z > 19 * MaxAlt THEN "SoftWarn"
    ELSE "Inside"

\* Clamp of the throttle at the ceiling and at the floor.
ClampThrottle(t) ==
    IF 20 * pose.z >= 19 * MaxAlt /\ t > Neutral THEN Neutral
    ELSE IF pose.z <= 0 /\ t < Neutral THEN Neutral
    ELSE t

\* GeoFence::clamp_command: the outward part goes entirely on a breach and by
\* half in the middle of the warning band.
ClampCommand(c) ==
    LET severity == IF Evaluate = "HardBreach" THEN 2 ELSE IF pose.at = "SoftWarn" THEN 1 ELSE 0
    IN  [c EXCEPT !.lat = IF @ > 0 THEN @ - Scale(@, severity, 2) ELSE @,
                  !.thr = ClampThrottle(@)]

Fence(c) == IF Evaluate = "Inside" THEN c ELSE ClampCommand(c)

\* A mutated form: the step is taken from the command, not from the last one.
SlewFromTarget(last, target, step) == target + Clamp(last - target, -step, step)

\* KinematicLimits::slew
Slew(last, target, step) == last + Clamp(target - last, -step, step)

\* KinematicLimits::apply
Limit(c) ==
    [c EXCEPT !.lat = Slew(lastOut.lat, Clamp(@, -MaxLat, MaxLat), LatStep),
              !.thr = Slew(lastOut.thr, Clamp(@, 0, MaxThr), ThrStep)]

\* pose.z + stop_dist >= max_alt_m with BRAKE_A = 3.45 and ESC_TAU_S = 0.15,
\* times 2 * BRAKE_A * 1000.
CeilingPredicted == 6900 * (pose.z - MaxAlt) + 1000 * vz * vz + 1035 * vz >= 0

\* A mutated form: the latch releases as soon as the climb is over.
BrakeNextEarly == CeilingPredicted

\* The vertical brake with its hysteresis.
BrakeNext ==
    /\ brake \/ CeilingPredicted
    /\ ~(2 * vz <= 1 /\ 10 * pose.z <= 9 * MaxAlt)

\* The pin of the throttle.
BrakeThrottle(c) ==
    LET pinned == IF BrakeNext /\ c.thr > Pin THEN Pin ELSE c.thr
    IN  [c EXCEPT !.thr = IF CeilingPredicted /\ pinned > Neutral THEN Pin ELSE pinned]

\* write_emergency_stop
StopCommand == [lat |-> 0, thr |-> 0, stop |-> TRUE]

-----------------------------------------------------------------------------
\* SafetyLoop::new on a fresh mode machine.
Init ==
    /\ mode = "Auto"
    /\ input = << >> /\ output = << >> /\ actuator = FALSE
    /\ authority = AuthorityTarget("Auto") /\ blend = NoBlend(authority)
    /\ baseline = [lat |-> 0, thr |-> 0, stop |-> FALSE]
    /\ lastOut = [lat |-> 0, thr |-> 0, stop |-> FALSE]
    /\ pose = [z |-> 0, at |-> "Inside"] /\ posed = FALSE /\ vz = 0
    /\ estop = FALSE /\ brake = FALSE /\ veto = 0

\* set_pose: the vertical speed is the difference to the pose before.
SetPose(p) ==
    /\ vz' = IF posed THEN p.z - pose.z ELSE vz
    /\ pose' = p
    /\ posed' = TRUE
    /\ UNCHANGED <<mode, ringVars, blendVars, baseline, lastOut, estop, brake, veto>>

SetAutonomyBaseline(c) ==
    /\ baseline' = c
    /\ UNCHANGED <<mode, ringVars, blendVars, lastOut, poseVars, estop, brake, veto>>

\* request_mode: refused unless the table allows the edge; a blend starts when
\* the weight is not at the target already.
RequestMode(m) ==
    /\ Allows(mode, m)
    /\ mode' = m
    /\ blend' = IF AuthorityTarget(m) = authority THEN blend
                ELSE [from |-> authority, to |-> AuthorityTarget(m), elapsed |-> 0]
    /\ UNCHANGED <<ringVars, authority, baseline, lastOut, poseVars, estop, brake, veto>>

\* emergency_stop
EmergencyStop ==
    /\ estop' = TRUE
    /\ mode' = "EmergencyStop"
    /\ UNCHANGED <<ringVars, blendVars, baseline, lastOut, poseVars, brake, veto>>

\* engage_ai_veto, disengage_ai_veto
EngageAiVeto(cap) ==
    /\ veto' = cap
    /\ UNCHANGED <<mode, ringVars, blendVars, baseline, lastOut, poseVars, estop, brake>>

DisengageAiVeto ==
    /\ veto' = 0
    /\ UNCHANGED <<mode, ringVars, blendVars, baseline, lastOut, poseVars, estop, brake>>

\* process_one with an empty input ring: only the blend advances.
ProcessIdle ==
    /\ input = << >>
    /\ AdvanceBlend(1)
    /\ UNCHANGED <<mode, ringVars, baseline, lastOut, poseVars, estop, brake, veto>>

\* The stages 1 to 4b, in their order.
Intercepted(c, k, w) == BrakeThrottle(Limit(Fence(ApplyVeto(Mix(Compensate(c, k), w)))))

\* A mutated form: a breach stops only while the fence is breached.
EstopNextUnlatched == Evaluate = "HardBreach"

\* The latch after this tick: a breach sets it, nothing resets it.
EstopNext == estop \/ Evaluate = "HardBreach"

\* process_one with commands: the newest runs through the pipeline, the others
\* are discarded.  The blend advances at the top of the tick and again in
\* stage 2.  A full output ring drops the result.
ProcessCommand(k) ==
    /\ input # << >>
    /\ input' = << >>
    /\ AdvanceBlend(2)
    /\ estop' = EstopNext
    /\ mode' = IF EstopNext /\ ~estop THEN "EmergencyStop" ELSE mode
    /\ brake' = BrakeNext
    /\ lastOut' = IF EstopNext THEN StopCommand ELSE Intercepted(input[Len(input)], k, authority')
    /\ output' = IF Len(output) < OutCap THEN Append(output, lastOut'.stop) ELSE output
    /\ UNCHANGED <<actuator, baseline, poseVars, veto>>

\* The operator side pushes, the actuator side pops.
OperatorPush(c) ==
    /\ Len(input) < InCap
    /\ input' = Append(input, c)
    /\ UNCHANGED <<mode, output, actuator, blendVars, baseline, lastOut, poseVars, estop, brake, veto>>

ActuatorPop ==
    /\ output # << >>
    /\ actuator' = Head(output)
    /\ output' = Tail(output)
    /\ UNCHANGED <<mode, input, blendVars, baseline, lastOut, poseVars, estop, brake, veto>>

-----------------------------------------------------------------------------
Attenuations == {2, 10}

Next ==
    \/ \E p \in Poses : SetPose(p)
    \/ \E c \in Baselines : SetAutonomyBaseline(c)
    \/ \E m \in Mode : RequestMode(m)
    \/ EmergencyStop
    \/ \E cap \in Caps : EngageAiVeto(cap)
    \/ DisengageAiVeto
    \/ ProcessIdle
    \/ \E k \in Attenuations : ProcessCommand(k)
    \/ \E c \in Commands : OperatorPush(c)
    \/ ActuatorPop

Spec == Init /\ [][Next]_vars

-----------------------------------------------------------------------------
(* Properties.                                                             *)

Command == [lat : -MaxLat .. MaxLat, thr : 0 .. MaxThr, stop : BOOLEAN]

\* What the loop produces stays inside the kinematic envelope, and weights and
\* blends keep their ranges.
TypeOK ==
    /\ mode \in Mode
    /\ Len(input) <= InCap /\ output \in Seq(BOOLEAN) /\ Len(output) <= OutCap
    /\ actuator \in BOOLEAN
    /\ authority \in 0 .. Full
    /\ blend \in Blend
    /\ lastOut \in Command
    /\ vz \in Int /\ posed \in BOOLEAN
    /\ estop \in BOOLEAN /\ brake \in BOOLEAN
    /\ veto \in Caps \cup {0}

\* A tick that produced a command: only process_one empties the input ring.
Processed == input # << >> /\ input' = << >>

\* "Even a hostile step input produces a bounded acceleration profile"
\* (limits.rs, module doc): whatever the operator sends, and through every
\* change of mode, weight, baseline, veto and fence verdict, consecutive
\* results of the loop differ by at most the slew limit in translation and
\* never climb faster than it, unless the stop overrides.
SlewBounded ==
    [][/\ Processed /\ ~estop'
       => /\ Abs(lastOut'.lat - lastOut.lat) <= LatStep
          /\ lastOut'.thr - lastOut.thr <= ThrStep]_vars

\* "While active, the human's translational commands are clamped to the
\* AI-derived cap" (loop_.rs, doc of engage_ai_veto): with the slew limit
\* after it, every result is inside the cap or one full step closer to it.
VetoConverges ==
    [][Processed /\ veto > 0
       => \/ Abs(lastOut'.lat) <= veto
          \/ Abs(lastOut'.lat) <= Abs(lastOut.lat) - LatStep]_vars

\* "Every subsequently processed command is the zeroed safe state; the latch
\* is sticky" (loop_.rs, doc of emergency_stop): once a stop has reached the
\* actuator side nothing else ever does, whatever modes are requested and
\* wherever the vehicle goes.
StopIsFinal ==
    [][actuator => actuator']_actuator

\* "Pin thrust there immediately [...] the pin LATCHES on trigger" (loop_.rs,
\* stage 4b): from the tick that predicts the ceiling on, until the vehicle is
\* back under nine tenths of it, no result exceeds the descent throttle.
CeilingPinned ==
    [][Processed /\ (CeilingPredicted \/ brake) /\ 10 * pose.z > 9 * MaxAlt
       => lastOut'.thr <= Pin]_vars

\* The blend in progress leads to the weight of the current mode ("starts a
\* spline blend toward the matching authority target", loop_.rs, doc of
\* request_mode): once it has ended, that is the weight in use.
BlendEnded == blend.elapsed = Ticks
AuthorityFollowsMode ==
    BlendEnded /\ mode # "EmergencyStop" => authority = AuthorityTarget(mode)

\* "E-stop overrides output" (spline.rs, authority_target): while the mode
\* machine is in EmergencyStop, what the loop produces is the stop.
StoppedModeStops ==
    [][Processed /\ mode' = "EmergencyStop" => lastOut' = StopCommand]_vars
=============================================================================
