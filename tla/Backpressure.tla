---------------------------- MODULE Backpressure ----------------------------
(***************************************************************************)
(* The congestion estimator and token bucket of the network thread         *)
(* (src/crates/tpt-t-link/src/backpressure.rs), and the encoder governor   *)
(* that reads it on the media thread                                       *)
(* (src/crates/tpt-t-media/src/encoder.rs).                                *)
(*                                                                         *)
(* Only the network thread writes the estimator, as its header says, so    *)
(* one of its calls is one step.  The link under it is blocked or clear;   *)
(* a send blocks only while it is blocked.  Time is counted in ticks,      *)
(* Second of them to the second; rates are in bits per second and small.   *)
(***************************************************************************)
EXTENDS Integers, FiniteSetsExt

CONSTANTS
    Capacity,       \* values of capacity_bps
    Datagram,       \* sizes of telemetry datagrams, in bytes
    RttSample,      \* round trips the reliable channel measures
    Second,         \* ticks in a second
    HighScore,      \* blocked sends from which congestion is high: 8
    CriticalScore,  \* and critical: 40
    WindowSpan,     \* ticks of the observation window (100 ms)
    MinBps, MaxBps, \* the session's legal bitrates
    MinStep,        \* EncoderGovernor.min_step
    MaxClock,       \* bound on the clock
    MaxBlocked      \* bound on the blocked sends of a window

ASSUME BackpressureAssumption ==
    /\ Capacity \subseteq Nat \ {0} /\ Capacity # {} /\ IsFiniteSet(Capacity)
    /\ Datagram \subseteq Nat
    /\ MinBps \in Nat /\ MaxBps \in Nat /\ MinBps <= MaxBps
    /\ HighScore \in Nat \ {0} /\ CriticalScore \in Nat /\ HighScore < CriticalScore
    /\ MinStep \in Nat \ {0} /\ Second \in Nat \ {0} /\ WindowSpan \in Nat

VARIABLES
    clock,          \* now_ns of the network thread
    linkClear,      \* sends do not block
    capacity,       \* capacity_bps
    tokens,         \* whole bytes of credit
    lastRefill,     \* last_refill_ns
    blocked,        \* blocked_window
    windowStart,    \* window_start_ns, 0 before the first blocked send
    rtt,            \* rtt_ewma_ns
    bitrate,        \* EncoderGovernor.last, and the encoder's bitrate
    burst           \* history: bits sent beyond what the link's rate allows,
                    \* times Second

networkVars == <<capacity, tokens, lastRefill, blocked, windowStart, rtt>>
pressureVars == <<clock, linkClear, networkVars, bitrate, burst>>

Level == {"Normal", "Elevated", "High", "Critical"}

-----------------------------------------------------------------------------
\* Backpressure::new and EncoderGovernor::new.
PressureInit ==
    /\ clock = 0 /\ linkClear = TRUE
    /\ capacity \in Capacity
    /\ tokens = 0 /\ lastRefill = 0
    /\ blocked = 0 /\ windowStart = 0
    /\ rtt = 0
    /\ bitrate = MinBps
    /\ burst = 0

\* bitrate_fraction_bp, in basis points.
BitrateFraction ==
    [l \in Level |-> CASE l = "Normal"   -> 10000
                       [] l = "Elevated" -> 7000
                       [] l = "High"     -> 4500
                       [] l = "Critical" -> 2500]

\* congestion; no caller reports a queue depth, which therefore stays 0.
Congestion ==
    CASE blocked = 0                               -> "Normal"
      [] blocked \in 1 .. HighScore - 1            -> "Elevated"
      [] blocked \in HighScore .. CriticalScore - 1 -> "High"
      [] blocked >= CriticalScore                  -> "Critical"

\* suggested_bitrate_bps.
SuggestedBitrate == (capacity * BitrateFraction[Congestion]) \div 10000

-----------------------------------------------------------------------------
(***************************************************************************)
(* The network thread                                                      *)
(***************************************************************************)
\* set_capacity_bps.
SetCapacity(bps) ==
    /\ capacity' = bps
    /\ UNCHANGED <<clock, linkClear, tokens, lastRefill, blocked, windowStart, rtt, bitrate, burst>>

\* A mutated form: the interval is credited again at the next call.
RefillAgain ==
    [tokens |-> Min({tokens + (capacity * (clock - lastRefill)) \div (8 * Second),
                     Max({capacity \div 8, 1})}),
     last   |-> lastRefill]

\* refill: whole bytes are credited for the time since the last call, up to
\* the burst; the rest of the interval is forgotten.
Refill ==
    LET gained == (capacity * (clock - lastRefill)) \div (8 * Second)
    IN  [tokens |-> IF gained = 0 THEN tokens
                    ELSE Min({tokens + gained, Max({capacity \div 8, 1})}),
         last   |-> clock]

\* send_telemetry: admit spends the credit, or counts a drop and sends nothing.
Admit(bytes) ==
    LET bucket == Refill
        spent  == bytes <= bucket.tokens
    IN  /\ lastRefill' = bucket.last
        /\ tokens' = bucket.tokens - (IF spent THEN bytes ELSE 0)
        /\ burst' = burst + (IF spent THEN bytes * 8 * Second ELSE 0)
        /\ UNCHANGED <<clock, linkClear, capacity, blocked, windowStart, rtt, bitrate>>

\* send_framed met EWOULDBLOCK: note_send_blocked.
NoteSendBlocked ==
    /\ ~linkClear
    /\ IF windowStart = 0 \/ clock - windowStart > WindowSpan
       THEN blocked' = 1 /\ windowStart' = Max({clock, 1})
       ELSE blocked < MaxBlocked /\ blocked' = blocked + 1 /\ UNCHANGED windowStart
    /\ UNCHANGED <<clock, linkClear, capacity, tokens, lastRefill, rtt, bitrate, burst>>

\* on_ack measured a round trip: note_rtt_ns.
NoteRtt(sample) ==
    /\ rtt' = IF rtt = 0 THEN sample ELSE rtt - rtt \div 4 + sample \div 4
    /\ UNCHANGED <<clock, linkClear, capacity, tokens, lastRefill, blocked, windowStart,
                   bitrate, burst>>

(***************************************************************************)
(* The media thread                                                        *)
(***************************************************************************)
\* u64::clamp to the session's range.
Clamp(bps) == IF bps < MinBps THEN MinBps ELSE IF bps > MaxBps THEN MaxBps ELSE bps

\* What the governor aims at.
Want == Clamp(SuggestedBitrate)

\* A mutated form: without the floor a small target is never reached.
SlewQuarter(last, want) ==
    LET step == Min({want \div 4, IF want > last THEN want - last ELSE last - want})
    IN  IF want > last THEN last + step ELSE last - step

\* slew: at most a quarter of the target, at least min_step, never past it.
Slew(last, want) ==
    LET delta == IF want > last THEN want - last ELSE last - want
        step  == Min({delta, Max({want \div 4, MinStep})})
    IN  IF want > last THEN last + step ELSE last - step

\* EncoderGovernor::tick.
GovernorTick ==
    /\ bitrate' = Slew(bitrate, Want)
    /\ UNCHANGED <<clock, linkClear, networkVars, burst>>

(***************************************************************************)
(* The world                                                               *)
(***************************************************************************)
TimeGoes ==
    /\ clock < MaxClock
    /\ clock' = clock + 1
    /\ burst' = Max({0, burst - Max(Capacity)})
    /\ UNCHANGED <<linkClear, networkVars, bitrate>>

LinkChanges ==
    /\ linkClear' = ~linkClear
    /\ UNCHANGED <<clock, networkVars, bitrate, burst>>

PressureNext ==
    \/ \E bps \in Capacity : SetCapacity(bps)
    \/ \E bytes \in Datagram : Admit(bytes)
    \/ \E sample \in RttSample : NoteRtt(sample)
    \/ NoteSendBlocked
    \/ GovernorTick
    \/ TimeGoes
    \/ LinkChanges

\* The media thread ticks its governor once per frame.
PressureSpec == PressureInit /\ [][PressureNext]_pressureVars /\ WF_pressureVars(GovernorTick)

-----------------------------------------------------------------------------
(***************************************************************************)
(* Properties                                                              *)
(***************************************************************************)
\* The bucket conforms: in any interval the telemetry admitted is at most one
\* second of the best capacity plus what the link carries meanwhile.
BurstBounded == burst <= Max({Max({c \div 8, 1}) : c \in Capacity}) * 8 * Second

\* Once the target stays what it is, the encoder's bitrate gets there and
\* stays: rounding in slew neither stops it short nor makes it oscillate.
BitrateFollows ==
    <>[][Want' = Want]_pressureVars => <>[](bitrate = Want)

\* What the header of encoder.rs says of the pair ("shrinks when the network
\* is congested, grows when it clears"): when the link stays clear, the
\* encoder returns to the full bitrate.
BitrateRecovers ==
    <>[]linkClear => <>[](bitrate = Clamp(capacity))
=============================================================================
