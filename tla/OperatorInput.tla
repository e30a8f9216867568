--------------------------- MODULE OperatorInput ---------------------------
(***************************************************************************)
(* The operator's controller, from the kernel's event queue to the command *)
(* ring (src/crates/tpt-t-input/src/linux_evdev.rs, evdev_parse.rs,        *)
(* report.rs, map.rs and InputStage in pipeline.rs).                       *)
(*                                                                         *)
(* Axes are integers in units of 1 / Unit, throttle in half units.  evdev  *)
(* reports changes only, and when its queue overflows it forgets what is   *)
(* queued and says so.  The safety loop takes commands from the ring.  The *)
(* sequence number of a report, which decides nothing, is left out.        *)
(***************************************************************************)
EXTENDS Integers, Sequences

CONSTANTS
    AbsCode,        \* the absolute axes the device has
    Key,            \* its buttons, by code
    AbsRange,       \* EVIOCGABS: the device's range of every axis, <<min, max>>
    DefaultRange,   \* the calibration of a slot whose axis is absent
    Unit,           \* 1.0
    DeadZone,       \* ControllerMap.deadzone
    EventCap,       \* capacity of the kernel's event queue
    CommandCap      \* capacity of the command ring

ASSUME InputAssumption ==
    /\ AbsCode \subseteq {"X", "Y", "RX", "Z", "RZ", "THROTTLE", "RUDDER", "HAT0X"}
    /\ AbsRange \in [AbsCode -> Int \X Int] /\ DefaultRange \in Int \X Int
    /\ Unit \in Nat \ {0} /\ DeadZone \in 1 .. Unit - 1
    /\ EventCap \in Nat \ {0} /\ CommandCap \in Nat \ {0}

VARIABLES
    stick,      \* the position of every axis of the device
    pressed,    \* its buttons held down
    unheard,    \* those held since before the device was opened
    events,     \* the kernel's event queue
    gap,        \* the accumulator may have missed a change: overflow or reopen
    axes,       \* EvdevAccumulator.axes
    buttons,    \* EvdevAccumulator.buttons
    moved,      \* the axis each slot of the accumulator was last written from
    command,    \* the command of the last tick that produced one
    commands,   \* the command ring
    refused     \* that command was refused by a full ring

inputVars == <<stick, pressed, unheard, events, gap, axes, buttons, moved, command, commands, refused>>

Slot == {"ROLL", "PITCH", "YAW", "THROTTLE", "LAT_X", "LAT_Y", "SPARE0", "SPARE1"}

\* The slot push_abs writes for an axis.
SlotOf(code) ==
    CASE code = "X"                   -> "ROLL"
      [] code = "Y"                   -> "PITCH"
      [] code \in {"RX", "RUDDER"}    -> "YAW"
      [] code \in {"RZ", "THROTTLE"}  -> "THROTTLE"
      [] code = "Z"                   -> "SPARE0"
      [] code = "HAT0X"               -> "LAT_X"

\* CAL_CODES: the axis whose range calibrates a slot.
CalCode(slot) ==
    CASE slot = "ROLL"     -> "X"
      [] slot = "PITCH"    -> "Y"
      [] slot = "YAW"      -> "RX"
      [] slot = "THROTTLE" -> "THROTTLE"
      [] slot = "LAT_X"    -> "RUDDER"
      [] slot = "LAT_Y"    -> "HAT0X"
      [] slot = "SPARE0"   -> "Z"
      [] slot = "SPARE1"   -> "RZ"

\* EvdevSource::open: EVIOCGABS fails for an axis the device does not have.
Calib(slot) == IF CalCode(slot) \in AbsCode THEN AbsRange[CalCode(slot)] ELSE DefaultRange

ClampTo(v, low, high) == IF v < low THEN low ELSE IF v > high THEN high ELSE v

\* The position of a value in a range, from -1 to 1.
Norm(v, range) ==
    LET span == IF range[2] > range[1] THEN range[2] - range[1] ELSE 1
    IN  ClampTo(((v - range[1]) * 2 * Unit) \div span - Unit, -Unit, Unit)

Oriented(code, v) == IF code = "Y" THEN -v ELSE v       \* stick Y reports forward-negative

\* A button's bit in a report.
Bit(key) == key % 32

\* A mutated form: a centred axis is no news.
PushAbsMoved(ax, code, value) ==
    LET v == Norm(value, Calib(SlotOf(code)))
    IN  IF v = 0 THEN ax ELSE [ax EXCEPT ![SlotOf(code)] = Oriented(code, v)]

\* EvdevAccumulator::push_abs.
PushAbs(ax, code, value) ==
    [ax EXCEPT ![SlotOf(code)] = Oriented(code, Norm(value, Calib(SlotOf(code))))]

\* EvdevAccumulator::push_key.
PushKey(bits, key, down) == IF down THEN bits \cup {Bit(key)} ELSE bits \ {Bit(key)}

\* dz.
Dz(v) ==
    IF v \in -DeadZone .. DeadZone THEN 0
    ELSE IF v > 0 THEN ((v - DeadZone) * Unit) \div (Unit - DeadZone)
                  ELSE -(((-v - DeadZone) * Unit) \div (Unit - DeadZone))

\* ControllerMap::apply with the default map; the lateral and spare slots feed
\* no channel, and the buttons of the report are not read.
Apply(ax) ==
    [roll     |-> Dz(ax["ROLL"]),
     pitch    |-> Dz(ax["PITCH"]),
     yaw      |-> Dz(ax["YAW"]),
     throttle |-> ClampTo(ax["THROTTLE"] + Unit, 0, 2 * Unit)]

-----------------------------------------------------------------------------
Positions(code) == AbsRange[code][1] .. AbsRange[code][2]

NoAxes == [s \in Slot |-> 0]
Unmoved == [s \in Slot |-> "none"]

\* The device is opened with its axes anywhere and any of its buttons held
\* down: open reads the range of an axis and not where it stands.
InputInit ==
    /\ stick \in [AbsCode -> UNION {Positions(c) : c \in AbsCode}]
    /\ \A c \in AbsCode : stick[c] \in Positions(c)
    /\ pressed \in SUBSET Key /\ unheard = pressed
    /\ events = << >> /\ gap = FALSE
    /\ axes = NoAxes /\ buttons = {} /\ moved = Unmoved
    /\ command = Apply(NoAxes) /\ commands = << >> /\ refused = FALSE

\* The kernel queues an event; a full queue is emptied for it.
Queue(e) ==
    IF Len(events) < EventCap
    THEN events' = Append(events, e) /\ UNCHANGED gap
    ELSE events' = <<[kind |-> "SYN_DROPPED"], e>> /\ gap' = TRUE

Move(code, value) ==
    /\ stick[code] # value
    /\ stick' = [stick EXCEPT ![code] = value]
    /\ Queue([kind |-> "ABS", code |-> code, value |-> value])
    /\ UNCHANGED <<pressed, unheard, axes, buttons, moved, command, commands, refused>>

Press(key) ==
    /\ pressed' = IF key \in pressed THEN pressed \ {key} ELSE pressed \cup {key}
    /\ unheard' = unheard \ {key}
    /\ Queue([kind |-> "KEY", code |-> key, value |-> key \notin pressed])
    /\ UNCHANGED <<stick, axes, buttons, moved, command, commands, refused>>

\* EvdevAccumulator::push over the events of a drain, in their order: what
\* becomes of the axes, of the record of who wrote them, and of the buttons.
AxesAfter(ev, ax) ==
    LET after[i \in 0 .. Len(ev)] ==
          IF i = 0 THEN ax
          ELSE IF ev[i].kind = "ABS" THEN PushAbs(after[i - 1], ev[i].code, ev[i].value)
          ELSE after[i - 1]
    IN  after[Len(ev)]
MovedAfter(ev, mv) ==
    LET after[i \in 0 .. Len(ev)] ==
          IF i = 0 THEN mv
          ELSE IF ev[i].kind = "ABS" THEN [after[i - 1] EXCEPT ![SlotOf(ev[i].code)] = ev[i].code]
          ELSE after[i - 1]
    IN  after[Len(ev)]
ButtonsAfter(ev, bits) ==
    LET after[i \in 0 .. Len(ev)] ==
          IF i = 0 THEN bits
          ELSE IF ev[i].kind = "KEY" THEN PushKey(after[i - 1], ev[i].code, ev[i].value)
          ELSE after[i - 1]
    IN  after[Len(ev)]

\* EvdevSource::poll: drain, and a snapshot when an event was applied.
Drain ==
    /\ events' = << >>
    /\ axes' = AxesAfter(events, axes)
    /\ moved' = MovedAfter(events, moved)
    /\ buttons' = ButtonsAfter(events, buttons)

\* InputStage::tick: nothing without a fresh report; else a command, which a
\* full ring refuses.
InputTick ==
    /\ events # << >>
    /\ Drain
    /\ IF \A i \in 1 .. Len(events) : events[i].kind = "SYN_DROPPED"
       THEN UNCHANGED <<command, commands, refused>>
       ELSE /\ command' = Apply(axes')
            /\ refused' = (Len(commands) = CommandCap)
            /\ commands' = IF Len(commands) < CommandCap THEN Append(commands, command') ELSE commands
    /\ UNCHANGED <<stick, pressed, unheard, gap>>

\* EvdevSource::reopen: a new descriptor, a new accumulator.  What is held down
\* or displaced is not reported again.
Reopen ==
    /\ events' = << >>
    /\ axes' = NoAxes /\ buttons' = {} /\ moved' = Unmoved
    /\ gap' = TRUE /\ unheard' = pressed
    /\ UNCHANGED <<stick, pressed, command, commands, refused>>

\* The safety loop pops a command.
TakeCommand ==
    /\ commands # << >>
    /\ commands' = Tail(commands)
    /\ UNCHANGED <<stick, pressed, unheard, events, gap, axes, buttons, moved, command, refused>>

InputNext ==
    \/ \E code \in AbsCode : \E value \in Positions(code) : Move(code, value)
    \/ \E key \in Key : Press(key)
    \/ InputTick \/ Reopen \/ TakeCommand

InputSpec == InputInit /\ [][InputNext]_inputVars

-----------------------------------------------------------------------------
\* An axis with a slot calibrated by its own range, last written from it.
Own(code) == CalCode(SlotOf(code)) = code /\ moved[SlotOf(code)] \in {code, "none"}

\* What the position of an axis is in a report.
Reported(code) == Oriented(code, Norm(stick[code], AbsRange[code]))

\* What a command should have of an axis: the position it has moved to, and the
\* centre as long as it has not moved, wherever it stood at open.
Expected(code) ==
    LET v == IF moved[SlotOf(code)] = "none" THEN 0 ELSE Reported(code)
    IN  IF code = "THROTTLE" THEN v + Unit ELSE Dz(v)

\* No other button of the device has the bit of this one.
OwnBit(key) == \A other \in Key : Bit(other) = Bit(key) => other = key

\* Once everything the device reported has been drained, and unless its queue
\* overflowed or it was reopened, the last command the input stage made has
\* every axis that moved since open where the stick is: a stick that came back
\* to the centre does not leave its deflection behind (EvdevAccumulator::push,
\* ControllerMap::apply, InputStage::tick).  An axis that has not moved is
\* commanded as centred, wherever it stands (SnapshotIsController).  That
\* command is the newest in the ring, unless a full ring refused it
\* (FreshInputQueued).  No bit is set without a button held down, and a button
\* that shares its bit with no other and went down since open is seen while it
\* is held.
CommandFollowsStick ==
    (events = << >> /\ ~gap) =>
        /\ \A code \in AbsCode : Own(code) =>
             CASE SlotOf(code) = "ROLL"     -> command.roll = Expected(code)
               [] SlotOf(code) = "PITCH"    -> command.pitch = Expected(code)
               [] SlotOf(code) = "YAW"      -> command.yaw = Expected(code)
               [] SlotOf(code) = "THROTTLE" -> command.throttle = Expected(code)
               [] OTHER                     -> TRUE
        /\ buttons \subseteq {Bit(key) : key \in pressed}
        /\ \A key \in pressed \ unheard : OwnBit(key) => Bit(key) \in buttons
        /\ (commands # << >> /\ ~refused) => commands[Len(commands)] = command

\* A report is a "Normalized controller snapshot produced every successful"
\* poll (doc of ControllerReport): once one was made and all is drained, it has
\* the position of every axis.  The position at open is read and dropped, so an
\* axis that was displaced then and has not moved is reported as centred.
SnapshotIsController ==
    (events = << >> /\ ~gap /\ moved # Unmoved) =>
        \A code \in AbsCode : Own(code) => axes[SlotOf(code)] = Reported(code)

\* "Polls and, on fresh input, produces + queues one command" (doc of tick):
\* the newest command in the ring is the last one made.  A full ring refuses
\* it, and what the safety loop takes last is the position before.
FreshInputQueued == commands # << >> => commands[Len(commands)] = command
=============================================================================
