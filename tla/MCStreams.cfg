\* Eight sequence numbers and a stream longer than that; the sender's window
\* is wider than the reorder window, as in the program.  Bytes for one more than
\* the capture buffer holds.  A unit that is sent up to five commands, over paths
\* of two segments that fail at either.  Two viewers with rings of two, so that
\* one is slow while the other is not; a payload that fits and one that does
\* not; room for two frames in the file, of which a session publishes three.
CONSTANTS
    M = 8
    Window = 4
    SackBits = 3
    MaxAge = 4
    MaxSend = 9
    MaxAcks = 1
    Dialect <- MCDialect
    BufferLen = 9
    MaxStream = 10
    Unit = {u1}
    FleetOperator = {op}
    Nobody = Nobody
    MaxViewers = 2
    ViewCap = 2
    FrameSeq = {1, 2}
    PayLen = {1, 2}
    MaxPayload = 1
    MaxCells = 5
    MaxFrames = 3
    MaxCommands = 5
SPECIFICATION StreamsSpec
INVARIANTS
    DeliveryExact
    RetainedUntilReceived
    CleanFramesEmitted
    CommandsReplayMode
    FanOutExact
    RecordingReadsBack
CHECK_DEADLOCK FALSE
