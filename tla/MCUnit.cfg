\* One mutator, as in the program, and a ring that fills up before the commits
\* end; two operators, so that one may take over from the other.  A recorder
\* whose entries straddle sectors.  Two units in the same probe chain of a
\* table they fill.  A fast and a slow link, below a byte per tick, for two
\* seconds; congestion levels a blocked send apart.  Two io_uring slots and
\* datagrams enough to use them up while submissions fail.
CONSTANTS
    Mutators = {m1}
    EventCap = 2
    MaxCommits = 5
    Operator = {alice, bob}
    None = None
    RecRingCap = 2
    EntryLen = 2
    SectorLen = 5
    MaxRecords = 9
    Neighbor = {u1, u2}
    Address = {a1, a2}
    TableCap = 2
    HomeSlot <- MCHomeSlot
    SeqMod = 4
    Ttl = 1
    FlapCooldown = 1
    MaxSkew = 0
    BeaconPeers = {a1}
    Vacant = Vacant
    Capacity = {4, 24}
    Datagram = {1, 2}
    RttSample = {4}
    Second = 2
    HighScore = 2
    CriticalScore = 3
    WindowSpan = 1
    MinBps = 3
    MaxBps = 20
    MinStep = 2
    MaxClock = 4
    MaxBlocked = 3
    Slots = 2
    MaxTransmit = 4
SPECIFICATION UnitSpec
INVARIANTS
    LogReplaysMode
    MotionHeld
    FileIsPrefix
    FindFreshest
    BurstBounded
    SlotsAccounted
PROPERTIES
    StopJoins
    GovernorFollows
CHECK_DEADLOCK FALSE
