\* The media side of the fleet is switched off (no viewers, no room to record);
\* two clients compete for one connection.
CONSTANTS
    Unit = {u1}
    FleetOperator = {op}
    Nobody = Nobody
    MaxViewers = 0
    ViewCap = 1
    FrameSeq = {}
    PayLen = {}
    MaxPayload = 0
    MaxCells = 0
    MaxFrames = 0
    MaxCommands = 2
    Client = {c1, c2}
    admin = admin
    agent = agent
    stranger = stranger
    Cred = {admin, agent, stranger}
    NoCred = NoCred
    Enrolled <- MCEnrolled
    MaxConns = 1
    IdleTimeout = 1
    RequestLen = 2
SPECIFICATION ServerSpec
INVARIANT ConnsAccounted
PROPERTIES
    GatedMutation
    ClientResolved
CHECK_DEADLOCK FALSE
