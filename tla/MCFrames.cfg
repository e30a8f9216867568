\* Two peers, interchangeable, and handshakes enough for one to be repeated or
\* reflected; two frames, each received damaged or whole; rings that fill up at
\* every stage, and two alarms.  A controller that is opened in any position and
\* whose queue and command ring overflow; two operators, whose heartbeats run
\* out; a shared segment too short for a slot, for two and for four, whose
\* processes die three times; two descriptors registered three times between
\* them.
CONSTANTS
    Peer = {unit, cloud}
    Suites <- MCSuites
    Offers <- MCOffers
    Supported <- MCSupported
    NoSession = NoSession
    BlockCap = 1
    MaxEph = 4
    MaxSealed = 2
    MaxPayload = 1
    MaxFrames = 2
    MaxReceived = 3
    RingCap = 1
    MaxCommands = 3
    MaxAlarms = 2
    AbsCode = {"Y", "THROTTLE", "RZ"}
    Key = {1}
    AbsRange <- MCAbsRange
    DefaultRange <- MCDefaultRange
    Unit = 2
    DeadZone = 1
    EventCap = 2
    CommandCap = 1
    MaxOperators = 2
    HubTimeout = 2
    MaxHubClock = 3
    RegionLen = {10, 136, 152}
    SharedHeaderLen = 128
    CacheLine = 64
    ItemLen = 5
    MaxItems = 5
    MaxDeaths = 3
    Fd = {f1, f2}
    MaxToken = 3
    MaxActivity = 1
    MaxQueued = 2
    BatchLen = 1
    HttpDocs <- MCHttpDocs
    HeaderOrders <- MCHeaderOrders
SPECIFICATION FramesSpec
SYMMETRY MCPeers
INVARIANTS
    SessionsAgree
    NonceOnce
    DemuxedAsWritten
    RoutedInOrder
    CommandFollowsStick
    LowestLiveOwns
    SharedExactlyOnce
    EventsExact
    DocumentArrives
CHECK_DEADLOCK FALSE
