\* A retention window of two and two commands beyond it; a reorder window of two.
CONSTANTS
    M = 8
    Window = 2
    SackBits = 2
    MaxAge = 4
    MaxSend = 4
    MaxAcks = 1
    OutCap = 2
SPECIFICATION FairServiceSpec
INVARIANTS
    FreedIsDelivered
PROPERTY RetainedIsDelivered
