\* Cap 2 and cursors of two bits: the cursors wrap after two laps of the ring.
CONSTANTS
    Cap = 2
    Wrap = 4
    Val = {a, b}
    NoVal = NoVal
    LenCallers <- MCEndpoints
SPECIFICATION FairSpec
INVARIANTS
    NoSlotRace
    LenBounded
PROPERTIES
    IsFifo
    FrontConsumed
\* The ring stops for good once it is dropped.
CHECK_DEADLOCK FALSE
