\* Five operator weights, blends of two ticks, full-scale commands against
\* limits that take several ticks, and a ceiling that a fast climb predicts.
CONSTANTS
    Full = 4
    Ticks = 2
    MaxLat = 2
    LatStep = 1
    MaxThr = 3
    ThrStep = 1
    Neutral = 2
    Pin = 1
    MaxAlt = 4
    Poses <- MCPoses
    Commands <- MCCommands
    Baselines <- MCBaselines
    Caps = {1}
    InCap = 1
    OutCap = 1
SPECIFICATION Spec
PROPERTIES
    SlewBounded
    VetoConverges
    StopIsFinal
    CeilingPinned
