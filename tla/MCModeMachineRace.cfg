\* Two threads, three commits.
CONSTANTS
    loop = loop
    other = other
    Mutators = {loop, other}
    EventCap = 2
    MaxCommits = 3
SPECIFICATION RaceSpec
PROPERTY StagedHandover
CHECK_DEADLOCK FALSE
