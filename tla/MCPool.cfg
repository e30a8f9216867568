\* Three threads, two cells and two slots, positions of three bits.
CONSTANTS
    Thread = {t1, t2, t3}
    Size = 2
    Cap = 2
    Wrap = 8
    MaxLag = 2
    Val <- MCVal
    NoVal = NoVal
SPECIFICATION MCSpec
SYMMETRY MCSymmetry
INVARIANT
    PoolExact
PROPERTY
    IsQueue
