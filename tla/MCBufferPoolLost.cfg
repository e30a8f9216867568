CONSTANTS
    Thread = {t1, t2}
    Size = 2
    Cap = 2
    Wrap = 8
    MaxLag = 2
    Val <- MCVal
    NoVal = NoVal
SPECIFICATION Spec
INVARIANT NoSlotLost
