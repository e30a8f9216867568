\* Two commands are enough.
CONSTANTS
    M = 8
    Window = 2
    SackBits = 2
    MaxAge = 4
    MaxSend = 2
    MaxAcks = 1
    OutCap = 2
SPECIFICATION ServiceSpec
PROPERTY SinkInOrderOnce
