\* Delivery of a stream longer than the window, over a network that loses,
\* repeats and reorders.
CONSTANTS
    M = 8
    Window = 4
    SackBits = 2
    MaxAge = 1
    MaxSend = 6
    MaxAcks = 1
SPECIFICATION FairSpec
PROPERTY SentIsDelivered
