SPECIFICATION Spec
CONSTANTS
    MaxMessages = 2
    Unreliable = {}
    Empty = {}
    FramesPerDatagram = 1
    MaxResend = 1
    MaxHistory = 2
    RecvWindowSize = 2
    MaxSkip = 8
    MaxNak = 8
    MaxGap = 8
    MaxAckSeqs = 8
    AckRoom = 100
    RttKnown = TRUE
    EarlyTimers = TRUE
    MaxDatagrams = 3
    MaxReorder = 1
    MaxFaults = 1
PROPERTIES SendsBlockedWhenFull
