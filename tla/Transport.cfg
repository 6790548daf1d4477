SPECIFICATION Spec
CONSTANTS
    MaxMessages = 3
    Unreliable = {1}
    Empty = {1}
    FramesPerDatagram = 2
    MaxResend = 1
    MaxHistory = 2
    RecvWindowSize = 1
    MaxSkip = 2
    MaxNak = 1
    MaxGap = 0
    MaxAckSeqs = 1
    AckRoom = 7
    RttKnown = TRUE
    EarlyTimers = TRUE
    MaxDatagrams = 3
    MaxReorder = 1
    MaxFaults = 1
INVARIANTS TypeOK NoSilentLoss UnackedAccounting
PROPERTIES ReportsTruthful ImplementsChannel
