SPECIFICATION FairSpecAll
CONSTANTS
    MaxMessages = 3
    Unreliable = {1}
    Empty = {}
    FramesPerDatagram = 1
    MaxResend = 2
    MaxHistory = 8
    RecvWindowSize = 2
    MaxSkip = 8
    MaxNak = 8
    MaxGap = 1
    MaxAckSeqs = 8
    AckRoom = 100
    RttKnown = FALSE
    EarlyTimers = FALSE
    MaxDatagrams = 100
    MaxReorder = 1
    MaxFaults = 1
    HalfSeq = 4
    OrderedSubKey = 3
INVARIANT NothingGivenUp
PROPERTIES ImplementsOrderedChannel OrderedDelivery SenderDrains
