SPECIFICATION FairSpec
CONSTANTS
    PathMtu = 2
    RetransmitCount = 1
    MaxRequests = 2
    MaxData = 1
    MaxEvents = 2
    DataChannels <- MCDataChannels
    Mtus <- MCMtus
INVARIANTS TypeOK HandshakeAgrees OneLife OrderedDataKept ConnectTruthful
PROPERTIES HalfOpenReclaimed EndIsSeen LoopStops
CHECK_DEADLOCK FALSE
