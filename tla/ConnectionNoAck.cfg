SPECIFICATION Spec
CONSTANTS
    PathMtu = 2
    RetransmitCount = 2
    MaxRequests = 1
    MaxData = 0
    MaxEvents = 4
    DataChannels <- MCDataChannels
    Mtus <- MCMtus
INVARIANT NotificationAcked
CHECK_DEADLOCK FALSE
