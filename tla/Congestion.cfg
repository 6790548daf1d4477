SPECIFICATION Spec
CONSTANTS
    HalfSeq = 16
    Mtu = 4
    FirstSeq = 30
    MaxWaiting = 4
    MaxDatagrams = 8
INVARIANTS TypeOK RecoversBySlowStart
PROPERTY OneCutPerRoundTrip
CHECK_DEADLOCK FALSE
