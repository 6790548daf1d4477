SPECIFICATION FairSpec
CONSTANTS
    HalfSeq = 3
    FirstIndex = 4
    MaxMessages = 3
    MaxAhead = 2
    HeapCap = 2
    OrderedSubKey = 2
PROPERTIES OrderedDelivery
CHECK_DEADLOCK FALSE
