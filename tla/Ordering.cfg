SPECIFICATION Spec
CONSTANTS
    HalfSeq = 8
    FirstIndex = 15
    MaxMessages = 6
    MaxAhead = 7
    HeapCap = 2
    OrderedSubKey = 7
INVARIANTS TypeOK DeliveredInSendOrder NoOrderedMessageSkipped NothingStranded LostOnlyToFullHeap
CHECK_DEADLOCK FALSE
