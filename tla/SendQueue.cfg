SPECIFICATION Spec
CONSTANTS
    Priorities = {0, 1, 3}
    MaxMessages = 5
    FramesPerDatagram = 2
INVARIANTS TypeOK FifoPerPriority QueuedOrSentOnce
 
CHECK_DEADLOCK FALSE
