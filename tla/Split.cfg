SPECIFICATION Spec
CONSTANTS
    MaxSplits = 4
    MaxFragments = 4
    MaxCount = 3
    IdMod = 3
    MaxTrackers = 2
    Timeout = 1
    MaxClock = 2
INVARIANTS TypeOK ReassembledIntact LossOnlyByEviction
