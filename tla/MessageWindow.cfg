SPECIFICATION Spec
CONSTANTS
    HalfSeq = 8
    MaxGap = 5
    Numbers <- MCNumbers
INVARIANTS TypeOK WindowMatchesHistory
PROPERTY ImplementsNumberSet
