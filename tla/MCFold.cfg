CONSTANTS
    StallAfter = 1
    MaxTime = 4
    MaxChanges = 2
SPECIFICATION Spec
INVARIANTS
    TypeOK
    DurationsFit
    StallsInTime
PROPERTY StallClears
CHECK_DEADLOCK FALSE
