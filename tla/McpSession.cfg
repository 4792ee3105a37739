\* Three calls on two permits: the third is busy, or waits behind a free one.
CONSTANTS
    Calls = {1, 2, 3}
    Permits = 2
    MaxAttempts = 2
    AllowQueryTools = TRUE
SPECIFICATION Spec
INVARIANTS
    TypeOK
    PermitsAddUp
PROPERTIES
    CallsEnd
    SessionEnds
CHECK_DEADLOCK FALSE
