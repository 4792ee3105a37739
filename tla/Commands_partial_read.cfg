CONSTANTS
    Ids = {1, 2}
    MaxEdits = 1
    MaxFaults = 0
SPECIFICATION Spec
INVARIANT ExceptionReadIsWhole
CHECK_DEADLOCK FALSE
