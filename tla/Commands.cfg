CONSTANTS
    Ids = {1, 2}
    MaxEdits = 2
    MaxFaults = 1
SPECIFICATION Spec
INVARIANTS
    TypeOK
    WritesWhatWasShown
    ReportIsTrue
    SuccessIsReal
    ReadsAreWhole
    OneChangeIsNoticed
    LeavesNothingOpen
PROPERTIES
    IsConfirmedRun
CHECK_DEADLOCK FALSE
