SPECIFICATION RetriedSpec
CONSTANTS
  Procs = {p1, p2}
  NoProc = NoProc
  Absent = Absent
  Edited = Edited
  MaxRuns = 2
  MaxFaults = 1
  MaxCrashes = 1
  MaxEdits = 1
INVARIANTS
  TypeOK
  NoLoss
  AllOrNothing
  RefusalIsExplained
PROPERTIES
  AppliesAreReported
  RemovedOrRefused
