SPECIFICATION RetriedSpec
CONSTANTS
  Files = {1, 2}
  Procs = {p1}
  NoProc = NoProc
  Absent = Absent
  Edited = Edited
  MaxPulls = 2
  MaxFaults = 1
  MaxCrashes = 1
  MaxEdits = 1
PROPERTY
  TransactionIsRemoved
