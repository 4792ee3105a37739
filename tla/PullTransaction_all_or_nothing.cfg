SPECIFICATION Spec
CONSTANTS
  Files = {1, 2}
  Procs = {p1}
  NoProc = NoProc
  Absent = Absent
  Edited = Edited
  MaxPulls = 1
  MaxFaults = 0
  MaxCrashes = 1
  MaxEdits = 0
INVARIANT
  AllOrNothing
