SPECIFICATION Spec
CONSTANTS
  Files = {1, 2}
  Procs = {p1, p2}
  NoProc = NoProc
  Absent = Absent
  Edited = Edited
  MaxPulls = 2
  MaxFaults = 1
  MaxCrashes = 1
  MaxEdits = 1
SYMMETRY Symmetry
INVARIANTS
  TypeOK
  AtomicUnlessCut
  NoLoss
PROPERTIES
  ViewMovesOnlyAtCommit
  ReportedOutcomeIsTrue
