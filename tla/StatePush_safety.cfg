SPECIFICATION Spec
CONSTANTS
  Rules = {1}
  Lists = {1, 2}
  Items = {1}
  Bodies = {b1, b2}
  Home <- AnyHome
  None = None
  MaxEdits = 2
  MaxFaults = 1
SYMMETRY Symmetry
INVARIANTS
  TypeOK
  CleanAfterPush
PROPERTIES
  RulesComeLast
  RemovalWasInstructed
  ReportIsTrue
