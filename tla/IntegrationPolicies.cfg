SPECIFICATION Spec
CONSTANTS
  Ids = {1, 2, 3}
  Parents = {1, 2}
  Packages = {1}
  Names = {"n1", "n2"}
  Bodies = {"b1", "b2"}
  Agents = {1, 2}
  Files <- TwoFiles
  Fleets <- SomeFleets
  Foreign <- SomePolicies
  None = None
  Unread = Unread
  MaxEdits = 2
  MaxFaults = 1
INVARIANTS
  TypeOK
  PlanIsValid
  OwnWritesAreExpected
PROPERTIES
  WritesWhatWasShown
  ReportIsTrue
