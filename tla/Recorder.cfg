SPECIFICATION Spec
CONSTANTS
  MaxFaults = 2
  MaxEdits = 1
  Shared = {"list", "search_index", "source", "dashboard", "companion", "policy_dup", "integration", "parent", "alert_rule"}
INVARIANTS
  TypeOK
  ForeignSurvives
  NothingLeftBehind
PROPERTIES
  DefaultIsGivenBack
  DependantsGoFirst
