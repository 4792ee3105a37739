SPECIFICATION RetriedSpec
CONSTANTS
  Rules = {1, 2}
  Lists = {1, 2}
  Items = {1}
  Bodies = {b1}
  Home <- AnyHome
  None = None
  MaxEdits = 1
  MaxFaults = 0
PROPERTIES
  RetryReconverges
