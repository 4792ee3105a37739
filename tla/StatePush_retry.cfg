SPECIFICATION RetriedSpec
CONSTANTS
  Rules = {1}
  Lists = {1}
  Items = {1}
  Bodies = {b1, b2}
  Home <- OneHome
  None = None
  MaxEdits = 2
  MaxFaults = 1
PROPERTIES
  Converges
