SPECIFICATION Spec
CONSTANTS
  Limit = 3
  FailLimit = 10
  MaxEdits = 6
  MaxCommands = 0
  MaxFails = 0
INVARIANT LastEditSeen
CHECK_DEADLOCK FALSE
