SPECIFICATION FairSpec
CONSTANTS
  Limit = 3
  FailLimit = 0
  MaxEdits = 4
  MaxCommands = 1
  MaxFails = 1
INVARIANTS TypeOK Counted WorkersBounded DropsAreCovered
PROPERTY Drains
CHECK_DEADLOCK FALSE
