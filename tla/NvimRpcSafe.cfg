SPECIFICATION Spec
CONSTANTS
  t1 = t1
  t2 = t2
  None = None
  Notification = Notification
  Default = Default
  Callers <- Two
  MaxCalls = 3
  PipeCap = 1
  AsyncCalls = TRUE
  Keepers = {}
SYMMETRY CallerSymmetry
INVARIANTS TypeOK CallTrack NodesConserved OwnPackage OwnAnswer ProgramOrder
