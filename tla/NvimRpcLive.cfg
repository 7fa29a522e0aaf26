SPECIFICATION FairSpec
CONSTANTS
  t1 = t1
  t2 = t2
  None = None
  Notification = Notification
  Default = Default
  Callers <- Two
  MaxCalls = 2
  PipeCap = 1
  AsyncCalls = TRUE
  Keepers <- Two
PROPERTIES KeepsPromise CallsReturnUnlessContended KeepsFairPromise
CHECK_DEADLOCK FALSE
