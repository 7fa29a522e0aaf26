SPECIFICATION FairSpec
CONSTANTS
  a = a
  b = b
  Blank = Blank
  Broken = Broken
  None = None
  Texts <- OneText
  MaxLines = 1
  MaxNew = 1
  MaxEdits = 1
  MaxCommands = 1
PROPERTY StopStops
CHECK_DEADLOCK FALSE
