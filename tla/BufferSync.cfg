SPECIFICATION FairSpec
CONSTANTS
  a = a
  b = b
  Blank = Blank
  Broken = Broken
  None = None
  Texts <- OneText
  MaxLines = 1
  MaxNew = 1
  MaxEdits = 2
  MaxCommands = 2
INVARIANTS TypeOK InSync
PROPERTIES WedgedForever NoOtherHang
CHECK_DEADLOCK FALSE
