SPECIFICATION Spec
CONSTANTS
  Numbers <- SomeNumbers
  Strings <- SomeStrings
  HeaderSizes <- EdgeLengths
  Handles <- EdgeHandles
  MaxItems = 2
  MaxDepth = 2
  Tokens = {"d", "n", "[", "]", "{", "!", "@", "*"}
  MaxFormat = 7
  Chars <- CharsOf
  MaxText <- TextOf
  TagLines <- SomeLines
  MaxTags = 4
  Buffers <- SomeBuffers
  MaxThreads = 3
  Groups = {"typedef", "macro"}
  MaxCalls = 5
  MaxPasses = 3
  PathChars = {"/", "a", "b", "_"}
  MaxPath = 6
  Settings <- SomeSettings
  norecurse <- SomeNoRecurse
  None = "none"
  Cursors <- SomeCursors
  Contexts <- SomeContexts
  MaxCursors = 4
  GoFile <- SomeFile
  Idents <- SomeIdents
  MaxIdents = 3
  Answers = {0, 1, 5, 12}
  INIT_ACALL_SIZE = 2
  INIT_CMD_SIZE = 2
  ENCODE_FMT_ARRSIZE = 6
INVARIANTS RoundTrip ReadAsSent Faithful StripsToCode TagsFound Delivered OnePass BaseChosen TypesResolved GoHighlighted
CHECK_DEADLOCK FALSE
