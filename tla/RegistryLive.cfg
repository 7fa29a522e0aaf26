SPECIFICATION FairSpec
CONSTANTS
  c = c
  x = x
  None = None
  Nums = {1, 2}
  Known <- TwoTypes
  Parsed <- OneType
  FirstTypes <- OneType
  LaterTypes <- OtherType
  Kinds = {"changed", "syntax"}
  MaxMessages = 2
INVARIANT AbortCause
PROPERTIES WedgedForever ThreadsEnd
CHECK_DEADLOCK FALSE
