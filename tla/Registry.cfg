SPECIFICATION Spec
CONSTANTS
  c = c
  x = x
  None = None
  Nums = {1, 2}
  Known <- TwoTypes
  Parsed <- OneType
  FirstTypes <- OneType
  LaterTypes <- OtherType
  Kinds = {"changed", "syntax", "want", "force"}
  MaxMessages = 3
INVARIANTS TypeOK ListSound CommandsSafe
CONSTRAINT NoExcuse
CHECK_DEADLOCK FALSE
