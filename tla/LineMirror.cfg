SPECIFICATION Spec
CONSTANTS
  a = a
  b = b
  Blank = Blank
  Broken = Broken
  Texts <- TwoTexts
  MaxLines = 4
  MaxNew = 2
  WireCap = 2
  BlankFirst = FALSE
SYMMETRY TextSymmetry
INVARIANTS TypeOK InStep
