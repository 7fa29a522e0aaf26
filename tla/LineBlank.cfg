SPECIFICATION Spec
CONSTANTS
  a = a
  b = b
  Blank = Blank
  Broken = Broken
  Texts <- TwoTexts
  MaxLines = 3
  MaxNew = 2
  WireCap = 2
  BlankFirst = TRUE
SYMMETRY TextSymmetry
INVARIANT IgnoredAreUseless
