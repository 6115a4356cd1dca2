CONSTANTS
  MinSize = 2
  Junk = Junk
  Byte <- TwoBytes
  MaxIO = 3
  Limits <- FewLimits
SPECIFICATION Spec
INVARIANT
  InBounds
PROPERTY
  IsByteQueue
