CONSTANTS
  MinSize = 1
  Junk = 0
  Inner = 2
  MaxOut = 2
  MaxIn = 0
  MaxPack = 2
  PartialWrites = TRUE
SPECIFICATION Spec
INVARIANT
  OutputInOrder
