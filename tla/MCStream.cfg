CONSTANTS
  MinSize = 1
  Junk = 0
  Inner = 2
  MaxOut = 6
  MaxIn = 6
  MaxPack = 4
  PartialWrites = FALSE
SPECIFICATION Spec
INVARIANTS
  OutputExact
  RefillHasRoom
  InputExact
  CarryHasTask
