CONSTANTS
  MinSize = 1
  Junk = 0
  BufferSize = 2
  Piece = 3
  HeadLen = 2
  LimitMax = 5
  Room = 2
  Files <- Files7
  Requests <- Requests10
  SplitUrl = FALSE
SPECIFICATION FairSpec
INVARIANTS
  ResponseExact
  ResponseFreed
  RequestWhole
PROPERTY
  RequestEnds
