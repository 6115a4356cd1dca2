CONSTANTS
  Base = 8
  NOp = 4
  MaxFrames = 3
  MaxBytes = 86
  Inner = 78
  ByteXor <- BitXor
  Frames <- Frames15
SPECIFICATION Spec
INVARIANTS
  HandledExact
  NoOverread
  BroadcastDecodes
  ClosedExactly
