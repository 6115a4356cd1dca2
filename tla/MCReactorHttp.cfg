CONSTANTS
  NW = 2
  s1 = s1
  s2 = s2
  c1 = c1
  c2 = c2
  Socket <- Socket2
  Conn <- Conn2
  NFd = 3
  Seconds <- TwoSeconds
  MaxSeq = 1
  Shift = 3
  AcceptPerTick = 1
  TaskType = "HTTP_TASK"
  UseSSL = FALSE
  Null = Null
SPECIFICATION FairSpec
INVARIANTS
  CloseOnce
  ConnectionAvailable
  BuffersExclusive
PROPERTIES
  HangupFrees
  CloseFrees
