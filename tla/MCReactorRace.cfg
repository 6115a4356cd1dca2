CONSTANTS
  NW = 1
  s1 = s1
  s2 = s2
  c1 = c1
  c2 = c2
  Socket <- Socket1
  Conn <- Conn1
  NFd = 2
  Seconds <- OneSecond
  MaxSeq = 1
  Shift = 3
  AcceptPerTick = 1
  TaskType = "STREAM_TASK"
  UseSSL = FALSE
  Null = Null
SYMMETRY Symmetry
SPECIFICATION Spec
INVARIANT
  BuffersExclusive
