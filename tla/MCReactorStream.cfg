CONSTANTS
  NW = 1
  s1 = s1
  s2 = s2
  c1 = c1
  c2 = c2
  Socket <- Socket2
  Conn <- Conn2
  NFd = 3
  Seconds <- OneSecond
  MaxSeq = 2
  Shift = 3
  AcceptPerTick = 1
  TaskType = "STREAM_TASK"
  UseSSL = FALSE
  Null = Null
SYMMETRY Symmetry
SPECIFICATION Spec
INVARIANTS
  TypeOK
  NoOrphan
  ClosedHasTask
  NoLostOutput
