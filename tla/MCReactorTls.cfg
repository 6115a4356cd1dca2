CONSTANTS
  NW = 2
  s1 = s1
  s2 = s2
  c1 = c1
  c2 = c2
  Socket <- Socket1
  Conn <- Conn1
  NFd = 2
  Seconds <- TwoSeconds
  MaxSeq = 2
  Shift = 3
  AcceptPerTick = 2
  TaskType = "WEBSOCKET_TASK"
  UseSSL = TRUE
  Null = Null
SYMMETRY Symmetry
SPECIFICATION Spec
INVARIANTS
  CloseOnce
  TaskHoldsLive
  EventIsFresh
  PollerMapExact
  NoOrphan
  ClosedHasTask
  NoLostOutput
  PlayersExact
