CONSTANTS
  NW = 2
  Gid <- GidOdd
  t1 = t1
  t2 = t2
  t3 = t3
  t4 = t4
  t5 = t5
  Task <- Task5
  nullptr = nullptr
  MaxSends = 1
SPECIFICATION FairSpec
INVARIANTS
  TypeOK
  OneOwner
  InTaskExact
  GidSerial
  PoolProgress
PROPERTIES
  QueuedRuns
  IsWakeUps
  CallsReturn
  StopCompletes
