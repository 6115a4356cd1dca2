CONSTANTS
  NW = 1
  Gid <- Gid2
  t1 = t1
  t2 = t2
  t3 = t3
  t4 = t4
  t5 = t5
  Task <- Task3
  nullptr = nullptr
  MaxSends = 0
SPECIFICATION Spec
INVARIANT
  StopDrains
