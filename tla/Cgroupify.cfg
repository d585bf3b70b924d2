SPECIFICATION FairSpec
CONSTANTS
  p1 = p1
  p2 = p2
  p3 = p3
  root = root
  gone = gone
  Pids <- ThreePids
  First <- One
  Chunk = 2
  MaxForks = 3
  MaxFailures = 1
INVARIANTS TypeOK NoLeak NeverFails
PROPERTIES EventuallyIsolated Quits
CHECK_DEADLOCK FALSE
