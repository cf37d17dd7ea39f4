\* Calls that overlap on a thread, with every kind of failure.
SPECIFICATION Spec
CONSTANTS
  t1 = t1
  None = None
  Calls = {c1, c2, c3}
  Threads <- MCThreads
  ThreadOf <- MCThreadOf
  KindOf <- MCKindOf
  MaxOverlap = 2
  MaxFaults = 1
  MaxEvictions = 1
  MaxCrashes = 0
SYMMETRY Symmetry
INVARIANTS
  TypeOK
  TokenIsLive
  
CHECK_DEADLOCK FALSE
