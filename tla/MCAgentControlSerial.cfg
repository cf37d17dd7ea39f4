\* Calls on a thread come one after the other; Redis keeps its keys.
SPECIFICATION Spec
CONSTANTS
  t1 = t1
  None = None
  Calls = {c1, c2, c3}
  Threads <- MCThreads
  ThreadOf <- MCThreadOf
  KindOf <- MCKindOf
  MaxOverlap = 1
  MaxFaults = 2
  MaxEvictions = 0
  MaxCrashes = 1
INVARIANTS
  RunIsCancellable
  RequestIsPending
PROPERTY ImplementsConversation
CHECK_DEADLOCK FALSE
