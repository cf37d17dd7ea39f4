\* Two overlapping turns, two memories, one day.
SPECIFICATION Spec
CONSTANTS
  t1 = t1
  t2 = t2
  brief = brief
  long = long
  Turns <- MCTurns
  Kinds = {"feedback", "fact"}
  Bodies <- MCBodies
  Length <- MCLength
  Ttls <- MCTtls
  MaxRecalled = 1
  IndexLimit = 2
  MaxIndexEntries = 1
  SearchLimit = 1
  PinnedBodyLimit = 1
  ArchiveBodyLimit = 2
  StaleDays = 0
  DecayDays = 0
  BoostRecentDays = 1
  BoostMinAccesses = 1
  ReflectionGap = 1
  Highest = 1
  MaxMemories = 2
  LastDay = 1
SYMMETRY Symmetry
INVARIANTS
  PinnedIsShown
  ForgottenIsNotTold
PROPERTIES
  RetirementStands
CHECK_DEADLOCK FALSE
