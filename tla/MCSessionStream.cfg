\* One run with two clients that race for its receiver, with room for a pause, a
\* duplicate resume and two verdicts.  No symmetry: liveness.
SPECIFICATION StreamFairSpec
CONSTANTS
  t1 = t1
  Runs = {r1}
  Clients = {c1, c2}
  Threads <- MCThreads
  ThreadOf <- MCThreadOf
  MaxEvents = 3
  MaxTurns = 2
  MaxFaults = 1
  MaxCrashes = 1
INVARIANTS
  TypeOK
  ReplyIsTranscript
  CompletedIsAnswered
  FailedIsReported
  NoOrphanRow
  CompletedFrameIsStored
PROPERTIES
  ImplementsLedger
  ReportIsSettled
  VerdictIsShown
CHECK_DEADLOCK FALSE
