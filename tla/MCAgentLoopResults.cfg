\* One tool that finishes before its response does.
SPECIFICATION Spec
CONSTANTS
  search = search
  write = write
  shell = shell
  Tools <- MCTools
  Exclusive <- MCExclusive
  Permission <- MCPermission
  MaxIterations = 2
  MaxTokenEscalations = 2
  MaxLowOutputTurns = 3
  MaxRateLimitRetries = 0
  MaxServerErrorRetries = 0
  MaxUses = 1
INVARIANT ResultsReachTheModel
CHECK_DEADLOCK FALSE
