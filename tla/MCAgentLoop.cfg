\* Three responses with up to two tool uses.
SPECIFICATION Spec
CONSTANTS
  search = search
  write = write
  shell = shell
  Tools <- MCTools
  Exclusive <- MCExclusive
  Permission <- MCPermission
  MaxIterations = 3
  MaxTokenEscalations = 2
  MaxLowOutputTurns = 2
  MaxRateLimitRetries = 1
  MaxServerErrorRetries = 1
  MaxUses = 2
INVARIANTS
  TypeOK
  ExclusiveRunsAlone
  NoStrayTool
  ResultAnswersUse
  ResultIsShownOnce
  EndIsAnnounced
CHECK_DEADLOCK FALSE
