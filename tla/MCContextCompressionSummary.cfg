\* The first summary of a thread.
SPECIFICATION Spec
CONSTANTS
  KeepRecent = 3
  MinSegmentSize = 2
  KeepRecentMessages = 2
  ToolResultMaxChars = 6
  CharsPerToken = 2
  MaxTokens = 10
  Threshold = 5
  NoteSize = 1
  PlaceholderSize = 2
  SummarySizes = {1, 9}
  MessageSizes = {2, 8}
  MaxPushed = 8
INVARIANT SummaryIsTold
CHECK_DEADLOCK FALSE
