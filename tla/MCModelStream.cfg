\* One response, cut into chunks in every way, that may break off anywhere.
SPECIFICATION Spec
CONSTANTS
  Conversations <- MCConversations
  Histories <- MCHistories
  Responses <- MCResponses
INVARIANTS
  RequestTellsAll
  ResponseIsWhole
  ToolsAreBracketed
CHECK_DEADLOCK FALSE
