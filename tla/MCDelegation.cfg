\* The turn and two sub-agents.
SPECIFICATION Spec
CONSTANTS
  Tools <- MCTools
  Agent = "Agent"
  ToolSearch = "ToolSearch"
  Deferred = {"mcp__mail__send"}
  Types <- MCTypes
  General = "general"
  AllTools = {"general"}
  Listed <- MCListed
  Disallowed <- MCDisallowed
  MaxTurns <- MCMaxTurns
  MaxIterations = 2
  MaxDepth = 1
  PlanTools = {"WebFetch", "ToolSearch"}
  PermissionMode = "auto"
  Rules <- MCRules
  BlockedTools = {}
  Directories <- MCDirectories
  MaxAgents = 3
INVARIANTS
  DelegationTypeOK
  Contained
  CallerWaits

  
CHECK_DEADLOCK FALSE
