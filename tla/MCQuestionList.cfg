SPECIFICATION ListSpec
CONSTANTS
  Null = Null
  None = None
  Bank <- MCBank
  Trimmed <- MCTrimmed
  Finds <- MCFinds
  Stored <- MCStored
  Practised <- MCPractised
  Picks <- MCPicks
  Links <- MCLinks
  Most <- MCMost
  MaxSteps = 4
INVARIANTS ListIsConsistent  PagesAgree
PROPERTIES FiltersComeToRest
CHECK_DEADLOCK FALSE
