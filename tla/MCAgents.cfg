CONSTANTS
  Asks = 2
  Questions = {2}
  Tabs = {"t1", "t2"}
  MaxAnswers = 1
  Capacity = 2
  Kinds = {"invalid", "gap", "stop", "crash", "split"}
  MaxOut = 2
  HistoryMax = 2
  Ring = 2
  Attempts = 2
  Viewers = FALSE
  MaxFaults = 0
SPECIFICATION AgentsSpec
INVARIANTS
  AgreesWithUser
  ReadersGetAll
  AgentIsBound
  

  
  
CHECK_DEADLOCK FALSE
