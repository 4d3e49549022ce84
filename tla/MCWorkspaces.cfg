CONSTANTS
  Tasks = {"t1", "t2"}
  RepoCount = 2
  Lanes = {"a", "b"}
  MaxOps = 3
  Ops = {"create", "ensure", "delete", "expire", "sweep"}
  MaxFaults = 1
SPECIFICATION WorkspacesSpec

  
  
PROPERTIES
  
  
  NothingLeftBehind
  RunningEnds
CHECK_DEADLOCK FALSE
