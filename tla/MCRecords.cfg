CONSTANTS
  MaxWrites = 2
  MaxFaults = 2
  BatchLimit = 1
  Codex = TRUE
  RewriteDuringImport = FALSE
  Requests = {"r1", "r2", "r3"}
  Workers = {}
  MaxTime = 0
  ClaimTime = 1
  MaxLosses = 0
  Kind = "reports"
  Writers = {"w1", "w2"}
  Values = {"x"}
  MaxViewWrites = 3
  MaxConnects = 0
  ChannelCap = 2
SPECIFICATION RecordsSpec
INVARIANTS
  RecordsAreFaithful
  NoticedIsImported
  LedgerIsExact
  NoticesAreDue
  ConditionalWriteIsCurrent
PROPERTIES
  Converges
  
  DueIsNotified
  ViewConverges
CHECK_DEADLOCK FALSE
