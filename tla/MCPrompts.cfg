CONSTANTS
  Senders = {"s1", "s2"}
  MaxRetries = 1
  MaxExits = 1
  Faults = {"load", "paste", "enter"}
SPECIFICATION PromptsSpec
INVARIANTS
  
  HandedOnce
  OwnTurn
  
PROPERTIES
  ParkedIsDelivered
  LimitRetried
  BucketConverges
CHECK_DEADLOCK FALSE
