CONSTANT MaxMsgs = 3
SPECIFICATION Spec
INVARIANTS TypeOK ClaimNeverLost AcceptedIsKept
PROPERTIES ExecutorRunsOnce PastedOnce HoldNeedsUser
