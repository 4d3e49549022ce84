CONSTANT MaxMsgs = 1
SPECIFICATION Spec
INVARIANT OwnedClaimIsLive
