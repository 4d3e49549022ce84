CONSTANTS
    c1 = c1
    c2 = c2
    c3 = c3
    w1 = w1
    Clients = {c1, c2, c3}
    Workspaces = {w1}
    TTL = 2
    MaxTime = 5
    MaxFence = 4
SPECIFICATION Spec
INVARIANT HeldUntilReleased
