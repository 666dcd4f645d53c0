\* Two connections of one user, two calls of either kind: the queue of targeted
\* messages holds both, a second Broadcast has to wait.
SPECIFICATION FairSpec
CONSTANTS
    u1 = u1
    c1 = c1
    c2 = c2
    Users = {u1}
    Clients = {c1, c2}
    Owner <- MCOwner
    Calls = {k1, k2}
    Everyone = Everyone
    SendBuffer = 1
    TargetedCap = 2
    BroadcastCap = 1
    Stops = TRUE
CHECK_DEADLOCK FALSE
INVARIANTS NoPanic Gapless CallOrder
PROPERTIES NoLeak CallsReturnWhileRunning
