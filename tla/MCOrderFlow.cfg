SPECIFICATION MCSpec
CONSTANTS
    o1 = o1
    o2 = o2
    c1 = c1
    i1 = i1
    None = None
    Orders <- MCOrders
    Cancels <- MCCancels
    Intents <- OneIntent
    MaxAttempts = 3
    KillSwitch = 2
    AuditGuards = TRUE
INVARIANTS
    TypeOK
    OneAttemptIsLive
    DoubtIsTraced
    FailureLimitHalts
PROPERTY CallsReturn
CHECK_DEADLOCK FALSE
