SPECIFICATION MCSpec
CONSTANTS
    o1 = o1
    o2 = o2
    c1 = c1
    i1 = i1
    None = None
    Orders <- MCOrders
    Cancels <- MCCancels
    Intents <- OneIntent
    MaxAttempts = 2
    KillSwitch = 2
    AuditGuards = TRUE
PROPERTY
    SignedOnceInWindow
CHECK_DEADLOCK FALSE
