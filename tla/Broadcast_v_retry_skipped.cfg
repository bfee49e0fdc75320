SPECIFICATION Spec

CONSTANTS
    p1 = p1
    p2 = p2
    a1 = a1
    a2 = a2
    t1 = t1
    t2 = t2
    Proc = {p1}
    Account = {a1}
    Target = {t1}
    AccountOf <- OneNumber
    NoOne = NoOne
    Dead = Dead
    MaxAttempts = 1
    SendSlots = 1
    AutoRetry = TRUE
    HasMedia = FALSE
    Ops = {"retry"}
    Receipts = {}
    MaxTries = 1
    MaxOps = 1
    MaxCrashes = 0
    MaxOutages = 0
    MaxFlaps = 0
    MaxLost = 0

PROPERTIES
    SkippedWasSent

CHECK_DEADLOCK FALSE
