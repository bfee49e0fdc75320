SPECIFICATION Spec

CONSTANTS
    p1 = p1
    p2 = p2
    a1 = a1
    a2 = a2
    t1 = t1
    t2 = t2
    Proc = {p1, p2}
    Account = {a1}
    Target = {t1, t2}
    AccountOf <- OneNumber
    NoOne = NoOne
    Dead = Dead
    MaxAttempts = 2
    SendSlots = 1
    AutoRetry = TRUE
    HasMedia = FALSE
    Ops = {"cancel", "run", "schedule"}
    Receipts = {}
    MaxTries = 2
    MaxOps = 1
    MaxCrashes = 1
    MaxOutages = 0
    MaxFlaps = 0
    MaxLost = 0

SYMMETRY SameProcesses

INVARIANTS
    TypeOK
    OneWorker
    SettledInv
    SettledAddsUp
    CompletedReachedAll
    CancelledLeavesNobodyWaiting

PROPERTIES
    NoClaimAfterCancel

CHECK_DEADLOCK FALSE
