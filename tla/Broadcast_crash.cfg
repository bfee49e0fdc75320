SPECIFICATION Spec

CONSTANTS
    p1 = p1
    p2 = p2
    a1 = a1
    a2 = a2
    t1 = t1
    t2 = t2
    Proc = {p1, p2}
    Account = {a1}
    Target = {t1}
    AccountOf <- OneNumber
    NoOne = NoOne
    Dead = Dead
    MaxAttempts = 2
    SendSlots = 1
    AutoRetry = TRUE
    HasMedia = FALSE
    Ops = {}
    Receipts = {"delivered"}
    MaxTries = 2
    MaxOps = 0
    MaxCrashes = 1
    MaxOutages = 1
    MaxFlaps = 0
    MaxLost = 1

SYMMETRY SameProcesses

INVARIANTS
    SentInv
    ClosedInv
    AtMostOnce
    ClosedWasNotReached

PROPERTIES
    ClaimedIsAttempted

CHECK_DEADLOCK FALSE
