SPECIFICATION FairReturnSpec

CONSTANTS
    p1 = p1
    p2 = p2
    a1 = a1
    a2 = a2
    t1 = t1
    t2 = t2
    Proc = {p1}
    Account = {a1, a2}
    Target = {t1, t2}
    AccountOf <- TwoNumbers
    NoOne = NoOne
    Dead = Dead
    MaxAttempts = 1
    SendSlots = 1
    AutoRetry = FALSE
    HasMedia = FALSE
    Ops = {}
    Receipts = {}
    MaxTries = 1
    MaxOps = 0
    MaxCrashes = 0
    MaxOutages = 0
    MaxFlaps = 1
    MaxLost = 0

INVARIANTS
    
    SettledAddsUp

PROPERTIES
    CampaignSettles

CHECK_DEADLOCK FALSE
