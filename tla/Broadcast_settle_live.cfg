SPECIFICATION FairSpec

CONSTANTS
    p1 = p1
    p2 = p2
    a1 = a1
    a2 = a2
    t1 = t1
    t2 = t2
    Proc = {p1}
    Account = {a1}
    Target = {t1}
    AccountOf <- OneNumber
    NoOne = NoOne
    Dead = Dead
    MaxAttempts = 2
    SendSlots = 1
    AutoRetry = TRUE
    HasMedia = FALSE
    Ops = {"cancel"}
    Receipts = {}
    MaxTries = 2
    MaxOps = 1
    MaxCrashes = 1
    MaxOutages = 0
    MaxFlaps = 1
    MaxLost = 1

PROPERTIES
    CampaignSettles
    CancelSettles
    OrphansAreClosed

CHECK_DEADLOCK FALSE
