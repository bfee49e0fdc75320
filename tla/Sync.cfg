SPECIFICATION FairSpec

CONSTANTS
    i1 = i1
    i2 = i2
    o1 = o1
    a1 = a1
    a2 = a2
    a3 = a3
    f1 = f1
    f2 = f2
    q1 = q1
    q2 = q2
    Inbound = {i1, i2}
    Typed = {}
    Sent = {o1}
    Mentions = {i2}
    Late = {i2}
    Group = FALSE
    AutoMarkRead = TRUE
    Stamp <- InOrder
    Local <- Clock
    Budget <- Doings
    In = {a1, a2, a3}
    Out = {o1}
    File = {f1, f2}
    Content <- OneFile
    Hashed = {a1, a2}
    Story = {a2}
    Fetcher = {g1, g2}
    Request = {q1, q2}
    Token <- OneToken
    Transfers <- Exchanges
    ForceAfter = 1
    ForceBudget = 1
    MaxEvents = 1
    Troubles <- Disturbances
    Operator = {r1}
    MaxSessions = 2
    MaxDevices = 1
    MaxRequests = 1
    MaxFaults = 3
    Ops = {"connect", "pair", "disconnect", "logout", "delete"}
    Nothing = Nothing

INVARIANTS
    ConversationAgrees
    StoreAgrees
    SendsOnce
    

PROPERTIES
    CatchesUp

CHECK_DEADLOCK FALSE
