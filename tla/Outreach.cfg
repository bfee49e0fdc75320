SPECIFICATION FairSpec

CONSTANTS
    Account = {a1, a2}
    Viewer = {v1}
    MaxAttempts = 2
    Batch = 2
    Slots = 1
    MaxEvents = 1
    Contact = {k1, k2}
    Time = {1, 3}
    Earliest = 2
    Limit = 2
    MaxChanges = 2
    Device = {1, 2, 3}
    Subscriber = {"812", "813"}
    Worlds <- Anything
    ContactLimit = 4
    MaxFlips = 1
    Months = 5
    Starts <- Calendar
    FirstWeekday = 6
    Rule <- Rules
    Lateness = {0, 1, 899, 4320, 44640}
    None = Nothing

INVARIANTS
    
    ReportAddsUp
    ListIsWhole

PROPERTIES
    SettlesForGood
    NextIsTheFirst

CHECK_DEADLOCK FALSE
