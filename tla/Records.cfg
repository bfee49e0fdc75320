SPECIFICATION Spec

CONSTANTS
    q1 = q1
    q2 = q2
    c1 = c1
    c2 = c2
    Lab = {l1, l2}
    Chat = {d1}
    Known = {}
    Name = {n1, n2}
    PhoneId = {1}
    FirstLabel = 100
    Editor = {q1, q2}
    Doings <- Edits
    Customer = {c1}
    Own = own
    Lid = lid
    Choice = {{}, {1}}
    Emoji = {e1}
    Text = {t1}
    Removed = off
    MaxUpdates = 3
    MaxRows = 4
    MaxEvents = 3
    Clients = {c1, c2}
    Person <- OnePerson
    Convs = {v1}
    SendBuffer = 1
    Screens <- Windows
    User = {u1, u2, u3}
    Application = {a1}
    Owner = {u1}
    Member = {u1, u2}
    Request = {q1, q2}
    MaxRequests = 2
    Scorer = {"session", "sweep"}
    ChatKind = {"personal", "group"}
    Senders = {"inbound", "mention", "web_admin", "broadcast"}
    Settings <- Hours
    Time = {1, 4, 5}
    Day = 4
    Target = 2
    Gap = 3
    MaxMessages = 3
    MaxChanges = 1
    Runner = {w1, w2}
    Doc = {f1}
    Caption = {t1}
    MaxCampaigns = 3
    MaxActs = 2
    None = None

SYMMETRY Interchangeable

INVARIANTS
    LabelsAgree
    
    ViewingAgrees
    OrganisationAgrees
    
    OneSuccessor

PROPERTIES
    OnePersonOneRow
    NoSendAfterClose

CHECK_DEADLOCK FALSE
