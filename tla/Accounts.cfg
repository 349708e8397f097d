CONSTANTS
    a = a
    b = b
    f1 = f1
    f2 = f2
    NoOne = NoOne
    NoFilter = NoFilter
    Uids = {a, b}
    WebIds = {1, 2}
    Chats = {11}
    Requests = {r1, r2}
    r1 = r1
    r2 = r2
    Ops = {"search", "save", "link", "ext", "delete", "revoke"}
    MaxTries = 2
    CacheMax = 2
    MaxRequests = 2
    MaxEvents = 1
    SearchIds = {1, 2}
    Filters = {f1, f2}
    LinkKey <- KeyOf
    Model <- ModelOf
    Items = {1}
    Stored <- StoredAccounts
    ExtCap = 1
    MaxExt = 3
    MaxFaults = 1
SPECIFICATION Spec
SYMMETRY Symmetric
CHECK_DEADLOCK FALSE
INVARIANTS IdentityHeld SeenTogether
PROPERTIES NoSearchLost
