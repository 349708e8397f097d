SPECIFICATION FairStoreSpec
CONSTANTS
    c1 = c1
    s1 = s1
    s2 = s2
    k1 = k1
    k2 = k2
    t1 = t1
    Chats = {c1}
    Searches = {s1, s2}
    FeedKeys = {k1, k2}
    Tokens = {t1}
    NoSearch = NoSearch
    ChatOf <- ChatOfSearch
    KeyOf <- KeyOfSearch
    Wants <- AllWanted
    Serves <- AllServed
    Order <- CreationOrder
    RemovalBudget = 1
INVARIANTS VisibleOrExcused
PROPERTIES RemovalsHeld ServedKept
CHECK_DEADLOCK FALSE
