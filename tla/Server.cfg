CONSTANTS
    Keys = {"a", "b", "proxy", "all", "owner", "admin", "chat"}
    TheBucket = "all"
    Private = {"proxy"}
    TrustProxy = TRUE
    Burst <- Bursts
    Every <- Intervals
    Idle <- IdleTimes
    MaxBuckets = 1
    MaxTime = 4
    Requests = {r1, r2}
    Clients <- Addresses
    Users = {"owner", "admin"}
    Owner = "owner"
    NoOne = "none"
    AdminChatID = "admin"
    AdminEmail = "admin"
    Chat = "chat"
    Workloads <- Loads
    Tokens = {1, 2, 3}
    MaxSaved = 1
    MaxHidden = 1
    PageSize = 2
    BatchSize = 2
    ConfirmTTL = 1
    MaxFetches = 1
    MaxAttempts = 2
    Cooldown = 2
    EvictAge = 2
    SweepInterval = 1
SYMMETRY Symmetric
SPECIFICATION Spec
INVARIANTS LimitsHeld ListsHeld NoticeNotSwallowed ConfirmedOnce
CHECK_DEADLOCK FALSE
