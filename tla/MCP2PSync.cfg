\* The chat log under a reset (two socket lineages), one remote broadcast
\* and two sends: three entries reach a log of capacity two.
CONSTANTS
    MaxReconnectAttempts = 1
    MountModes = {"normal"}
    UserOps = {"disconnect", "reset"}
    MaxUserCalls = 1
    MaxServerCloses = 0
    Peers = {p1}
    Self = Self
    NoId = NoId
    Unknown = Unknown
    Remote = Remote
    MaxMessages = 2
    MaxServerEvents = 1
    MaxRefreshes = 1
    MaxSends = 2
SPECIFICATION Spec
INVARIANTS
    TypeOK
    ChatLogIsRecentSuffix
CHECK_DEADLOCK FALSE
