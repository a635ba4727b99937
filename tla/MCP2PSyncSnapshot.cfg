\* One production connection; the server adds or removes one peer.
CONSTANTS
    MaxReconnectAttempts = 1
    MountModes = {"normal"}
    UserOps = {}
    MaxUserCalls = 0
    MaxServerCloses = 0
    Peers = {p1}
    Self = Self
    NoId = NoId
    Unknown = Unknown
    Remote = Remote
    MaxMessages = 2
    MaxServerEvents = 1
    MaxRefreshes = 0
    MaxSends = 0
SPECIFICATION Spec
PROPERTIES
    SnapshotKeepsKnownPeers
CHECK_DEADLOCK FALSE
