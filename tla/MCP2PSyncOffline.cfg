\* One production connection; one sendChat() call.
CONSTANTS
    MaxReconnectAttempts = 1
    MountModes = {"normal"}
    UserOps = {}
    MaxUserCalls = 0
    MaxServerCloses = 0
    Peers = {p1}
    Self = Self
    NoId = NoId
    Unknown = Unknown
    Remote = Remote
    MaxMessages = 2
    MaxServerEvents = 0
    MaxRefreshes = 0
    MaxSends = 1
SPECIFICATION Spec
PROPERTIES
    EchoEvenWhenOffline
CHECK_DEADLOCK FALSE
