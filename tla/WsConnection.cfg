\* One lineage of sockets: production mount, the application may call
\* disconnect() twice, the server may close an open socket once.
CONSTANTS
    MaxReconnectAttempts = 3
    MountModes = {"normal"}
    UserOps = {"disconnect"}
    MaxUserCalls = 2
    MaxServerCloses = 1
SPECIFICATION Spec
INVARIANTS
    RetryBudget
    NoOrphanSocket
    ConnectGuardSound
PROPERTIES
    LostConnectionRecovers
CHECK_DEADLOCK FALSE
