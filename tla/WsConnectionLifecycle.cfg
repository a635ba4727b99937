\* StrictMode and production mounts, two disconnect()/resetConnection()
\* calls, one server close: sockets of several lineages coexist.
CONSTANTS
    MaxReconnectAttempts = 2
    MountModes = {"normal", "strict"}
    UserOps = {"disconnect", "reset"}
    MaxUserCalls = 2
    MaxServerCloses = 1
SPECIFICATION Spec
INVARIANTS
    TypeOK
    ConnectGuardSound
PROPERTIES
    LostConnectionRecovers
CHECK_DEADLOCK FALSE
