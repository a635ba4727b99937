\* Production mount; the application calls resetConnection() twice.
CONSTANTS
    MaxReconnectAttempts = 2
    MountModes = {"normal"}
    UserOps = {"reset"}
    MaxUserCalls = 2
    MaxServerCloses = 0
SPECIFICATION Spec
INVARIANTS
    NoOrphanSocket
CHECK_DEADLOCK FALSE
