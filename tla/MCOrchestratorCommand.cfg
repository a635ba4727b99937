\* One workload, a cancel or retry, and server changes that follow it.
CONSTANTS
    MaxReconnectAttempts = 1
    MountModes = {"normal"}
    UserOps = {}
    MaxUserCalls = 0
    MaxServerCloses = 0
    Workloads = {w1}
    Nodes = {}
    NoId = NoId
    MaxVersion = 3
    MaxServerEvents = 2
    MaxRefreshes = 0
    CommandKinds = {"cancel", "retry"}
    MaxCommands = 1
    MaxHydrations = 1
SPECIFICATION Spec
CONSTRAINT HydrationBound
PROPERTIES
    CommandKeepsNewerState
CHECK_DEADLOCK FALSE
