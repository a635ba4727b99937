\* One socket, one call of fetchOrchestratorData, nothing else: two of its
\* fetches answer in either order, one of them fails.
CONSTANTS
    MaxReconnectAttempts = 1
    MountModes = {"normal"}
    UserOps = {}
    MaxUserCalls = 0
    MaxServerCloses = 0
    Workloads = {}
    Nodes = {}
    NoId = NoId
    MaxVersion = 2
    MaxServerEvents = 0
    MaxRefreshes = 0
    CommandKinds = {"create"}
    MaxCommands = 0
    MaxHydrations = 1
SPECIFICATION Spec
CONSTRAINT HydrationBound
INVARIANTS
    ErrorNotMasked
CHECK_DEADLOCK FALSE
