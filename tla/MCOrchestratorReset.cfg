\* Loading across resetConnection(), whose old socket may orphan the new
\* one: two lineages of sockets; the search is cut at two calls of
\* fetchOrchestratorData.
CONSTANTS
    MaxReconnectAttempts = 1
    MountModes = {"normal"}
    UserOps = {"reset"}
    MaxUserCalls = 1
    MaxServerCloses = 0
    Workloads = {}
    Nodes = {}
    NoId = NoId
    MaxVersion = 2
    MaxServerEvents = 0
    MaxRefreshes = 0
    CommandKinds = {"create"}
    MaxCommands = 0
    MaxHydrations = 2
SPECIFICATION Spec
CONSTRAINT HydrationBound
PROPERTIES
    LoadingSettles
CHECK_DEADLOCK FALSE
