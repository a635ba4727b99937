\* The stores against a changing orchestrator: one workload and one node,
\* one server change or push, one command of any kind, one refreshData(),
\* one disconnect() and one server close; the search stops at the second
\* call of fetchOrchestratorData.
CONSTANTS
    MaxReconnectAttempts = 1
    MountModes = {"normal"}
    UserOps = {"disconnect"}
    MaxUserCalls = 1
    MaxServerCloses = 1
    Workloads = {w1}
    Nodes = {n1}
    NoId = NoId
    MaxVersion = 2
    MaxServerEvents = 1
    MaxRefreshes = 1
    CommandKinds = {"create", "cancel", "retry"}
    MaxCommands = 1
    MaxHydrations = 1
SPECIFICATION Spec
CONSTRAINT HydrationBound
INVARIANTS
    TypeOK
CHECK_DEADLOCK FALSE
