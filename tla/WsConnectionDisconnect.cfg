\* Production mount; the application calls disconnect() once.
CONSTANTS
    MaxReconnectAttempts = 2
    MountModes = {"normal"}
    UserOps = {"disconnect"}
    MaxUserCalls = 1
    MaxServerCloses = 0
SPECIFICATION Spec
PROPERTIES
    DisconnectIsTerminal
CHECK_DEADLOCK FALSE
