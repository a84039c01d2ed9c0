SPECIFICATION Spec
CONSTANTS
    Channels <- JoinChannels
    Nodes <- JoinNodes
    Kind <- JoinKind
    Names <- JoinNames
    Triggers <- JoinTriggers
    Routes <- JoinRoutes
    Partials <- JoinPartials
    InputChannel = "start"
    Durability = "sync"
    InterruptBefore = {}
    InterruptAfter = {"b"}
    MaxAttempts = 1
    RecursionLimit = 10
    MaxInputs = 1
    MaxResumes = 2
    MaxUpdates = 0
    MaxFailures = 1
    MaxCrashes = 1
INVARIANTS
    NoTriggeredNodeMissed
    SyncLoopDurable
CHECK_DEADLOCK FALSE
