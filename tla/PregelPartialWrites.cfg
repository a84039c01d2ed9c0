SPECIFICATION Spec
CONSTANTS
    Channels <- FanChannels
    Nodes <- FanNodes
    Kind <- FanKind
    Names <- FanNames
    Triggers <- FanTriggers
    Routes <- FanRoutes
    Partials <- FanBranchRaises
    InputChannel = "start"
    Durability = "sync"
    InterruptBefore = {}
    InterruptAfter = {}
    MaxAttempts = 1
    RecursionLimit = 10
    MaxInputs = 1
    MaxResumes = 1
    MaxUpdates = 0
    MaxFailures = 1
    MaxCrashes = 0
INVARIANTS
    DoneMeansCompleted
CHECK_DEADLOCK FALSE
