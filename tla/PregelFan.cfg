SPECIFICATION Spec
CONSTANTS
    Channels <- FanChannels
    Nodes <- FanNodes
    Kind <- FanKind
    Names <- FanNames
    Triggers <- FanTriggers
    Routes <- FanRoutes
    Partials <- FanPartials
    InputChannel = "start"
    Durability = "async"
    InterruptBefore = {}
    InterruptAfter = {}
    MaxAttempts = 1
    RecursionLimit = 10
    MaxInputs = 1
    MaxResumes = 1
    MaxUpdates = 0
    MaxFailures = 1
    MaxCrashes = 1
INVARIANTS
    SavedIsSnapshot
    HistorySaved
    PendingAreDue
PROPERTIES
    ImplementsSupersteps
    NoSuccessfulRerun
CHECK_DEADLOCK FALSE
