SPECIFICATION FairSpec
CONSTANTS
    Channels <- FanChannels
    Nodes <- FanNodes
    Kind <- FanKind
    Names <- FanNames
    Triggers <- FanTriggers
    Routes <- ChoiceRoutes
    Partials <- FanPartials
    InputChannel = "start"
    Durability = "exit"
    InterruptBefore = {"b"}
    InterruptAfter = {}
    MaxAttempts = 2
    RecursionLimit = 2
    MaxInputs = 2
    MaxResumes = 1
    MaxUpdates = 1
    MaxFailures = 1
    MaxCrashes = 0
PROPERTIES
    CallerSeesSupersteps
    InterruptStops
    Returns
CHECK_DEADLOCK FALSE
