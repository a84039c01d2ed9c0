SPECIFICATION PartsSpec
CONSTANTS
    c1 = c1
    c2 = c2
    k1 = k1
    k2 = k2
    Callers = {c1, c2}
    Keys = {k1, k2}
    MaxCalls <- TwoAndOne
    RollsBack = TRUE
    MaxFailures = 1
    OldGraphs <- OldLayouts
    MaxOldSteps = 4
    ChannelValues = {"u", "v"}
    JoinNames = {"a", "b"}
    MaxChannelSteps = 3
    SavedChannels = {"a", "b"}
    SavedTasks = {"t"}
    SaverSetups <- SmallSetups
INVARIANTS
    SaversAgree
    AgentAnswers
    ValidGraphsCompile
    MigrationKeepsDue
    ChannelsKeep
    DatabasesGoOn
    DatabaseIsShared
PROPERTIES
    ImplementsKeyValueStore
    ImplementsEdgeRuns
CHECK_DEADLOCK FALSE
