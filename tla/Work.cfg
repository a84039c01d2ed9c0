CONSTANTS
    Programs <- MCPrograms
    Safe <- MCSafe
    Ends <- MCEnds
    MaxRetries = 2
    Ticks <- FiveTicks
    RemoteRuns <- MCRemoteRuns
    MaxEvents = 2
    MaxStates = 3
SPECIFICATION WorkSpec
INVARIANTS
    OnlySafeProgramsRun
    RunsAreBounded
    TickIsOrdered
    RequestsAgree
    RemoteIsLocal
PROPERTIES
    WorkEnds
CHECK_DEADLOCK FALSE
