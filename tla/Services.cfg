CONSTANTS
    Keys = {k1, k2}
    Ttls <- SomeTtls
    Forever = Forever
    Configs <- Databases
    ClockSteps <- HalfMinutes
    MaxTime = 61
    MaxFailures = 1
    MaxStarts = 2
    Nobody = Nobody
    Ids <- ThreeNumbered
    NoId = 0
    Servers <- GoodServers
    MaxReconnects = 2
    MaxDrops = 4
    OtherBytes = {"a"}
    MaxBytes = 6
    Payloads = {"none", "input"}
    NoPayload = "none"
    ReconnectLimit = 2
    MaxBreaks = 4
    Dialogues <- ThreeDialogues
SPECIFICATION ServicesSpec
INVARIANTS
    DeadlineIsLastTouch
    NamespacesAgree
    SearchesAgree
    WireIsRead
    AnswersFit
PROPERTIES
    SweptWhenDue
    ImplementsOrderedDelivery
    ImplementsDialogue
    ServicesEnd
CHECK_DEADLOCK FALSE
