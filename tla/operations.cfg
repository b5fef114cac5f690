SPECIFICATION OpsSpec
CONSTANTS
    Missions = 3
    Priority <- MCPriority
    Budget <- MCBudget
    MaxTotal = 8
    Slice = 2
    MaxConsecutive = 1
    Window = 2
    BaseWeight = 100
    AgingWeight = 25
    RequestPolicy = "pause-lower-priority"
    SafetyPolicy = "pause-lower-priority"
    Patience = 3
    MaxSchedulers = 2
    MaxTroubles = 1
    Client = {"a", "b"}
    Pid = {"p1", "p2", "p3"}
    NoPid = "none"
    MaxCommands = 4
    MaxCommandDeaths = 1
    ChunkIterations = 2
    MaxTotalIterations = 5
    EarlierIterations = {0, 1, 3, 6}
    MaxInterventions = 2
    Queues = {"q"}
    Trainings = {"t"}
    Planner <- MCPlanner
    NoStep = "nostep"
    MaxStops = 3
    MaxEvents = 2
INVARIANTS
    OpsTypeOK BudgetsHold WaitIsBounded RunsAreRecorded StagedStepWaits
PROPERTIES RunnerRespectsRequest StartersStop
CHECK_DEADLOCK FALSE
