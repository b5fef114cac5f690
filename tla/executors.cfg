SPECIFICATION ExecutorsSpec
CONSTANTS
    Jobs = 2
    MaxJobs = 0
    MayLackConfig = {2}
    Reroutable = {1}
    RepairOrder <- MCRepair
    MaxAttempts = 2
    ModeLimit <- MCLimit
    RerunExisting = FALSE
    MaxCandidates = 1
    Misplaced = {"continue"}
    MaxQueueRuns = 2
    MaxQueueTroubles = 1
    AgentPhases = {"design", "execution"}
    FirstPhase = "design"
    LastPhase = "execution"
    Nobody = "nobody"
    Hold = "hold"
    MaxIterations = 3
    MaxFailures = 2
    MaxRetries = 0
    Payloads <- MCPayloads
    MaxDispatches = 2
    MaxAgentTroubles = 1
    ProviderRetries = 1
    MaxWrites = 3
    Tasks = 3
    RoleOf <- MCRoles
    MaxParallel = 2
    MaxCalls = 1
    NumDrafts = 2
    MaxDebugDepth = 2
    HigherIsBetter = FALSE
    Metrics = {0, 1, 2}
    NoMetric = NoMetric
    Experiments <- MCExperiments
    MaxOperations = 4
    MaxDeaths = 1
INVARIANTS
    ExecutorsTypeOK
    CompletedOnEvidence AcceptedIsNotRepeated
    AgentIsBounded ActionsAreServed
    ReportIsWhole
PROPERTIES
    FreshResult MadeUpIsJustified ResultsAreOwn
    ExecutorsReturn
CHECK_DEADLOCK FALSE
