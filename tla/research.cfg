SPECIFICATION ResearchSpec
CONSTANTS
    MissionFiles <- MCMissionFiles
    ReviewRecords <- MCReviewRecords
    RequiredReviews = {"release-operator"}
    NotThere = NotThere
    MaxEdits = 1
    MaxDeaths = 1
    MemoryMissions = {"m1", "m2"}
    Findings <- MCFindings
    WindowSize = 1
    NoEntry = NoEntry
    MaxRecords = 3
    MaxTears = 1
    StageRuns = {"s1", "s2", "s3"}
    Together <- MCTogether
    SourceSizes <- MCSizes
    ExampleLimit = 3
    NoLimit <- MCNoLimit
    StagePlans <- MCStagePlans
    Ladder <- MCLadder
    Dependent = {"s1"}
    MaxAttempts = 2
    MaxStageCrashes = 1
    Sweeps = {"w1", "w2", "w3", "w4", "w5", "w6"}
    SweepConfig <- MCSweepConfig
    SweptTogether <- MCSwept
    DevScores <- MCDev
    FinalMetrics <- MCFinalMetrics
    NoScore <- MCNoScore
    NoSignature = "none"
    GainThreshold = 3
    SliceGain = 8
    SliceCount = 2
    MaxRegression <- MCRegr
    MaxSweepAttempts <- MCAttempts
    MaxSweepCrashes = 1
    TrainingConfigs <- MCTrainingConfigs
    AnchorMetrics <- MCAnchors
    AdaptedMetrics <- MCAdapted
    NoMetric = NoMetric
    Absent = Absent
    Unreadable = Unreadable
    MinImprovement = 0
    MaxAllowedRegression = 1
    MaxTrainings = 2
    MaxTrainingDeaths = 1
    Proposals <- MCGuarded
    ManifestValues <- MCManifests
    Unset = "unset"
    Gone = Gone
    Broken = Broken
    PrepRuntimes = {"prep"}
    PrepPrompts = {"none"}
    MaxProposalEdits = 1
    ExperimentRuns = {"e1", "e2", "e3", "e4"}
    KindOf <- MCKindOf
    OwnRuns = {"e1", "e2", "e3"}
    RunResults <- MCResults
    NotWritten = NotWritten
    Unfinished = Unfinished
    NoAccuracy <- MCNoAccuracy
    CollapseMax = 5
    WeakMax = 30
    SignalMin = 8
    MaxCorrections = 2
    StateEdits = {"d1"}
    MaxRunWrites = 3
    Methods = {"m1", "m2"}
    NamesOf <- MCNames
    LineValues <- MCLines
    OfKind <- MCKinds
    CriteriaValues <- MCCriteria
    Actions = {"a"}
    MaxCampaignWrites = 3
INVARIANTS
    ResearchTypeOK PackageIsOneBuild PromotionIsEarned RebuildIsFaithful StageResultsHold
    SweepHolds TrainingHolds GuardHolds CorrectionHolds
PROPERTIES AcceptanceHolds
CHECK_DEADLOCK FALSE
