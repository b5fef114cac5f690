SPECIFICATION FairSpec
CONSTANTS
  Phase <- MCPhase
  NoPhase = ""
  Execution = "execution"
  Critique = "critique"
  Replication = "replication"
  FinalReport = "final"
  Output <- MCOutput
  Required <- MCRequired
  Transitions <- MCTransitions
  FirstTransition <- MCFirstTransition
  TransitionMeta <- MCTransitionMeta
  Executor <- QueueExecutor
  Produces <- NoHintOutputs
  NextOnSuccess <- StraightToReport
  InitialStates <- QueueMissions
  Budgets = {3, 7}
  MaxLaunches = 3
  MaxCrashes = 2
  MaxDecisions = 28
  AgentSteps = 1
  AgentResults = {}
  AgentReports = {}
  MayRaise = TRUE
INVARIANTS
  IInv
  IntentIsDurable
  DecisionsAreBounded
PROPERTIES
  CompletionIsFinal
  PassEnds
CHECK_DEADLOCK FALSE
