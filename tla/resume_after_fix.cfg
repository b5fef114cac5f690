SPECIFICATION Spec
CONSTANTS
  Phase <- MCPhase
  NoPhase = ""
  Execution = "execution"
  Critique = "critique"
  Replication = "replication"
  FinalReport = "final"
  Output <- MCOutput
  Required <- MCRequired
  Transitions <- MCTransitions
  FirstTransition <- MCFirstTransition
  TransitionMeta <- MCTransitionMeta
  Executor <- QueueExecutor
  Produces <- NoHintOutputs
  NextOnSuccess <- StraightToReport
  InitialStates <- QueueMissions
  Budgets = {3, 7}
  MaxLaunches = 3
  MaxCrashes = 0
  MaxDecisions = 8
  AgentSteps = 1
  AgentResults = {}
  AgentReports = {}
  MayRaise = FALSE
PROPERTIES
  FixUnblocksReport
CHECK_DEADLOCK FALSE
