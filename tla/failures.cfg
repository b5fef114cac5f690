SPECIFICATION Spec
CONSTANTS
  Phase <- MCPhase
  NoPhase = ""
  Execution = "execution"
  Critique = "critique"
  Replication = "replication"
  FinalReport = "final"
  Output <- MCOutput
  Required <- MCRequired
  Transitions <- MCTransitions
  FirstTransition <- MCFirstTransition
  TransitionMeta <- MCTransitionMeta
  Executor <- AgentExecutor
  Produces <- NoHintOutputs
  NextOnSuccess <- DefaultNext
  InitialStates <- AgentMissions
  Budgets = {2, 4}
  MaxLaunches = 3
  MaxCrashes = 1
  MaxDecisions = 5
  AgentSteps = 1
  AgentResults = {"in_progress", "completed"}
  AgentReports <- MCReports
  MayRaise = TRUE
INVARIANTS
  CleanEndAgrees
  PromotionIsGrounded
PROPERTIES
  FilesFollowLifecycle
CHECK_DEADLOCK FALSE
