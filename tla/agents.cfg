SPECIFICATION Spec
CONSTANTS
  Phase <- MCPhase
  NoPhase = ""
  Execution = "execution"
  Critique = "critique"
  Replication = "replication"
  FinalReport = "final"
  Output <- MCOutput
  Required <- MCRequired
  Transitions <- MCTransitions
  FirstTransition <- MCFirstTransition
  TransitionMeta <- MCTransitionMeta
  Executor <- AgentExecutor
  Produces <- NoHintOutputs
  NextOnSuccess <- DefaultNext
  InitialStates <- WaivedMission
  Budgets = {3}
  MaxLaunches = 2
  MaxCrashes = 1
  MaxDecisions = 3
  AgentSteps = 2
  AgentResults = {"in_progress", "completed"}
  AgentReports <- MCReports
  MayRaise = FALSE
INVARIANTS
  CurrentOutputsAgree
PROPERTIES
  NoLostOutputs
CHECK_DEADLOCK FALSE
