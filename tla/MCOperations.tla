---------------------------- MODULE MCOperations -----------------------------
(***************************************************************************)
(* Instances of the components around a mission's passes: the scheduler,   *)
(* the commands that launch a detached process and the project runner,     *)
(* which start them, and the operator's triage between two of them. They   *)
(* share no state here, so one of them is taken at a time and the others   *)
(* stand still; each meets the others in its own actions of the            *)
(* environment (OthersRun, CommandDies, DetachedRuns).                     *)
(***************************************************************************)
EXTENDS MissionScheduler, MissionLaunch, ProjectRunner, OperatorTriage

VARIABLE taken  \* the component of this behaviour

opsVars == <<schedVars, launchVars, runnerVars, triageVars, taken>>

\* What stands still has one initial state.
OpsInit ==
    /\ SchedInit /\ LaunchInit /\ RunnerInit /\ TriageInit
    /\ taken \in {"scheduler", "launch", "runner", "triage"}
    /\ taken # "runner" => lifecycle = "initialized" /\ detached = "unknown"
    /\ taken # "triage" => managed /\ hooks

OpsNext ==
    /\ UNCHANGED taken
    /\ \/ taken = "scheduler" /\ SchedNext /\ UNCHANGED <<launchVars, runnerVars, triageVars>>
       \/ taken = "launch" /\ LaunchNext /\ UNCHANGED <<schedVars, runnerVars, triageVars>>
       \/ taken = "runner" /\ RunnerNext /\ UNCHANGED <<schedVars, launchVars, triageVars>>
       \/ taken = "triage" /\ TriageNext /\ UNCHANGED <<schedVars, launchVars, runnerVars>>

\* The steps the scheduler and the runner take by themselves.
OpsStep ==
    \/ taken = "scheduler" /\ SchedulerStep /\ UNCHANGED <<launchVars, runnerVars, triageVars, taken>>
    \/ taken = "runner" /\ RunnerStep /\ UNCHANGED <<schedVars, launchVars, triageVars, taken>>

OpsSpec == OpsInit /\ [][OpsNext]_opsVars /\ WF_opsVars(OpsStep)

\* The type invariants of the components.
OpsTypeOK == SchedTypeOK /\ LaunchTypeOK /\ RunnerTypeOK /\ TriageTypeOK

(* A scheduler returns by itself if the missions' slices do, and a runner  *)
(* that starts a pass comes back, by a status that ends it or by its total *)
(* limit, or is given up.                                                  *)
StartersStop ==
    (spc # "idle" \/ rpc = "pass") ~> (spc = "idle" /\ rpc \in {"returned", "start"})

MCPriority == [m \in 1..Missions |-> IF m = 1 THEN 100 ELSE IF m = 2 THEN 50 ELSE 1]
MCBudget == [m \in 1..Missions |-> 4]

\* Patience suffices here: the window of two covers a round of three missions.
ASSUME InstancePatience == EnoughPatience

MCPlanner == [q |-> "plan-q", t |-> "plan-t"]
==============================================================================
