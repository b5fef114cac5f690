---------------------------- MODULE MCExecutors -----------------------------
(***************************************************************************)
(* Instances of the executors the outer loop dispatches to, of what the    *)
(* recursive agent starts in turn (a provider's launcher, parallel         *)
(* subagents), and of the experiment search that decides what it is        *)
(* dispatched for. A mission runs one executor at a time and they share no *)
(* file but the mission state, which each of them models for itself; so    *)
(* one of them is taken at a time and the others stand still.              *)
(***************************************************************************)
EXTENDS HealingQueue, RecursiveAgent, ProviderSession, ParallelSubagents, ExperimentSearch

VARIABLE executor  \* the executor of this behaviour

executorVars == <<queueVars, agentVars, providerVars, subVars, searchVars, executor>>

\* What stands still has one initial state.
ExecutorsInit ==
    /\ QueueInit /\ AgentInit /\ ProviderInit /\ SubInit /\ SearchInit
    /\ executor \in {"queue", "agent", "provider", "subagents", "search"}
    /\ executor # "queue" => unresolved = {}
    /\ executor # "provider" =>
         inExecution /\ file = NoFile /\ artifacts = "none"
    /\ executor # "subagents" => \A t \in SubTask : resultOf[t] = "none"
    /\ executor # "search" => configured

ExecutorsNext ==
    /\ UNCHANGED executor
    /\ \/ /\ executor = "queue" /\ QueueNext
          /\ UNCHANGED <<agentVars, providerVars, subVars, searchVars>>
       \/ /\ executor = "agent" /\ AgentNext
          /\ UNCHANGED <<queueVars, providerVars, subVars, searchVars>>
       \/ /\ executor = "provider" /\ ProviderNext
          /\ UNCHANGED <<queueVars, agentVars, subVars, searchVars>>
       \/ /\ executor = "subagents" /\ SubNext
          /\ UNCHANGED <<queueVars, agentVars, providerVars, searchVars>>
       \/ /\ executor = "search" /\ SearchNext
          /\ UNCHANGED <<queueVars, agentVars, providerVars, subVars>>

\* Each executor proceeds by itself; only its jobs, agents, providers and commands may
\* hang, and time passes.
ExecutorStep ==
    \/ /\ executor = "queue" /\ QueueStep
       /\ UNCHANGED <<agentVars, providerVars, subVars, searchVars, executor>>
    \/ /\ executor = "agent" /\ AgentStep
       /\ UNCHANGED <<queueVars, providerVars, subVars, searchVars, executor>>
    \/ /\ executor = "provider" /\ LauncherStep
       /\ UNCHANGED <<queueVars, agentVars, subVars, searchVars, executor>>
    \/ /\ executor = "subagents" /\ SubStep
       /\ UNCHANGED <<queueVars, agentVars, providerVars, searchVars, executor>>
TimePasses ==
    /\ executor = "provider" /\ Quiet
    /\ UNCHANGED <<queueVars, agentVars, subVars, searchVars, executor>>

ExecutorsSpec ==
    /\ ExecutorsInit /\ [][ExecutorsNext]_executorVars
    /\ WF_executorVars(ExecutorStep) /\ SF_executorVars(TimePasses)

\* The type invariants of the executors.
ExecutorsTypeOK == QueueTypeOK /\ AgentTypeOK /\ ProviderTypeOK /\ SubTypeOK /\ SearchTypeOK

\* Whatever its jobs, agents, providers or threads do, an executor returns to the
\* outer loop: the queue by its attempts, the agent by its limits, the launcher by
\* the idle time and the pool by the time limit of each command.
AllReturned == qpc = "idle" /\ apc = "idle" /\ (try = 0 \/ lpc = "judge") /\ Idling
ExecutorsReturn == ~AllReturned ~> AllReturned

\* Each failure of a process is first retried, the others are first resumed or
\* rerouted, as in the shipped policy.
MCRepair == [f \in Failure |->
    CASE f = "command-failure"    -> <<"retry", "reroute">>
      [] f = "import-env-failure" -> <<"reroute">>
      [] f = "missing-artifact"   -> <<"resume", "retry">>
      [] f = "schema-mismatch"    -> <<"resume", "reroute">>
      [] f = "scientific-reroute" -> <<"reroute">>
      [] f = "scientific-stop"    -> <<>>]
MCLimit == [m \in RecoveryMode |-> 1]

MCPayloads ==
    LET P(s, r, t, m) == [says |-> s, result |-> r, to |-> t, moves |-> m]
    IN  {P("continue", "completed", Nobody, FALSE), P("continue", "in_progress", Nobody, FALSE),
         P("complete", "completed", Nobody, FALSE), P("blocked", "in_progress", Nobody, FALSE),
         P("continue", "completed", Hold, FALSE), P("continue", "in_progress", "execution", TRUE)}

MCRoles == <<"critic", "critic", "coder">>

\* A payload with code, or without.
MCExperiments ==
    [code : {TRUE}, metric : {1, 2, NoMetric}, buggy : BOOLEAN]
      \cup [code : {FALSE}, metric : {NoMetric}, buggy : {FALSE}]
=============================================================================
