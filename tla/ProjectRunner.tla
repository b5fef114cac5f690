---------------------------- MODULE ProjectRunner ----------------------------
(***************************************************************************)
(* deeploop run: run_mission in passes of a growing iteration limit until  *)
(* the mission completes or the operator console asks for somebody         *)
(* (project_runner.py). After a pass the runner does not look at the files *)
(* it knows of but builds the monitor's snapshot, which reads the mission  *)
(* state and then the request file; a detached runtime of the same mission *)
(* may write both meanwhile.                                               *)
(*                                                                         *)
(* A pass is one step here; MissionRuntime has its inside.                 *)
(***************************************************************************)
EXTENDS Naturals

CONSTANTS
    ChunkIterations,   \* chunk_iterations
    MaxTotalIterations,
    EarlierIterations, \* counts an existing mission may be found with
    MaxInterventions   \* bound: writes of other processes, deaths of the runner

ASSUME RunnerAssumption ==
    /\ ChunkIterations \in Nat \ {0}
    /\ MaxTotalIterations \in Nat /\ ChunkIterations <= MaxTotalIterations
    /\ EarlierIterations \subseteq Nat
    /\ MaxInterventions \in Nat

Idle == {"initialized", "paused", "completed", "blocked", "failed"}
Stop == {"completed", "blocked", "failed", "max-iterations"}
Verdicts == Stop \cup {"none", "operator-review-required", "max-total-iterations"}

VARIABLES
    lifecycle, \* status of the mission; the runtime's status goes with it
    soft,      \* the mission state holds a soft-gate event
    counted,   \* iterations_completed of the runtime
    inbox,     \* the request file: "none", open when the runner's last pass ended
               \* ("own"), or opened by an "other"
    detached,  \* the process launch.json records: "unknown", "running", "exited"
    rpc,       \* "start", "pass", "state", "inbox", "decide", "returned"
    limit,     \* runtime_limit
    latest,    \* latest_result
    seen,      \* latest_snapshot
    verdict,   \* status the runner returned
    interventions

runnerVars == <<lifecycle, soft, counted, inbox, detached, rpc, limit, latest, seen,
                verdict, interventions>>
missionFiles == <<lifecycle, soft, counted, inbox>>

Nothing == [lifecycle |-> "initialized", soft |-> FALSE, live |-> FALSE, request |-> FALSE]

Least(a, b) == IF a <= b THEN a ELSE b
Most(a, b) == IF a <= b THEN b ELSE a

\* A mission that is blocked or failed has an open request: run_mission opens it
\* before it writes that status, and drops it with any other.
RunnerInit ==
    /\ lifecycle \in Idle \cup {"running"}    \* "running": its process died
    /\ soft \in BOOLEAN
    /\ counted \in EarlierIterations
    /\ lifecycle = "initialized" => counted = 0 /\ ~soft
    /\ inbox = IF lifecycle \in {"blocked", "failed"} THEN "other" ELSE "none"
    /\ detached \in {"unknown", "running", "exited"}
    /\ rpc = "start"
    /\ limit = 0
    /\ latest = [status |-> "max-iterations", iterations |-> 0]
    /\ seen = Nothing
    /\ verdict = "none"
    /\ interventions = 0

\* initialize_mission_from_project_root: an existing mission is taken as it is.
RunnerStarts ==
    /\ rpc = "start"
    /\ limit' = Least(ChunkIterations, MaxTotalIterations)
    /\ rpc' = "pass"
    /\ verdict' = "none"
    /\ UNCHANGED <<missionFiles, detached, latest, seen, interventions>>

----------------------------------------------------------------------------
(* A pass: run_mission up to the limit.                                    *)

\* The pass ends with a status; the state write opens or drops the request.
PassEndsWith(status, n, who) ==
    /\ counted' = n
    /\ lifecycle' = IF status = "max-iterations" THEN "paused" ELSE status
    /\ inbox' = IF status \in {"blocked", "failed"} THEN who ELSE "none"
    /\ latest' = [status |-> status, iterations |-> n]

\* With the limit used up nothing is decided and, unless the mission was found
\* running, nothing written: the stored status is returned, an open request stays.
\* (An initialized mission has counted nothing.)
ReturnStored ==
    /\ lifecycle \in {"paused", "blocked", "failed"}
    /\ latest' = [status |-> IF lifecycle = "paused" THEN "max-iterations" ELSE lifecycle,
                  iterations |-> counted]
    /\ inbox' = IF inbox = "none" THEN "none" ELSE "own"
    /\ UNCHANGED <<lifecycle, counted>>

\* A completed mission is only reported; with the limit used up nothing is decided;
\* else at least one iteration is counted. The run of a training leaves its soft
\* gate in the mission state for good.
RunnerPass ==
    /\ rpc = "pass"
    /\ \/ /\ lifecycle = "completed"
          /\ PassEndsWith("completed", counted, "own")
          /\ UNCHANGED soft
       \/ /\ counted >= limit
          /\ ReturnStored \/ (lifecycle = "running" /\ PassEndsWith("max-iterations", counted, "own"))
          /\ UNCHANGED soft
       \/ /\ lifecycle # "completed"
          /\ \E n \in counted + 1 .. limit, status \in Stop :
               PassEndsWith(status, n, "own")
          /\ soft' \in {soft, TRUE}
    /\ rpc' = "state"
    /\ UNCHANGED <<detached, limit, seen, verdict, interventions>>

----------------------------------------------------------------------------
(* build_mission_snapshot and the operator console.                        *)

\* The process recorded counts before what the files say.
IsLive == detached = "running" \/ (lifecycle = "running" /\ detached # "exited")

ReadMission ==
    /\ rpc = "state"
    /\ seen' = [Nothing EXCEPT !.lifecycle = lifecycle, !.soft = soft, !.live = IsLive]
    /\ rpc' = "inbox"
    /\ UNCHANGED <<missionFiles, detached, limit, latest, verdict, interventions>>

ReadInbox ==
    /\ rpc = "inbox"
    /\ seen' = [seen EXCEPT !.request = inbox # "none"]
    /\ rpc' = "decide"
    /\ UNCHANGED <<missionFiles, detached, limit, latest, verdict, interventions>>

\* Mutant: a soft gate is rendered before an open request.
GateSoftFirst(v) ==
    IF v.soft THEN "soft-gate" ELSE IF v.request THEN "request" ELSE "none"

\* An open request is rendered before a soft gate. The gate class of a request is
\* that of its blocker, never a soft gate.
Gate(v) ==
    IF v.request THEN "request" ELSE IF v.soft THEN "soft-gate" ELSE "none"

RequiresAction(v) ==
    CASE Gate(v) = "request"   -> TRUE
      [] Gate(v) = "soft-gate" -> ~v.live
      [] Gate(v) = "none"      -> v.lifecycle \in {"blocked", "failed"} /\ ~v.live

\* operator_surface_fields, as far as the runner tells the policies apart.
ResumePolicy(v) ==
    CASE Gate(v) = "request"                   -> "resume-after-fix"
      [] Gate(v) = "soft-gate" /\ v.live       -> "not-needed"
      [] Gate(v) = "soft-gate" /\ ~v.live      -> "resume-optional"
      [] Gate(v) = "none" /\ (v.live \/ v.lifecycle = "completed") -> "not-needed"
      [] OTHER                                 -> "inspect-first"

SoftRecovery(v) ==
    /\ Gate(v) = "soft-gate"
    /\ ResumePolicy(v) \in {"resume-optional", "not-needed"}

----------------------------------------------------------------------------
(* What the runner makes of it.                                            *)

RunnerReturns(status) ==
    /\ verdict' = status
    /\ rpc' = "returned"
    /\ UNCHANGED limit

\* Mutant: the total does not cap the limit.
NextLimitUncapped == Most(latest.iterations, limit) + ChunkIterations

NextLimit == Least(Most(latest.iterations, limit) + ChunkIterations, MaxTotalIterations)

RunnerDecides ==
    /\ rpc = "decide"
    /\ CASE latest.status = "completed" -> RunnerReturns("completed")
         [] latest.status # "completed" /\ RequiresAction(seen) /\ ~SoftRecovery(seen)
              -> RunnerReturns("operator-review-required")
         [] latest.status \in {"blocked", "failed"} /\ ~RequiresAction(seen)
              /\ ~SoftRecovery(seen)
              -> RunnerReturns(latest.status)
         [] OTHER ->
              IF latest.iterations >= MaxTotalIterations
                THEN RunnerReturns("max-total-iterations")
                ELSE /\ limit' = NextLimit
                     /\ rpc' = "pass"
                     /\ UNCHANGED verdict
    /\ UNCHANGED <<missionFiles, detached, latest, seen, interventions>>

RunnerStep == RunnerPass \/ ReadMission \/ ReadInbox \/ RunnerDecides

----------------------------------------------------------------------------
(* Others.                                                                 *)

Intervene ==
    /\ interventions < MaxInterventions
    /\ interventions' = interventions + 1

\* A detached runtime starts on the mission and writes its state: the request is
\* dropped with the first write.
DetachedRuns ==
    /\ Intervene
    /\ rpc \notin {"start", "returned"}
    /\ lifecycle # "completed"
    /\ lifecycle' = "running"
    /\ counted' = counted + 1
    /\ inbox' = "none"
    /\ detached' = "running"
    /\ UNCHANGED <<soft, rpc, limit, latest, seen, verdict>>

\* It stops, and may open a request of its own.
DetachedStops ==
    /\ Intervene
    /\ detached = "running" /\ lifecycle = "running"
    /\ \E status \in Stop :
         /\ lifecycle' = IF status = "max-iterations" THEN "paused" ELSE status
         /\ inbox' = IF status \in {"blocked", "failed"} THEN "other" ELSE "none"
    /\ detached' = "exited"
    /\ UNCHANGED <<soft, counted, rpc, limit, latest, seen, verdict>>

\* The recorded process of an earlier run ends.
DetachedExits ==
    /\ Intervene
    /\ detached = "running" /\ lifecycle # "running"
    /\ detached' = "exited"
    /\ UNCHANGED <<missionFiles, rpc, limit, latest, seen, verdict>>

\* The command is given again after it died or returned.
RunAgain ==
    /\ Intervene
    /\ rpc # "start"
    /\ rpc' = "start"
    /\ UNCHANGED <<missionFiles, detached, limit, latest, seen, verdict>>

RunnerNext ==
    \/ RunnerStarts \/ RunnerStep
    \/ DetachedRuns \/ DetachedStops \/ DetachedExits \/ RunAgain

RunnerSpec == RunnerInit /\ [][RunnerNext]_runnerVars
RunnerFairSpec == RunnerSpec /\ WF_runnerVars(RunnerStep)
----------------------------------------------------------------------------
(* Properties.                                                             *)

\* Every variable holds a value of its type; the limit stays within the total.
RunnerTypeOK ==
    /\ lifecycle \in Idle \cup {"running"}
    /\ soft \in BOOLEAN /\ counted \in Nat
    /\ inbox \in {"none", "own", "other"}
    /\ detached \in {"unknown", "running", "exited"}
    /\ rpc \in {"start", "pass", "state", "inbox", "decide", "returned"}
    /\ limit \in 0..MaxTotalIterations
    /\ latest \in [status : Stop, iterations : Nat]
    /\ seen \in [lifecycle : Idle \cup {"running"}, soft : BOOLEAN, live : BOOLEAN,
                 request : BOOLEAN]
    /\ verdict \in Verdicts
    /\ interventions \in Nat

\* The runner never starts the next pass over a request that was open when its last
\* pass ended and that nobody took back since, be it that pass's own or one it left
\* open because its limit was used up: a soft gate recorded long ago does not let
\* the runner go on.
RunnerRespectsRequest ==
    [][rpc = "decide" /\ rpc' = "pass" => inbox # "own"]_runnerVars
=============================================================================
