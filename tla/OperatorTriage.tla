--------------------------- MODULE OperatorTriage ---------------------------
(***************************************************************************)
(* What a mission does between a blocked executor and the operator's       *)
(* resume (mission_runtime.py): the operator request, the automatic triage *)
(* of a blocked queue, the recovery step managed mode stages, and the      *)
(* operator's triage and feedback commands (mission_management.py) beside  *)
(* it.                                                                     *)
(*                                                                         *)
(* The actions modelled are of one phase and kind, so they share decision, *)
(* request and triage directory. A triage result stays in that directory,  *)
(* and the launcher of the next triage returns it at once (ProviderSession).*)
(***************************************************************************)
EXTENDS Naturals

CONSTANTS
    Queues,       \* actions whose executor is a queue
    Trainings,    \* actions whose executor is an adaptation training
    Planner,      \* the planner action its reroute stages
    NoStep,
    MaxStops,     \* bound: passes
    MaxEvents     \* bound: crashes and commands of the operator

Listed == Queues \cup Trainings
Steps == Listed \cup {Planner[a] : a \in Listed}

ASSUME TriageAssumption ==
    /\ Queues \cap Trainings = {} /\ NoStep \notin Steps
    /\ \A a \in Listed : Planner[a] \notin Listed
    /\ \A a, b \in Listed : Planner[a] = Planner[b] => a = b
    /\ MaxStops \in Nat /\ MaxEvents \in Nat

Recommended == {"retry", "reroute", "other"}  \* downscope stages as reroute does

VARIABLES
    managed,     \* mode of the mission
    hooks,       \* intervention_profile is hook-enabled
    opc,         \* the pass: "off", "decide", "execute", "request", "triage", "open", "write"
    cur,         \* its action
    why,         \* how cur stopped the pass: "none", "entries", "hard", "failed"
    does,        \* status of each action in the state the pass holds; "absent" if not listed
    gateKept,    \* whether adaptation_training.gate_event of that state is hard
    onFile,      \* status of each action in mission_state.json
    gateOnFile,  \* and its gate event
    answer,      \* triage_result.json of the request: "none", a recommendation, or "failed"
    staged,      \* the step this pass staged for its request
    operatorRequest,       \* current_operator_request.json: whether it is open, tells of blocked
                 \* entries, and the step it calls staged
    feedback,    \* what a feedback command has read, Closed when none is under way
    torn,        \* history: a crash, or a feedback command, came between two files
    stops, incidents

triageVars == <<managed, hooks, opc, cur, why, does, gateKept, onFile, gateOnFile, answer,
                staged, operatorRequest, feedback, torn, stops, incidents>>
policy == <<managed, hooks>>
missionFile == <<onFile, gateOnFile>>
asides == <<feedback, incidents>>

Closed == [open |-> FALSE, entries |-> FALSE, step |-> NoStep]
SaveState == onFile' = does' /\ gateOnFile' = gateKept'

TriageInit ==
    /\ managed \in BOOLEAN /\ hooks \in BOOLEAN
    /\ opc = "off" /\ cur = NoStep /\ why = "none"
    /\ does = [s \in Steps |-> IF s \in Listed THEN "pending" ELSE "absent"]
    /\ onFile = does
    /\ gateKept = FALSE /\ gateOnFile = FALSE /\ answer = "none" /\ staged = NoStep
    /\ operatorRequest = Closed /\ feedback = Closed
    /\ torn = FALSE /\ stops = 0 /\ incidents = 0

PassBegins ==
    /\ opc = "off" /\ stops < MaxStops
    /\ opc' = "decide" /\ stops' = stops + 1
    /\ does' = onFile /\ gateKept' = gateOnFile
    /\ staged' = NoStep /\ why' = "none"
    /\ UNCHANGED <<policy, cur, missionFile, answer, operatorRequest, torn, asides>>

\* An action that waits is dispatched, in the order of their list; the write before
\* it clears the request.
DispatchStep(s) ==
    /\ opc = "decide" /\ does[s] \in {"pending", "in_progress"}
    /\ cur' = s /\ does' = [does EXCEPT ![s] = "in_progress"]
    /\ UNCHANGED gateKept /\ SaveState /\ operatorRequest' = Closed
    /\ why' = "none" /\ opc' = "execute"
    /\ UNCHANGED <<policy, answer, staged, torn, stops, asides>>

\* None waits: the mission blocks, without an executor's payload.
NothingWaits ==
    /\ opc = "decide" /\ \A s \in Steps : does[s] \notin {"pending", "in_progress"}
    /\ cur' = NoStep /\ why' = "none" /\ opc' = "request"
    /\ UNCHANGED <<policy, does, gateKept, missionFile, answer, staged, operatorRequest, torn,
                   stops, asides>>

\* The executor's status becomes the action's, and its gate event is kept.
Settle(status, gate) ==
    /\ does' = [does EXCEPT ![cur] = status]
    /\ gateKept' = IF cur \in Trainings THEN gate = "hard" ELSE gateKept
    /\ UNCHANGED <<policy, cur, answer, operatorRequest, torn, stops, asides>>

Completes ==
    /\ opc = "execute" /\ opc' = "decide"
    /\ Settle("completed", "none") /\ SaveState
    /\ UNCHANGED <<staged, why>>

StopsBy(reason) ==
    /\ opc = "execute" /\ opc' = "request" /\ why' = reason
    /\ Settle("blocked", reason)
    /\ UNCHANGED <<missionFile, staged>>

Blocked ==
    \/ cur \in Queues /\ StopsBy("entries")
    \/ cur \in Trainings /\ StopsBy("hard")
    \/ StopsBy("failed")

\* _stage_managed_recovery_action: in managed mode the action itself waits again, or
\* a planner action beside it.
Staging(recommended) ==
    IF ~managed \/ cur \notin Listed THEN NoStep
    ELSE CASE recommended = "retry"   -> cur
           [] recommended = "reroute" -> Planner[cur]
           [] OTHER -> NoStep
Waiting(statuses, s) == IF s = NoStep THEN statuses ELSE [statuses EXCEPT ![s] = "pending"]

\* A soft gate defers a training; the pass goes on.
SoftGate ==
    /\ opc = "execute" /\ cur \in Trainings
    /\ \E r \in {"retry", "reroute"} :
         does' = Waiting([does EXCEPT ![cur] = "deferred"], Staging(r))
    /\ gateKept' = FALSE
    /\ SaveState /\ opc' = "decide"
    /\ UNCHANGED <<policy, cur, why, answer, staged, operatorRequest, torn, stops, asides>>

----------------------------------------------------------------------------
(* The request of a mission that has stopped.                              *)

\* _build_operator_request: a hard gate on record comes before everything else.
Blocker ==
    CASE why = "hard" \/ gateKept -> "hard-gate"
      [] why = "failed"           -> "unrecoverable-failure"
      [] OTHER                    -> "operator-review"

\* Mutant: the class of the blocker is not looked at.
TriagedAlways == hooks /\ why # "none"

Triaged == hooks /\ Blocker = "operator-review" /\ why = "entries"

BuildRequest ==
    /\ opc = "request"
    /\ opc' = IF Triaged THEN "triage" ELSE "open"
    /\ UNCHANGED <<policy, cur, why, does, gateKept, missionFile, answer, staged,
                   operatorRequest, torn, stops, asides>>

\* A result in the directory answers at once; else the provider recommends something
\* or fails, or the time limit passes. The exit code is not looked at.
TriageReturns(r) ==
    /\ opc = "triage"
    /\ IF answer # "none" THEN r = answer /\ UNCHANGED answer
       ELSE \/ r \in Recommended \cup {"failed"} /\ answer' = r
            \/ r = "failed" /\ UNCHANGED answer
    /\ staged' = Staging(r)
    /\ does' = Waiting(does, staged')
    /\ opc' = "open"
    /\ UNCHANGED <<policy, cur, why, gateKept, missionFile, operatorRequest, torn, stops,
                   asides>>

OpenRequest ==
    /\ opc = "open"
    /\ operatorRequest' = [open |-> TRUE, entries |-> why = "entries", step |-> staged]
    /\ torn' = FALSE /\ opc' = "write"
    /\ UNCHANGED <<policy, cur, why, does, gateKept, missionFile, answer, staged, stops,
                   asides>>

SaveStopped ==
    /\ opc = "write"
    /\ UNCHANGED <<does, gateKept>> /\ SaveState
    /\ opc' = "off"
    /\ UNCHANGED <<policy, cur, why, answer, staged, operatorRequest, torn, stops, asides>>

----------------------------------------------------------------------------
(* The operator beside it.                                                 *)

Event == incidents < MaxEvents /\ incidents' = incidents + 1

PassDies ==
    /\ Event /\ opc # "off" /\ opc' = "off"
    /\ torn' = TRUE
    /\ UNCHANGED <<policy, cur, why, does, gateKept, missionFile, answer, staged,
                   operatorRequest, feedback, stops>>

\* triage: the same prompt and directory; a failed provider leaves its result too.
OperatorTriages ==
    /\ Event /\ operatorRequest.open /\ operatorRequest.entries /\ (hooks \/ managed)
    /\ answer = "none" /\ answer' \in Recommended \cup {"failed"}
    /\ UNCHANGED <<policy, opc, cur, why, does, gateKept, missionFile, staged,
                   operatorRequest, feedback, torn, stops>>

\* retry, reroute: the response is written into the request that was read.
FeedbackReads ==
    /\ Event /\ operatorRequest.open /\ ~feedback.open
    /\ feedback' = operatorRequest
    /\ UNCHANGED <<policy, opc, cur, why, does, gateKept, missionFile, answer, staged,
                   operatorRequest, torn, stops>>

FeedbackWrites ==
    /\ feedback.open
    /\ operatorRequest' = feedback /\ feedback' = Closed
    /\ torn' = (torn \/ operatorRequest # feedback)
    /\ UNCHANGED <<policy, opc, cur, why, does, gateKept, missionFile, answer, staged, stops,
                   incidents>>

PassStep ==
    \/ PassBegins \/ NothingWaits \/ \E s \in Steps : DispatchStep(s)
    \/ Completes \/ Blocked \/ SoftGate
    \/ BuildRequest \/ \E r \in Recommended \cup {"failed"} : TriageReturns(r)
    \/ OpenRequest \/ SaveStopped

TriageNext == PassStep \/ PassDies \/ OperatorTriages \/ FeedbackReads \/ FeedbackWrites

TriageSpec == TriageInit /\ [][TriageNext]_triageVars
----------------------------------------------------------------------------
(* Properties.                                                             *)

\* Every variable holds a value of its type.
TriageTypeOK ==
    /\ managed \in BOOLEAN /\ hooks \in BOOLEAN
    /\ opc \in {"off", "decide", "execute", "request", "triage", "open", "write"}
    /\ cur \in Steps \cup {NoStep} /\ why \in {"none", "entries", "hard", "failed"}
    /\ {does, onFile} \subseteq
         [Steps -> {"absent", "pending", "in_progress", "blocked", "deferred", "completed"}]
    /\ {gateKept, gateOnFile} \subseteq BOOLEAN
    /\ answer \in Recommended \cup {"none", "failed"}
    /\ staged \in Steps \cup {NoStep}
    /\ {operatorRequest, feedback} \subseteq
         [open : BOOLEAN, entries : BOOLEAN, step : Steps \cup {NoStep}]
    /\ torn \in BOOLEAN /\ stops \in 0..MaxStops /\ incidents \in 0..MaxEvents

\* "straight to resume" (docs/guide/operator.md): what an open request calls staged
\* does wait in the mission's file; and nothing is staged for a mission that stopped at
\* a hard gate or failed, or is not in managed mode.
StagedStepWaits ==
    /\ opc = "off" /\ ~torn /\ operatorRequest.open /\ operatorRequest.step # NoStep
         => onFile[operatorRequest.step] = "pending"
    /\ opc \in {"open", "write"} /\ staged # NoStep => managed /\ why = "entries" /\ ~gateKept
=============================================================================
