--------------------------- MODULE MissionRuntime ----------------------------
(***************************************************************************)
(* The mission outer loop (run_mission) against its files.                 *)
(*                                                                         *)
(* A pass loads mission_state.json and the runtime state, then repeats:    *)
(* reload the mission state, let the engine decide, act on the directive,  *)
(* write everything back. A write is not atomic: the operator request      *)
(* file, mission_state.json and the runtime state are replaced one after   *)
(* the other, and the process may die between any two of them or while an  *)
(* executor is running. A recursive agent writes mission_state.json itself *)
(* while the outer loop waits for it.                                      *)
(***************************************************************************)
EXTENDS MissionDecision

CONSTANTS
    InitialStates,      \* mission states a freshly initialised mission may have
    Budgets,            \* values of max_iterations a pass may be started with
    MaxLaunches,        \* bound: passes started
    MaxCrashes,         \* bound: crashes
    MaxDecisions,       \* bound: decisions taken in one pass
    AgentSteps,         \* iterations of one recursive-agent dispatch
    AgentResults,       \* action statuses an agent may report
    AgentReports,       \* what else it may report
    MayRaise            \* whether executors may raise

\* What mission_state_updates may hold: a partial mission state.
IsUpdate(u) ==
    /\ DOMAIN u \subseteq {"status", "current_phase", "next_phase", "produced_outputs", "by_phase"}
    /\ "status" \in DOMAIN u => u.status \in MissionStatus
    /\ "current_phase" \in DOMAIN u => u.current_phase \in Phase
    /\ "next_phase" \in DOMAIN u => u.next_phase \in Phase
    /\ "produced_outputs" \in DOMAIN u => u.produced_outputs \in SUBSET Output
    /\ "by_phase" \in DOMAIN u => /\ DOMAIN u.by_phase \subseteq Phase
                                  /\ \A p \in DOMAIN u.by_phase : u.by_phase[p] \in SUBSET Output

NoUpdate == [k \in {} |-> k]

\* A report of an action of phase "of": where its phase control says the mission is (in
\* the action's phase, when it does not say) and goes next, the phase of its continuation
\* (the next one, if named), and its updates of the mission state.
IsReport(r) ==
    /\ {r.of, r.current} \subseteq Phase /\ r.next \in Phase \cup {NoPhase}
    /\ r.continues \in IF r.next = NoPhase THEN Phase \cup {NoPhase} ELSE {r.next, NoPhase}
    /\ IsUpdate(r.updates)

ASSUME ReportAssumption == \A r \in AgentReports : IsReport(r)

ASSUME BoundAssumption ==
    /\ InitialStates \subseteq MissionStates
    /\ \A m \in InitialStates :
         /\ m.status # "completed" /\ m.runtime = [status |-> "initialized", iterations |-> 0]
         /\ m.produced_outputs = m.by_phase[m.current_phase]   \* no outputs in either
    /\ Budgets \subseteq Nat
    /\ MaxLaunches \in Nat /\ MaxCrashes \in Nat /\ MaxDecisions \in Nat /\ AgentSteps \in Nat
    /\ AgentResults \subseteq ActionStatus
    /\ MayRaise \in BOOLEAN

\* A mission starts before critique is passed, with nothing recorded or asked of it.
StartsBeforeReport ==
    \A m \in InitialStates :
        /\ m.current_phase \notin Promoted /\ m.next_phase \notin Promoted
        /\ \A p \in Phase : m.by_phase[p] = {} /\ m.due[p] = {}
        /\ m.action[Critique] = "none"

\* No agent says of its own accord that the mission is completed.
ReportsLeaveCompletion ==
    \A r \in AgentReports : "status" \in DOMAIN r.updates => r.updates.status # "completed"

\* What the hint of a queue phase declares, if anything, is all its phase must produce.
QueueHintsCover ==
    \A p \in Phase : Executor[p] = "self-healing-queue"
        => Produces[p] = {} \/ Required[p] \subseteq Produces[p]

VARIABLES
    disk,       \* mission_state.json
    rs,         \* the runtime state file (status, iterations_completed)
    request,    \* current_operator_request.json: is a request open?
    branches,   \* the branch log
    mem,        \* mission_state of the running pass
    rt,         \* runtime_state of the running pass
    pc,         \* where the pass is
    resume,     \* what follows the write in progress
    work,       \* the dispatched action: phase, agent iterations, last report
    budget,     \* max_iterations of the current pass
    launches, crashes, decisions,
    strayed     \* history: a report went beyond what its action entitles it to

vars == <<disk, rs, request, branches, mem, rt, pc, resume, work,
          budget, launches, crashes, decisions, strayed>>
files == <<disk, rs, request, branches>>
steady == <<budget, launches, crashes, strayed>>

Terminal == {"completed", "blocked", "failed", "max-iterations"}
Stopped == {"idle", "down"}
Writing == {"inbox", "state", "runtime"}
NoReport == [of |-> Execution, current |-> Execution, next |-> NoPhase, continues |-> NoPhase,
             updates |-> NoUpdate]
NoWork == [phase |-> Execution, iterations |-> 0, report |-> NoReport]

Init ==
    /\ disk \in InitialStates
    /\ rs = [status |-> "initialized", iterations |-> 0]
    /\ request = FALSE
    /\ branches = {}
    /\ mem = disk
    /\ rt = rs
    /\ pc = "idle"
    /\ resume = "check"
    /\ work = NoWork
    /\ budget = 0
    /\ launches = 0 /\ crashes = 0 /\ decisions = 0
    /\ strayed = FALSE

----------------------------------------------------------------------------
(* Starting a pass.                                                        *)

\* The limit counts all iterations of the mission; a caller may give any.
Launch(b) ==
    /\ pc \in Stopped
    /\ launches < MaxLaunches
    /\ budget' = b
    /\ launches' = launches + 1
    /\ decisions' = 0
    /\ mem' = disk
    /\ UNCHANGED <<files, work, crashes, strayed>>

\* Mutant: each pass counts its iterations from zero.
LaunchFromZero(b) ==
    /\ disk.status # "completed"
    /\ Launch(b)
    /\ rt' = [rs EXCEPT !.iterations = 0]
    /\ pc' = "loop"
    /\ UNCHANGED resume

LaunchPass(b) ==
    /\ disk.status # "completed"
    /\ Launch(b)
    /\ rt' = rs
    /\ pc' = "loop"
    /\ UNCHANGED resume

\* Mutant: a launch that finds the mission completed returns at once.
LaunchReturns(b) ==
    /\ disk.status = "completed"
    /\ Launch(b)
    /\ rt' = rs
    /\ pc' = "idle"
    /\ UNCHANGED resume

LaunchCompleted(b) ==
    /\ disk.status = "completed"
    /\ Launch(b)
    /\ rt' = [rs EXCEPT !.status = "completed"]
    /\ pc' = "inbox"
    /\ resume' = "end"

----------------------------------------------------------------------------
(* Writing the state: request file, mission state, runtime state.          *)

BeginWrite(then) == pc' = "inbox" /\ resume' = then

WriteInbox ==
    /\ pc = "inbox"
    /\ request' = (rt.status \in {"blocked", "failed"})
    /\ mem' = [mem EXCEPT !.operator_inbox = IF request' THEN "open" ELSE "clear",
                          !.runtime = rt]
    /\ pc' = "state"
    /\ UNCHANGED <<disk, rs, branches, rt, resume, work, steady, decisions>>

WriteMission ==
    /\ pc = "state"
    /\ disk' = mem
    /\ pc' = "runtime"
    /\ UNCHANGED <<rs, request, branches, mem, rt, resume, work, steady, decisions>>

WriteRuntime ==
    /\ pc = "runtime"
    /\ rs' = rt
    /\ pc' = IF resume = "end" THEN "idle" ELSE resume
    /\ resume' = "check"
    /\ UNCHANGED <<disk, request, branches, mem, rt, work, steady, decisions>>

----------------------------------------------------------------------------
(* One decision of the outer loop.                                         *)

\* _stop_status: the mission status that goes with a runtime status.
StopStatus(m, s) == [m EXCEPT !.status = IF s = "max-iterations" THEN "paused" ELSE s]

Deciding ==
    /\ pc = "loop"
    /\ rt.iterations < budget
    /\ decisions < MaxDecisions
    /\ decisions' = decisions + 1
    /\ UNCHANGED <<disk, rs, request, steady>>

\* The end of an iteration: the counter moves and everything is written.
EndIteration(m, s) ==
    /\ mem' = m
    /\ rt' = [status |-> s, iterations |-> rt.iterations + 1]
    /\ BeginWrite("check")
    /\ work' = NoWork

DecideComplete ==
    /\ Deciding
    /\ SelectsComplete(disk, branches)
    /\ EndIteration(StopStatus(disk, "completed"), "completed")
    /\ UNCHANGED branches

DecideBlock ==
    /\ Deciding
    /\ SelectsBlock(disk, branches)
    /\ EndIteration(StopStatus(disk, "blocked"), "blocked")
    /\ UNCHANGED branches

\* BRANCH, REROUTE and CONTINUE along a hop. The branch record is appended to
\* its log before anything else is written.
DecideTransition ==
    /\ Deciding
    /\ SelectsHop(disk, branches) /\ HopAllowed(disk)
    /\ LET to   == disk.next_phase
           meta == HopMeta(disk)
       IN  /\ branches' = IF Candidates(disk, branches) = {} /\ OpensBranch(meta)
                          THEN branches \cup {[target |-> to, branch |-> meta.branch,
                                               recovery |-> meta.recovery]}
                          ELSE branches
           /\ EndIteration([ApplyPhaseChange(disk, to, to) EXCEPT !.status = "running"],
                           "running")

\* Mutant: the executor starts before the decision is written.
DispatchUnsaved ==
    /\ Deciding
    /\ SelectsWork(disk, branches)
    /\ Executor[disk.current_phase] # "none"
    /\ mem' = [disk EXCEPT !.action[disk.current_phase] = "in_progress",
                           !.due[disk.current_phase] = DueOutputs(disk)]
    /\ work' = [phase |-> disk.current_phase, iterations |-> 0, report |-> NoReport]
    /\ rt' = [rt EXCEPT !.status = "running"]
    /\ pc' = "execute"
    /\ UNCHANGED <<branches, resume>>

\* The action is durable as in_progress before its executor starts.
DecideDispatch ==
    /\ Deciding
    /\ SelectsWork(disk, branches)
    /\ LET p == disk.current_phase
       IN  /\ Executor[p] # "none"
           /\ mem' = [disk EXCEPT
                        !.action[p] = "in_progress",
                        !.due[p] = DueOutputs(disk),
                        !.bootstrap = IF Executor[p] = "self-healing-queue" /\ @ = "pending"
                                      THEN "baseline-running" ELSE @]
           /\ work' = [phase |-> p, iterations |-> 0, report |-> NoReport]
    /\ rt' = [rt EXCEPT !.status = "running"]
    /\ BeginWrite("execute")
    /\ UNCHANGED branches

\* Work without an executor stops the mission.
DecideNoExecutor ==
    /\ Deciding
    /\ SelectsWork(disk, branches)
    /\ LET p == disk.current_phase
       IN  /\ Executor[p] = "none"
           /\ EndIteration(StopStatus([disk EXCEPT !.action[p] = "blocked",
                                                   !.due[p] = DueOutputs(disk)], "blocked"),
                           "blocked")
    /\ UNCHANGED branches

----------------------------------------------------------------------------
(* A recursive agent at work.                                              *)

\* deep_merge of an agent's updates into a mission state.
DeepMerge(m, u) ==
    LET outputs == IF "by_phase" \in DOMAIN u THEN u.by_phase ELSE NoUpdate
    IN  [m EXCEPT
           !.status           = IF "status" \in DOMAIN u THEN u.status ELSE @,
           !.current_phase    = IF "current_phase" \in DOMAIN u THEN u.current_phase ELSE @,
           !.next_phase       = IF "next_phase" \in DOMAIN u THEN u.next_phase ELSE @,
           !.produced_outputs = IF "produced_outputs" \in DOMAIN u THEN u.produced_outputs ELSE @,
           !.by_phase         = [p \in Phase |-> IF p \in DOMAIN outputs THEN outputs[p] ELSE @[p]],
           !.recorded         = @ \cup DOMAIN outputs]

\* _resolve_transitioned_current_phase: the report hands over to the phase it names next,
\* when it continues there or its action is itself a transition, or the mission stays.
PhaseAfter(r, transition) ==
    IF /\ r.next \notin {NoPhase, r.current}
       /\ r.continues = r.next \/ (transition /\ r.of = r.current)
    THEN r.next ELSE r.current

\* Outputs an iteration is credited with: what the action declares, else, on naming
\* another phase, everything its own must produce.
AgentOutputs(due, r) ==
    IF due # {} THEN due
    ELSE IF r.next \notin {NoPhase, r.of} /\ (r.continues = r.next \/ r.current = r.of)
         THEN Required[r.of] ELSE {}

\* _apply_result_to_mission. The phase named next is not looked up in the contract.
ApplyAgentResult(m, due, r, transition) ==
    LET from     == m.current_phase
        merged   == DeepMerge(m, r.updates)
        to       == PhaseAfter(r, transition)
        outputs  == AgentOutputs(due, r)
        by_phase == [merged.by_phase EXCEPT ![r.of] = @ \cup outputs]
    IN  [merged EXCEPT !.by_phase = by_phase,
                       !.recorded = IF outputs = {} THEN @ ELSE @ \cup {r.of},
                       !.current_phase = to,
                       !.completed_phases = IF from = to THEN @ ELSE @ \cup {from},
                       !.phase_history = @ \cup {from, to},
                       !.produced_outputs = by_phase[to],
                       !.next_phase = IF r.next = NoPhase THEN @ ELSE r.next]

\* The phases a report names, in its phase control or its updates.
Named(r) ==
    {r.current, r.next}
        \cup {r.updates[k] : k \in DOMAIN r.updates \cap {"current_phase", "next_phase"}}

\* A report goes beyond what its action entitles it to when its updates change outputs,
\* or contradict its phase control, or when it names replication or the final report
\* other than as what follows critique. No code looks for any of this.
Strays(r, transition) ==
    \/ {"produced_outputs", "by_phase"} \cap DOMAIN r.updates # {}
    \/ "current_phase" \in DOMAIN r.updates /\ r.updates.current_phase # PhaseAfter(r, transition)
    \/ /\ Named(r) \cap Promoted # {}
       /\ r.of \notin Promoted
       /\ ~(r.of = Critique /\ r.current = Critique /\ r.next \in Promoted)

\* One agent iteration, on the dispatched action itself, while it is open, or on
\* a continuation in the phase the mission has reached.
AgentIterate ==
    /\ pc = "execute"
    /\ Executor[work.phase] = "recursive-agent"
    /\ work.iterations < AgentSteps
    /\ \E r \in AgentReports, own \in BOOLEAN, transition \in BOOLEAN, s \in AgentResults :
         /\ r.of = IF own THEN work.phase ELSE disk.current_phase
         /\ own => disk.action[work.phase] \in {"pending", "in_progress", "deferred"}
         /\ disk' = [ApplyAgentResult(disk, IF own THEN disk.due[r.of] ELSE {}, r, transition)
                       EXCEPT !.action[work.phase] = IF own THEN s ELSE @]
         /\ work' = [work EXCEPT !.iterations = @ + 1, !.report = r]
         /\ strayed' = (strayed \/ Strays(r, transition))
    /\ UNCHANGED <<rs, request, branches, mem, rt, pc, resume, budget, launches, crashes, decisions>>

----------------------------------------------------------------------------
(* The executor returns or raises.                                         *)

\* Statuses each kind of executor returns.
Outcomes(kind) ==
    CASE kind = "recursive-agent"    -> {"completed", "blocked", "max-iterations"}
      [] kind = "self-healing-queue" -> {"completed", "blocked", "failed"}
      [] kind = "bounded"            -> {"completed", "blocked", "failed", "deferred"}
      [] kind = "none"               -> {}

ActionResult(s) ==
    CASE s = "completed" -> "completed"
      [] s \in {"blocked", "failed"} -> "blocked"
      [] s \in {"deferred", "max-iterations"} -> "deferred"

\* _resolved_executor_current_phase
PhaseReached(r, at) ==
    IF at # r.current /\ at \in {r.next, r.continues} THEN at
    ELSE IF r.next \notin {NoPhase, r.current} /\ r.continues = r.next THEN r.next
    ELSE r.current

\* The mission state reloaded after the executor returned, with the updates of the last
\* agent iteration once more, its phase control, the outputs and the action status.
ExecutorUpdates(m, w, s) ==
    LET p          == w.phase
        r          == w.report
        merged     == DeepMerge(m, r.updates)
        controlled == IF w.iterations = 0 THEN m
                      ELSE ApplyPhaseChange(merged, PhaseReached(r, merged.current_phase),
                                            IF r.next = NoPhase THEN merged.next_phase ELSE r.next)
        steered    == IF NextOnSuccess[p] # NoPhase /\ r.next = NoPhase
                      THEN [controlled EXCEPT !.next_phase = NextOnSuccess[p]]
                      ELSE controlled
    IN  [MergeOutputs(steered, p, m.due[p]) EXCEPT !.action[p] = ActionResult(s)]

\* A blocked recursive agent is retried; other failures stop the mission.
RuntimeAfter(kind, s) ==
    IF kind = "recursive-agent" /\ s = "blocked" THEN "running"
    ELSE IF s \in {"blocked", "failed", "max-iterations"} THEN s
    ELSE "running"

Settle(m, s) ==
    EndIteration(IF s = "running" THEN [m EXCEPT !.status = "running"] ELSE StopStatus(m, s), s)

\* A completed baseline queue calls the follow-up planner, once.
StagesFollowup(m, kind, s) ==
    /\ kind = "self-healing-queue"
    /\ s = "completed"
    /\ m.bootstrap \notin {"none", "followup-staged"}

\* Mutant: the result is applied to the state decided on, not to the file.
ReturnsToMemory(s) ==
    LET updated == ExecutorUpdates(mem, work, s)
    IN  /\ pc = "execute"
        /\ s \in Outcomes(Executor[work.phase])
        /\ ~StagesFollowup(updated, Executor[work.phase], s)
        /\ Settle(updated, RuntimeAfter(Executor[work.phase], s))
        /\ UNCHANGED <<files, steady, decisions>>

ExecutorReturns(s) ==
    LET kind    == Executor[work.phase]
        updated == ExecutorUpdates(disk, work, s)
    IN  /\ pc = "execute"
        /\ s \in Outcomes(kind)
        /\ kind = "recursive-agent" /\ s = "completed" => work.iterations > 0
        /\ ~StagesFollowup(updated, kind, s)
        /\ Settle(updated, RuntimeAfter(kind, s))
        /\ UNCHANGED <<files, steady, decisions>>

\* Mutant: the planner is called on the state the executor left.
CallPlannerUnsaved ==
    LET updated == ExecutorUpdates(disk, work, "completed")
    IN  /\ pc = "execute"
        /\ StagesFollowup(updated, Executor[work.phase], "completed")
        /\ mem' = updated
        /\ pc' = "planner"
        /\ UNCHANGED <<files, rt, resume, work, steady, decisions>>

\* The state is made durable before the user's planner is called.
CallPlanner ==
    LET updated == ExecutorUpdates(disk, work, "completed")
    IN  /\ pc = "execute"
        /\ StagesFollowup(updated, Executor[work.phase], "completed")
        /\ disk' = updated
        /\ mem' = updated
        /\ pc' = "planner"
        /\ UNCHANGED <<rs, request, branches, rt, resume, work, steady, decisions>>

PlannerStages ==
    /\ pc = "planner"
    /\ Settle([disk EXCEPT !.bootstrap = "followup-staged"], "running")
    /\ UNCHANGED <<files, steady, decisions>>

\* The pre-planner state is restored and the loop goes on without counting
\* an iteration or writing what it learned.
PlannerRaises ==
    /\ pc = "planner"
    /\ rt' = [rt EXCEPT !.status = "failed"]
    /\ pc' = "loop"
    /\ work' = NoWork
    /\ mem' = disk
    /\ UNCHANGED <<files, resume, steady, decisions>>

\* Mutant: an exception takes the phase from the file as well.
KeepOutputsOnly(m, d) ==
    [m EXCEPT !.produced_outputs = IF @ = {} THEN d.produced_outputs ELSE @,
              !.by_phase = IF m.recorded = {} THEN d.by_phase ELSE @,
              !.recorded = IF @ = {} THEN d.recorded ELSE @,
              !.current_phase = d.current_phase, !.next_phase = d.next_phase]

\* An exception keeps the state in memory and takes from the file only the
\* keys that are empty there.
KeepInMemory(m, d) ==
    [m EXCEPT !.produced_outputs = IF @ = {} THEN d.produced_outputs ELSE @,
              !.by_phase = IF m.recorded = {} THEN d.by_phase ELSE @,
              !.recorded = IF @ = {} THEN d.recorded ELSE @,
              !.completed_phases = IF @ = {} THEN d.completed_phases ELSE @,
              !.phase_history = IF @ = {} THEN d.phase_history ELSE @]

ExecutorRaises ==
    /\ pc = "execute"
    /\ MayRaise
    /\ Settle([KeepInMemory(mem, disk) EXCEPT !.action[work.phase] = "blocked"], "failed")
    /\ UNCHANGED <<files, steady, decisions>>

----------------------------------------------------------------------------
(* Ending a pass.                                                          *)

NextIteration ==
    /\ pc = "check"
    /\ pc' = IF rt.status \in Terminal THEN "idle" ELSE "loop"
    /\ UNCHANGED <<files, mem, rt, resume, work, steady, decisions>>

\* Mutant: stop conditions are evaluated for a pass that has ended as well.
StopConditionAlways ==
    /\ pc = "check"
    /\ mem' = StopStatus(mem, "max-iterations")
    /\ rt' = [rt EXCEPT !.status = "max-iterations"]
    /\ BeginWrite("end")
    /\ UNCHANGED <<files, work, steady, decisions>>

\* A composable stop condition holds after the iteration was written.
StopCondition ==
    /\ pc = "check"
    /\ rt.status \notin Terminal
    /\ mem' = StopStatus(mem, "max-iterations")
    /\ rt' = [rt EXCEPT !.status = "max-iterations"]
    /\ BeginWrite("end")
    /\ UNCHANGED <<files, work, steady, decisions>>

AtLimit == pc = "loop" /\ rt.iterations >= budget

\* Mutant: the limit is noticed one iteration late.
StopPastLimit ==
    /\ pc = "loop" /\ rt.iterations > budget
    /\ rt.status = "running"
    /\ mem' = StopStatus(disk, "max-iterations")
    /\ rt' = [rt EXCEPT !.status = "max-iterations"]
    /\ BeginWrite("end")
    /\ UNCHANGED <<files, work, steady, decisions>>

StopAtLimit ==
    /\ AtLimit
    /\ rt.status = "running"
    /\ mem' = StopStatus(disk, "max-iterations")
    /\ rt' = [rt EXCEPT !.status = "max-iterations"]
    /\ BeginWrite("end")
    /\ UNCHANGED <<files, work, steady, decisions>>

ReturnAtLimit ==
    /\ AtLimit
    /\ rt.status # "running"
    /\ pc' = "idle"
    /\ UNCHANGED <<files, mem, rt, resume, work, steady, decisions>>

----------------------------------------------------------------------------
(* The environment.                                                        *)

\* The process dies; what it held in memory is gone.
Crash ==
    /\ pc \notin Stopped
    /\ crashes < MaxCrashes
    /\ crashes' = crashes + 1
    /\ pc' = "down"
    /\ mem' = disk
    /\ rt' = rs
    /\ resume' = "check"
    /\ work' = NoWork
    /\ UNCHANGED <<files, budget, launches, decisions, strayed>>

\* The operator edits the stopped mission: criteria met, replication waived.
OperatorFix ==
    /\ pc \in Stopped
    /\ disk.status # "completed"
    /\ ~(disk.accepted /\ disk.waived)
    /\ disk' = [disk EXCEPT !.accepted = TRUE, !.waived = TRUE]
    /\ mem' = disk'
    /\ UNCHANGED <<rs, request, branches, rt, pc, resume, work, steady, decisions>>

----------------------------------------------------------------------------
Write == WriteInbox \/ WriteMission \/ WriteRuntime

Decide ==
    \/ DecideComplete
    \/ DecideBlock
    \/ DecideTransition
    \/ DecideDispatch
    \/ DecideNoExecutor

Execute ==
    \/ AgentIterate
    \/ \E s \in {"completed", "blocked", "failed", "deferred", "max-iterations"} : ExecutorReturns(s)
    \/ ExecutorRaises
    \/ CallPlanner
    \/ PlannerStages
    \/ PlannerRaises

EndPass == NextIteration \/ StopCondition \/ StopAtLimit \/ ReturnAtLimit

\* Everything the running pass does by itself.
PassStep == Write \/ Decide \/ Execute \/ EndPass

Start == \E b \in Budgets : LaunchPass(b) \/ LaunchCompleted(b)

Next == PassStep \/ Start \/ Crash \/ OperatorFix

Spec == Init /\ [][Next]_vars
FairSpec == Spec /\ WF_vars(PassStep)
----------------------------------------------------------------------------
(* Invariants.                                                             *)

\* Every variable holds a value of its type, whatever was lost in a crash.
TypeOK ==
    /\ disk \in MissionStates /\ mem \in MissionStates
    /\ rs \in RuntimeStates /\ rt \in RuntimeStates
    /\ request \in BOOLEAN
    /\ branches \subseteq Branches
    /\ pc \in Stopped \cup Writing \cup {"loop", "execute", "planner", "check"}
    /\ resume \in {"check", "execute", "end"}
    /\ work \in [phase : Phase, iterations : Nat, report : AgentReports \cup {NoReport}]
    /\ budget \in Nat /\ launches \in Nat /\ crashes \in Nat /\ decisions \in Nat
    /\ strayed \in BOOLEAN

\* What completing a mission requires of its state.
Justified(m) ==
    /\ Evidence(m)
    /\ m.current_phase = FinalReport
    /\ MissingOutputs(m) = {}

\* A mission state marked completed satisfies the completion contract: every
\* piece of evidence the engine checked is in the file that says "completed".
CompletionNeedsEvidence ==
    disk.status = "completed" => Justified(disk)

\* The mission file is written before the runtime file: a crash between the two
\* leaves the mission file one iteration ahead, never more and never behind.
MissionFileLeads ==
    disk.runtime.iterations \in {rs.iterations, rs.iterations + 1}

\* When a pass has decided something or found the mission completed, and has
\* returned, the four places that tell an operator how it ended (runtime file,
\* its copy in the mission file, mission status, operator request) say the same
\* thing, whatever crashed before that pass.
CleanEndAgrees ==
    pc = "idle" /\ (decisions > 0 \/ disk.status = "completed") =>
        /\ rs = disk.runtime
        /\ request <=> rs.status \in {"blocked", "failed"}
        /\ request <=> disk.operator_inbox = "open"
        /\ \A s \in {"completed", "blocked", "failed"} : rs.status = s <=> disk.status = s
        /\ rs.status = "max-iterations" <=> disk.status = "paused"

\* An executor starts only after the mission file says so: a crash while it
\* runs leaves its action in_progress and the queue baseline marked running.
IntentIsDurable ==
    pc = "execute" /\ work.iterations = 0 =>
        /\ disk.current_phase = work.phase
        /\ disk.action[work.phase] = "in_progress"
        /\ Executor[work.phase] = "self-healing-queue" => disk.bootstrap # "pending"

\* The two records of the current phase's outputs agree, whichever of the two
\* writers, agent or outer loop, wrote last, as long as no agent's updates contradict
\* its phase control or name outputs; the outer loop merges such updates once more,
\* over the phase and the outputs its agent runtime had settled on.
CurrentOutputsAgree == strayed \/ disk.produced_outputs = disk.by_phase[disk.current_phase]

\* Critique's outputs are on record.
Grounded(m) == Required[Critique] \subseteq m.by_phase[Critique]

\* A mission is promoted, or named for promotion, on critique's outputs only.
PromotedOnGrounds(m) ==
    m.current_phase \in Promoted \/ m.next_phase \in Promoted => Grounded(m)

\* An executor that raises can take outputs an agent wrote from the file, but never
\* critique's from a mission it leaves in replication or the final report, or bound
\* for them; until an agent names these phases without having worked on critique.
PromotionIsGrounded == strayed \/ PromotedOnGrounds(disk)

\* The iteration limit bounds the decisions of a pass, though a planner that raises
\* leaves its decision uncounted: at most three uncounted ones, each a baseline queue
\* run again, come before a counted one.
DecisionsAreBounded == decisions <= 4 * budget

\* The part of a mission state that records what the mission did.
Research(m) == <<m.status, m.current_phase, m.produced_outputs, m.by_phase, m.completed_phases>>

\* A completed state in memory is justified, and is on its way to the file with
\* a runtime state that stops the loop.
CompletionOnItsWay ==
    mem.status = "completed" =>
        /\ Justified(mem)
        /\ pc \in Writing \cup {"check"} => rt.status = "completed"
        /\ pc \in Writing => resume # "execute"

\* No pass works on a completed mission file; one that rewrites it changes
\* nothing of what the mission did.
CompletedIsLeftAlone ==
    disk.status = "completed" =>
        /\ pc \notin {"loop", "execute", "planner"}
        /\ pc \in Writing => Research(mem) = Research(disk)

\* Between the two file writes, and right after them, file and memory agree.
WrittenAgrees ==
    /\ pc \in {"runtime", "check"} => disk = mem
    /\ pc \in {"state", "runtime"} => mem.runtime = rt

\* The running pass is at most one iteration ahead of the runtime file, and
\* only while it is writing.
CounterLeads ==
    /\ rt.iterations \in {rs.iterations, rs.iterations + 1}
    /\ pc \notin Writing => rt.iterations = rs.iterations

\* The inductive invariant behind CompletionNeedsEvidence, MissionFileLeads and
\* CompletionIsFinal: what they say of the files, and what must hold of the pass
\* that is about to write them.
IInv ==
    /\ TypeOK
    /\ CompletionNeedsEvidence
    /\ CompletionOnItsWay
    /\ CompletedIsLeftAlone
    /\ WrittenAgrees
    /\ CounterLeads
    /\ MissionFileLeads

----------------------------------------------------------------------------
(* Action properties.                                                      *)

\* The final report is entered, by an agent or by the outer loop, only while
\* the critique's outputs are on record, until a report strays.
NoReportWithoutCritique ==
    [][(disk'.current_phase = FinalReport /\ disk.current_phase # FinalReport) =>
          strayed' \/ PhaseEvidence(disk', Critique)]_vars

\* Completion is final: no later pass, crash or stale writer changes what a
\* completed mission recorded.
CompletionIsFinal ==
    [][disk.status = "completed" => Research(disk') = Research(disk)]_vars

\* An output on record leaves it only when its phase is entered again, until a report
\* strays: the outer loop never overwrites what an agent wrote while it waited.
NoLostOutputs ==
    [][\A p \in Phase :
         strayed' \/ disk.by_phase[p] \subseteq disk'.by_phase[p]
         \/ /\ p \in disk.phase_history
            /\ disk.current_phase # p /\ disk'.current_phase = p]_vars

\* The two files implement MissionLifecycle: whatever a reader finds after a crash, a
\* raise or a relaunch is a state of a mission whose counter moves by one, whose
\* completion has grounds and whose statuses agree when a pass says how it stands.
Life == INSTANCE MissionLifecycle WITH
    status    <- disk.status,
    grounds   <- Justified(disk),
    saved     <- disk.runtime,
    committed <- rs
FilesFollowLifecycle == Life!Spec

----------------------------------------------------------------------------
(* Liveness.                                                               *)

\* A pass ends: it returns, unless the process dies.
PassEnds == (pc \notin Stopped) ~> (pc \in Stopped)

----------------------------------------------------------------------------
(* What the documentation, tests and help texts say.                       *)

\* docs/guide/operator.md: resume continues after a completed operator fix. At
\* the final report, with every evidence clause satisfied, a decision completes.
FixUnblocksReport ==
    [][(/\ decisions' = decisions + 1
        /\ disk.current_phase = FinalReport
        /\ ~SelectsWork(disk, branches)
        /\ Evidence(disk)) => rt'.status = "completed"]_vars
=============================================================================
