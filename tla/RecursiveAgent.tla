--------------------------- MODULE RecursiveAgent ---------------------------
(***************************************************************************)
(* The recursive agent loop (recursive_agent_runtime.py), which the outer  *)
(* loop calls to run the action of the current phase. An iteration picks a *)
(* task, runs an agent process on it, reads the result file the agent      *)
(* wrote, and saves first the loop's own state, then the mission state.    *)
(*                                                                         *)
(* The loop has one name and one state file per mission: its count of      *)
(* iterations, its cursor in the mission's list of actions and its pending *)
(* task outlive a dispatch, a crash and a change of phase. Of the outer    *)
(* loop, only what it does to the list and to the phase between two        *)
(* dispatches is here. Names begin with Agent where another component has  *)
(* the same.                                                               *)
(***************************************************************************)
EXTENDS Naturals, Sequences

CONSTANTS
    AgentPhases,     \* phases of the mission; each has one action, named by it
    FirstPhase,      \* the phase a mission starts in
    LastPhase,       \* "execution", which the loop does not start late
    Nobody, Hold,    \* a result that hands on nothing, or the same task again
    MaxIterations,   \* max_iterations of the profile
    MaxFailures,     \* max_consecutive_failures of the profile
    MaxRetries,      \* max_retries of the policy
    Payloads,        \* bound: what agents write, a subset of Payload
    MaxDispatches,   \* bound: calls of the loop
    MaxAgentTroubles \* bound: deaths of the process that runs both loops

\* A result file: its status, the status of action_result, the phase its
\* continuation is for, and whether phase_control names that phase too.
\* "malformed" fails validation; what it says of the action is used all the same.
Payload == [says : {"continue", "complete", "blocked", "failed", "malformed"},
            result : {"completed", "in_progress", "blocked"},
            to : AgentPhases \cup {Nobody, Hold}, moves : BOOLEAN]
NoPayload == [says |-> "malformed", result |-> "in_progress", to |-> Nobody, moves |-> FALSE]
Nothing == [NoPayload EXCEPT !.says = "nothing"]  \* no iteration in this dispatch yet
NothingToDo == [NoPayload EXCEPT !.says = "blocked", !.result = "blocked"]

ASSUME AgentAssumption ==
    /\ FirstPhase \in AgentPhases /\ LastPhase \in AgentPhases
    /\ Nobody \notin AgentPhases /\ Hold \notin AgentPhases /\ Nobody # Hold
    \* These mark a task that is no action of the list.
    /\ AgentPhases \cap {"hand-off", "initial", "none"} = {}
    /\ MaxIterations \in Nat \ {0} /\ MaxFailures \in Nat \ {0} /\ MaxRetries \in Nat
    /\ Payloads \subseteq Payload
    /\ MaxDispatches \in Nat /\ MaxAgentTroubles \in Nat

\* A task: an action of the mission, a hand-off of an agent, or the mission's
\* objective. A hand-off may name an action of the mission; "listed" marks one
\* taken from the list itself, and "index" where in it, in this iteration.
Task == [phase : AgentPhases, id : AgentPhases \cup {"hand-off", "initial", "none"},
         listed : BOOLEAN, index : Nat]
NoTask == [phase |-> FirstPhase, id |-> "none", listed |-> FALSE, index |-> 0]
Counted == AgentPhases \cup {"hand-off", "initial"}

ActionState == {"in_progress", "deferred", "completed", "blocked"}
Skipped == {"completed", "blocked"}

VARIABLES
    loopFile,  \* agent_loop_state.json
    loop,      \* the loop's copy of it
    mission,   \* mission state on disk: its phase and list of actions
    seen,      \* the loop's copy of it
    results,   \* result files of the next iteration, one per role, and who wrote them
    strays,    \* agents of a dead runtime that may still write one of these
    task,      \* what this iteration works on
    tries,     \* its agent processes so far
    exited,    \* whether the last one exited with 0
    latest,    \* latest_outcome of this dispatch, or Nothing
    stop,      \* why the loop is to return: "" while it goes on
    left,      \* rounds the for loop of this dispatch has left
    apc,       \* "idle", "select", "run", "judge", "saveLoop", "saveMission", "return"
    given,     \* what the last dispatch was for and started from
    returned,  \* executor status of the last dispatch: "raised", "died", "" while it runs
    rounds,    \* history: iterations whose agent was judged
    uncounted, \* history: iterations that ended without being saved
    streak,    \* history: per action, failed iterations in a row
    excused,   \* history: actions dispatched again, left open by an agent, or lost
    dispatches, agentTroubles

loopFiles == <<loopFile, results, strays>>
inMemory == <<loop, seen, latest, stop, left>>
inHand == <<task, tries, exited>>
agentHistory == <<rounds, uncounted, streak, excused>>
agentBounds == <<dispatches, agentTroubles>>
agentVars == <<loopFile, loop, mission, seen, results, strays, task, tries, exited,
               latest, stop, left, apc, given, returned, rounds, uncounted, streak,
               excused, dispatches, agentTroubles>>

Fresh == [used |-> 0, cursor |-> 1, pending |-> NoTask, initialDone |-> FALSE,
          counts |-> [t \in Counted |-> 0]]
NoResult == [is |-> NoPayload, by |-> "nobody"]
\* A result file is iteration-<n>-<role>/agent_result.json: once the number is
\* saved nobody reads the files of that iteration again. A phase has one role.
NoResults == [p \in AgentPhases |-> NoResult]

AgentInit ==
    /\ loopFile = Fresh /\ loop = Fresh
    /\ mission = [phase |-> FirstPhase, actions |-> <<>>]
    /\ seen = mission
    /\ results = NoResults
    /\ strays = {}
    /\ task = NoTask /\ tries = 0 /\ exited = FALSE
    /\ latest = Nothing /\ stop = "" /\ left = 0
    /\ apc = "idle" /\ returned = ""
    /\ given = [phase |-> FirstPhase, left |-> 0, first |-> FALSE, served |-> FALSE]
    /\ rounds = 0 /\ uncounted = 0
    /\ streak = [p \in AgentPhases |-> 0] /\ excused = {}
    /\ dispatches = 0 /\ agentTroubles = 0

----------------------------------------------------------------------------
(* A dispatch, and the choice of a task.                                   *)

\* Where phase p's action is in the list, 0 if it is not.
At(actions, p) ==
    IF \E i \in DOMAIN actions : actions[i].phase = p
      THEN CHOOSE i \in DOMAIN actions : actions[i].phase = p
      ELSE 0

\* _upsert_selected_action: the action is updated in place or appended.
Upsert(actions, p, status) ==
    LET item == [phase |-> p, status |-> status]
    IN  IF At(actions, p) = 0 THEN Append(actions, item)
        ELSE [actions EXCEPT ![At(actions, p)] = item]

\* _select_next_action: the first open action at or after the cursor, and the
\* cursor it leaves.
OpenFrom(actions, c) == {i \in c..Len(actions) : actions[i].status \notin Skipped}
Chosen(actions, c) ==
    IF OpenFrom(actions, c) = {} THEN 0
    ELSE CHOOSE i \in OpenFrom(actions, c) : \A k \in OpenFrom(actions, c) : i <= k
CursorAfter(actions, c) ==
    IF OpenFrom(actions, c) # {} THEN Chosen(actions, c)
    ELSE IF c > Len(actions) THEN c ELSE Len(actions) + 1

\* The outer loop has moved the mission to p, perhaps back to an earlier phase,
\* and calls the loop for p's action; the loop goes on from what it saved.
Call(p, l) ==
    /\ apc = "idle" /\ dispatches < MaxDispatches
    /\ dispatches' = dispatches + 1
    /\ mission' = [mission EXCEPT !.phase = p,
                                  !.actions = Upsert(mission.actions, p, "in_progress")]
    /\ seen' = mission'
    /\ loop' = l
    /\ left' = MaxIterations - l.used
    /\ task' = NoTask /\ tries' = 0 /\ exited' = FALSE
    /\ latest' = Nothing /\ stop' = ""
    /\ given' = [phase |-> p, left |-> left', served |-> FALSE,
                 first |-> Chosen(mission'.actions, loopFile.cursor) = At(mission'.actions, p)]
    /\ returned' = ""
    /\ excused' = IF At(mission.actions, p) = 0 THEN excused ELSE excused \cup {p}
    /\ apc' = "select"
    /\ UNCHANGED <<loopFiles, rounds, uncounted, streak, agentTroubles>>

Dispatch(p) == Call(p, loopFile)

\* Mutant: a pending task goes before the action of the list.
KeepsPendingFirst ==
    loop.pending # NoTask /\ loop.pending.phase = mission.phase

\* A pending task is dropped when the mission has left its phase, and when the
\* list has an open action of the current phase which it is not.
KeepsPending ==
    LET i == Chosen(mission.actions, loop.cursor)
    IN  /\ loop.pending # NoTask
        /\ loop.pending.phase = mission.phase
        /\ i # 0 /\ mission.actions[i].phase = mission.phase
             => loop.pending.listed /\ loop.pending.id = mission.phase

\* The failures of a dropped task are forgotten with it.
DropPending(l) ==
    IF l.pending = NoTask THEN l
    ELSE [l EXCEPT !.pending = NoTask, !.counts[l.pending.id] = 0]

Select(t, l, m) ==
    /\ apc = "select" /\ left > 0
    /\ left' = left - 1
    /\ seen' = m
    /\ task' = t
    /\ loop' = l
    /\ streak' = IF ~KeepsPending /\ loop.pending.id \in AgentPhases
                   THEN [streak EXCEPT ![loop.pending.id] = 0]
                   ELSE streak
    /\ UNCHANGED <<rounds, uncounted, excused>>

SelectTask(t, l) == Select(t, l, mission)

StartIteration ==
    /\ tries' = 0 /\ exited' = FALSE
    /\ given' = [given EXCEPT !.served = @ \/ task'.id = given.phase]
    /\ results' = [p \in AgentPhases |->
                     IF results[p].by = "this" THEN [results[p] EXCEPT !.by = "earlier"]
                     ELSE results[p]]
    /\ apc' = "run"
    /\ UNCHANGED <<loopFile, mission, strays, latest, stop, returned, agentBounds>>

TakePending ==
    /\ KeepsPending
    /\ SelectTask([loop.pending EXCEPT !.index = 0], loop)
    /\ StartIteration

TakeListed ==
    /\ ~KeepsPending
    /\ LET i == Chosen(mission.actions, loop.cursor)
       IN  /\ i # 0
           /\ SelectTask([phase |-> mission.actions[i].phase, id |-> mission.actions[i].phase,
                          listed |-> TRUE, index |-> i],
                         [DropPending(loop) EXCEPT !.cursor = i])
    /\ StartIteration

NoneListed == ~KeepsPending /\ Chosen(mission.actions, loop.cursor) = 0
PastTheList == [DropPending(loop) EXCEPT !.cursor = CursorAfter(mission.actions, loop.cursor)]

\* The objective of the mission is a task once.
TakeInitial ==
    /\ NoneListed /\ ~loop.initialDone
    /\ SelectTask([NoTask EXCEPT !.phase = mission.phase, !.id = "initial"],
                  [PastTheList EXCEPT !.initialDone = TRUE])
    /\ StartIteration

FindNothing ==
    /\ NoneListed /\ loop.initialDone
    /\ SelectTask([NoTask EXCEPT !.phase = mission.phase], PastTheList)
    /\ latest' = NothingToDo
    /\ stop' = "blocked"
    /\ apc' = "saveLoop"
    /\ UNCHANGED <<loopFiles, mission, tries, exited, given, returned, agentBounds>>

\* The for loop is used up, possibly before its first round.
ExhaustBudget ==
    /\ apc = "select" /\ left = 0
    /\ stop' = "max-iterations"
    /\ apc' = "saveLoop"
    /\ UNCHANGED <<loopFiles, loop, mission, seen, inHand, latest, left, given, returned,
                   agentHistory, agentBounds>>

----------------------------------------------------------------------------
(* The agent process, and what is made of its result.                      *)

\* A process ends, by itself or at its time limit, having written a result file
\* or not. It is started again unless it exited with 0.
AgentExits ==
    /\ apc = "run"
    /\ exited' \in BOOLEAN
    /\ tries' = tries + 1
    /\ \/ UNCHANGED results
       \/ \E o \in Payloads : results' = [results EXCEPT ![task.phase] = [is |-> o, by |-> "this"]]
    /\ apc' = IF exited' \/ tries = MaxRetries THEN "judge" ELSE "run"
    /\ UNCHANGED <<loopFile, loop, mission, seen, strays, task, latest, stop, left, given,
                   returned, agentHistory, agentBounds>>

\* The last process runs into its time limit having printed something: the
\* captured output is bytes, and appending text to it raises.
AgentTimesOut ==
    /\ apc = "run" /\ tries = MaxRetries
    /\ stop' = "raised"
    /\ uncounted' = uncounted + 1
    /\ apc' = "return"
    /\ UNCHANGED <<loopFiles, loop, mission, seen, inHand, latest, left, given, returned,
                   rounds, streak, excused, agentBounds>>

\* What the iteration counts as. A result file is used whatever wrote it, and
\* whether or not the last process exited with 0.
Result == IF results[task.phase].by = "nobody" THEN NoPayload ELSE results[task.phase].is
IterationStatus ==
    LET says == Result.says
    IN  IF exited /\ says # "malformed" THEN says ELSE "failed"
Fails == IterationStatus \in {"failed", "blocked"}

\* The result is written back normalised.
WriteBack ==
    results' = [results EXCEPT ![task.phase] =
                 [is |-> [Result EXCEPT !.says = IF @ = "malformed" THEN "failed" ELSE @],
                  by |-> IF @.by = "nobody" THEN "this" ELSE @.by]]

Count(n) == [loop EXCEPT !.used = @ + 1, !.counts[task.id] = n]

JudgeAs(l, s) ==
    /\ WriteBack
    /\ loop' = l /\ stop' = s
    /\ latest' = Result
    /\ rounds' = rounds + 1
    /\ apc' = "saveLoop"
    /\ UNCHANGED <<loopFile, mission, seen, strays, inHand, left, given, returned,
                   uncounted, agentBounds>>

Streak(n) ==
    streak' = IF task.id \in AgentPhases THEN [streak EXCEPT ![task.id] = n] ELSE streak

\* Mutant: one failure more than allowed.
TripsLate == IterationStatus = "blocked" \/ loop.counts[task.id] + 1 > MaxFailures

Trips == IterationStatus = "blocked" \/ loop.counts[task.id] + 1 >= MaxFailures

\* A failed task stays pending, also when the loop gives up on it for now.
Fail ==
    /\ apc = "judge" /\ Fails
    /\ JudgeAs([Count(IF Trips THEN 0 ELSE loop.counts[task.id] + 1) EXCEPT
                !.pending = [task EXCEPT !.index = 0]],
               IF Trips THEN "blocked" ELSE "")
    /\ IF Trips THEN Streak(0)
       ELSE IF task.id \in AgentPhases THEN Streak(streak[task.id] + 1) ELSE UNCHANGED streak
    /\ UNCHANGED excused

Succeeds(l, s) ==
    /\ JudgeAs(l, s)
    /\ Streak(0)

\* The agent parks the task: the outer loop is to decide again.
Yield ==
    /\ apc = "judge" /\ ~Fails
    /\ Result.to = Hold
    /\ Succeeds([Count(0) EXCEPT !.pending = NoTask], "max-iterations")
    /\ UNCHANGED excused

\* The agent hands on a task of its own, or one the mission lists.
HandsOnTo(t) ==
    /\ Result.to = t.phase
    /\ t.index = 0 /\ ~t.listed
    /\ \/ t.id = "hand-off"
       \/ t.id = t.phase /\ At(seen.actions, t.phase) # 0

\* Execution is left to a later dispatch when at most one iteration remains.
TooLate(t) ==
    /\ MaxIterations - (loop.used + 1) <= 1
    /\ t.phase = LastPhase /\ task.phase # LastPhase

AfterHandOff(t) ==
    IF TooLate(t) THEN "max-iterations"
    ELSE IF IterationStatus = "complete" THEN "completed" ELSE ""

HandOnFrom(t, c) ==
    /\ apc = "judge" /\ ~Fails
    /\ HandsOnTo(t)
    /\ Succeeds([Count(0) EXCEPT !.pending = t, !.cursor = c, !.counts["hand-off"] = 0],
                AfterHandOff(t))
    /\ excused' = IF t.id \in AgentPhases THEN excused \cup {t.id} ELSE excused

\* A new hand-off starts without failures; the cursor stays.
HandOn(t) == HandOnFrom(t, loop.cursor)

\* The cursor passes an action of the list, whatever the result says of it.
FinishTask ==
    /\ apc = "judge" /\ ~Fails
    /\ Result.to = Nobody
    /\ Succeeds([Count(0) EXCEPT !.pending = NoTask,
                                 !.cursor = IF task.index # 0 THEN task.index + 1 ELSE @],
                IF IterationStatus = "complete" THEN "completed" ELSE "")
    /\ excused' = IF Result.result = "in_progress" THEN excused \cup {task.phase}
                  ELSE excused

----------------------------------------------------------------------------
(* Saving, and the return to the outer loop.                               *)

\* Mutant: the next iteration works in the same directories.
SaveLoopOnly ==
    /\ apc = "saveLoop"
    /\ loopFile' = loop
    /\ apc' = "saveMission"
    /\ UNCHANGED <<results, strays, loop, mission, seen, inHand, latest, stop, left, given,
                   returned, agentHistory, agentBounds>>

SaveLoop ==
    /\ apc = "saveLoop"
    /\ loopFile' = loop
    /\ results' = NoResults /\ strays' = {}
    /\ apc' = "saveMission"
    /\ UNCHANGED <<loop, mission, seen, inHand, latest, stop, left, given,
                   returned, agentHistory, agentBounds>>

\* _effective_outcome.
Effective == IF stop = "blocked" /\ latest.result = "in_progress" THEN "blocked" ELSE latest.result

\* _resolve_transitioned_current_phase: without a transition, the phase of the task.
PhaseAfter ==
    IF latest.to \in AgentPhases /\ latest.moves THEN latest.to ELSE task.phase

\* _apply_result_to_mission, on the copy read when the iteration began.
Applied ==
    IF latest = Nothing THEN seen
    ELSE [seen EXCEPT !.phase = PhaseAfter,
                      !.actions = IF At(@, task.id) = 0 THEN @
                                  ELSE [@ EXCEPT ![At(@, task.id)].status = Effective]]

SaveMission ==
    /\ apc = "saveMission"
    /\ mission' = Applied /\ seen' = Applied
    /\ apc' = IF stop = "" THEN "select" ELSE "return"
    /\ UNCHANGED <<loopFiles, loop, inHand, latest, stop, left, given, returned, agentHistory, agentBounds>>

\* What the loop held in memory is gone.
Forget(m) ==
    /\ loop' = loopFile /\ seen' = m
    /\ task' = NoTask /\ tries' = 0 /\ exited' = FALSE
    /\ latest' = Nothing /\ stop' = "" /\ left' = 0
    /\ apc' = "idle"

\* _recursive_agent_executor_status.
ExecutorStatus ==
    IF stop = "max-iterations" /\ latest # Nothing /\ latest.result = "completed" THEN "completed"
    ELSE stop

\* What the outer loop makes of it for the action it dispatched.
Settled(status) ==
    CASE status = "completed" -> "completed"
      [] status \in {"blocked", "raised"} -> "blocked"
      [] status = "max-iterations" -> "deferred"

ReturnToOuter ==
    /\ apc = "return"
    /\ returned' = ExecutorStatus
    /\ mission' = [mission EXCEPT !.actions = Upsert(@, given.phase, Settled(ExecutorStatus))]
    /\ excused' = IF ExecutorStatus = "max-iterations" THEN excused \cup {given.phase} ELSE excused
    /\ Forget(mission')
    /\ UNCHANGED <<loopFiles, given, rounds, uncounted, streak, agentBounds>>

----------------------------------------------------------------------------
(* The environment.                                                        *)

\* The process of both loops dies; an agent it was running goes on by itself.
AgentCrash ==
    /\ apc # "idle" /\ agentTroubles < MaxAgentTroubles
    /\ agentTroubles' = agentTroubles + 1
    /\ strays' = IF apc = "run" THEN strays \cup {task.phase} ELSE strays
    /\ uncounted' = IF apc \in {"run", "judge", "saveLoop"} THEN uncounted + 1 ELSE uncounted
    /\ excused' = IF apc = "saveMission" THEN excused \cup {task.phase} ELSE excused
    /\ returned' = "died"
    /\ Forget(mission)
    /\ UNCHANGED <<loopFile, results, mission, given, rounds, streak, dispatches>>

\* It may write its result later, perhaps while another works on the same task.
StrayWrites(p) ==
    /\ p \in strays
    /\ strays' = strays \ {p}
    /\ \E o \in Payloads : results' = [results EXCEPT ![p] = [is |-> o, by |-> "earlier"]]
    /\ UNCHANGED <<loopFile, inMemory, mission, inHand, apc, given, returned, agentHistory, agentBounds>>

HandOffs == [phase : AgentPhases, id : AgentPhases \cup {"hand-off"}, listed : {FALSE}, index : {0}]

AgentStep ==
    \/ TakePending \/ TakeListed \/ TakeInitial \/ FindNothing \/ ExhaustBudget
    \/ AgentExits \/ AgentTimesOut
    \/ Fail \/ Yield \/ (\E t \in HandOffs : HandOn(t)) \/ FinishTask
    \/ SaveLoop \/ SaveMission \/ ReturnToOuter

AgentNext ==
    \/ \E p \in AgentPhases : Dispatch(p)
    \/ AgentStep
    \/ AgentCrash
    \/ \E p \in AgentPhases : StrayWrites(p)

AgentSpec == AgentInit /\ [][AgentNext]_agentVars
AgentFairSpec == AgentSpec /\ WF_agentVars(AgentStep)

----------------------------------------------------------------------------
(* Properties.                                                             *)

AgentLoop == [used : 0..MaxIterations, cursor : Nat \ {0}, pending : Task,
              initialDone : BOOLEAN, counts : [Counted -> Nat]]
Mission == [phase : AgentPhases, actions : Seq([phase : AgentPhases, status : ActionState])]
Outcome == Payload \cup {Nothing, NothingToDo}

\* Every variable holds a value of its type; the iterations saved stay within
\* max_iterations.
AgentTypeOK ==
    /\ loopFile \in AgentLoop /\ loop \in AgentLoop
    /\ mission \in Mission /\ seen \in Mission
    /\ results \in [AgentPhases -> [is : Payload, by : {"nobody", "earlier", "this"}]]
    /\ strays \in SUBSET AgentPhases
    /\ task \in Task /\ tries \in 0..(MaxRetries + 1) /\ exited \in BOOLEAN
    /\ latest \in Outcome
    /\ stop \in {"", "completed", "blocked", "max-iterations", "raised"}
    /\ left \in 0..MaxIterations
    /\ apc \in {"idle", "select", "run", "judge", "saveLoop", "saveMission", "return"}
    /\ given \in [phase : AgentPhases, left : 0..MaxIterations, first : BOOLEAN, served : BOOLEAN]
    /\ returned \in {"", "completed", "blocked", "max-iterations", "raised", "died"}
    /\ rounds \in Nat /\ uncounted \in Nat
    /\ streak \in [AgentPhases -> Nat]
    /\ excused \in SUBSET AgentPhases
    /\ dispatches \in Nat /\ agentTroubles \in Nat

\* max_iterations bounds the agents run for a mission over all its dispatches and
\* restarts: only an iteration that ends in a crash or an exception is not counted. And
\* no action of the mission fails more than max_consecutive_failures times in a row
\* without the loop returning "blocked", also over several dispatches, unless it was
\* dropped for another one in between.
AgentIsBounded ==
    /\ rounds <= MaxIterations + uncounted
    /\ \A p \in AgentPhases : streak[p] < MaxFailures + uncounted

\* The cursor is past an action that is still open only if the action was opened
\* again (by a dispatch, by a hand-off, or by a return with "max-iterations"), if
\* its agent left it open, or if a crash fell between the two saves. Such an
\* action is not run any more. And a dispatch works on the action it was made for,
\* whatever an earlier dispatch left pending, if that action is the first open one past
\* the saved cursor and an iteration is left. Otherwise it may return without having
\* run it.
ActionsAreServed ==
    /\ apc # "saveMission" =>
         \A i \in DOMAIN mission.actions :
           i < loopFile.cursor /\ mission.actions[i].status \notin Skipped =>
             mission.actions[i].phase \in excused
    /\ apc = "return" /\ given.first /\ given.left > 0 => given.served

\* A result that counts as a success was written in the same iteration, perhaps
\* by an earlier try of it: a file that was there before is accepted only after a
\* crash or an exception made the iteration number be used again.
FreshResult ==
    [][rounds' # rounds /\ exited /\ latest'.says \in {"continue", "complete"} =>
         results'[task.phase].by = "this" \/ uncounted > 0]_agentVars
=============================================================================
