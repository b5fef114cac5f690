# DeepLoop in TLA+

DeepLoop runs research missions: a deterministic outer loop reads a mission's
state file, lets a decision engine choose what to do, hands work to an executor
(a recursive agent, a queue of jobs, a training or report stage), records the
outcome and goes on until the mission completes, blocks, fails or reaches its
limit. Around it, commands, a project runner and a scheduler start such passes;
below it, kernels, sweeps and gates turn jobs into results that are judged,
remembered, packaged and released. This directory models these parts and says
what holds of them.

Paths below are relative to the repository's package `src/deeploop`; MR is
`mission/mission_runtime.py`, DE `mission/mission_decision_engine.py`, RP
`mission/_runtime_persistence.py`, RA `runtime/recursive_agent_runtime.py`.

Contents: [1 Inventory](#1-inventory), [2 Modules](#2-modules),
[3 Abstractions](#3-what-is-abstracted), [4 Runs](#4-runs),
[5 Theorems](#5-theorems), [6 Not modelled](#6-not-modelled),
[7 Plan](#7-plan).

## 1. Inventory

| component | state it keeps | operations | correct when |
|---|---|---|---|
| decision engine (DE, `configs/autonomy/state-machine.yaml`) | none: a function of mission state and branch log | `decide` selects complete, block, fail, reroute, branch, continue, dispatch | completion only on the full contract; no report without critique |
| outer loop (MR, RP) | `mission_state.json`, the runtime state, the current operator request, the branch log, a copy of each in memory | launch, decide, dispatch, apply a result, stop | files agree when a pass returns; nothing recorded is lost; completion is final; a pass ends |
| operator inbox, gates and triage (MR, `autonomy/`) | request, triage result, staged step, gate event | open, answer, clear, stage, feed back | a request names a step that waits; a hard gate stages nothing |
| recursive agent (RA) | the same `mission_state.json`, its loop state and result files | select a task, run an agent, judge, save, return | bounded over dispatches and restarts; no old result answers for a new agent |
| parallel subagents (RA) | sandboxes per role, result files per place | run a list in a thread pool | the report tells of every task; a task alone in its role keeps its outputs |
| provider launcher (`runtime/provider_launcher.py`) | a subprocess, its result file and outputs | start, poll, time out, recover | a late answer is not replaced; what is made up rests on new outputs |
| self-healing queue (`runtime/self_healing_runtime.py`) | manifests, entries of a pass | skip, gate, run, search, retry, report | completed on evidence, not repeated, bounded |
| experiment search (`research/tree_search.py`, DE) | a tree and a pending operation in the mission state | select, dispatch, apply | an operation gets its own result |
| mission state file (`mission/mission_state.py`) | one JSON file, its summary and a lock | load, write, initialise | readers see whole states; callers that take turns lose nothing; a call returns |
| launch and stop (`mission/mission_management.py`) | `launch.json` with a pid | start, resume, replace, stop | every process of the mission is on record |
| project runner (`mission/project_runner.py`) | progress of repeated passes | run a pass, raise the limit, resume | stops for an open request; ends |
| mission scheduler (`mission/mission_scheduler.py`) | what each mission was given | choose, run a slice, record | budgets hold over crashes; nobody waits too long |
| stage kernels and recovery (`runtime/stage_kernels.py`, `kernel_*.py`, `runtime_recovery.py`) | predictions, metrics, manifests, a shared cache | set up, plan, predict, halve the batch, report, retry | a completed manifest describes its predictions |
| prompt sweep (`runtime/kernel_prompt_decode_sweep.py`) | manifest, scoreboard, audit, decision, summary | preflight, variants, anchor, final, promote | the files tell of one attempt; a promotion is grounded |
| adaptation training (`runtime/adaptation_training_runtime.py`, `metric_ratchets.py`) | adapter, metrics, report, comparison | train, evaluate, compare | kept only if earned; within its budget |
| gates (`research/sanity_gates.py`, `confound_guard.py`) | two reports per job | check configuration and referenced runs, block or start the job | a report that lets a follow-up pass stands on evidence that is there |
| self-correction (`research/self_correction.py`) | report, state entry, ledger | discover, assess, decide, record | the report agrees with the runs; state and ledger follow it |
| acceptance (`mission/mission_acceptance.py`) | criteria and three kinds of records | count, enter the report, complete, tabulate | a gated mission completes on records that earn it |
| research memory (`research/indexed_memory.py`, `mission/mission_memory.py`) | an index and a log shared by missions | record, supersede, archive, repair, retrieve | the log rebuilds the index |
| packaging and release (`artifacts/`) | package tree, manifest, review, promotion, export | build, review, promote, export | a package is one build; a promotion is earned |
| monitor, policy tables, dialogue, papers, contracts, command line, harness | none the loop reads | rendering, classification, text | see section 6 |

How they interact. The outer loop is the only caller of the engine and of the
executors. While it waits for a recursive agent, the agent loads and rewrites
`mission_state.json` itself; afterwards the loop reloads the file and applies the
agent's result, its updates of the state included, to it once more. At the end of every iteration the loop replaces three files
one after the other. Nothing holds them together: a crash leaves them apart, and
the next launch starts from what it finds. Launch commands, runner and scheduler
start passes without knowing of each other, and the operator edits the state and
answers requests between and beside them. Jobs of a queue go through a gate,
leave manifests, and survive the queue that started them. Judgements
(self-correction, acceptance, packages) read what runs write at the same time.
There is hardly a lock: what keeps the parts apart is atomic renames and that
most of them take turns.

What is hard: crashes between two file writes or during an executor; writers that
maintain the same fields with different code; results that arrive late, or are
left from an earlier try, pass or process; whole states written back from copies;
budgets, retries and waits counted over restarts; files that belong together and
are written one by one. The list, with lines, is under `hazards` in
`PROJECT.json`.

## 2. Modules

### The outer loop

**`MissionDecision`** holds the mission state as a record with the fields
decisions depend on, the operators that change it (`MergeOutputs` =
`_merge_outputs`, `ApplyPhaseChange` = `_apply_phase_change`) and the engine:
`SelectsWork`, `SelectsHop`, `SelectsComplete`, `SelectsBlock` say which directive
`decide` returns. The four are exclusive and cover every state: `decide`'s chain
of early returns is in their guards. `Rerouting` comes first, as in DE:447.

**`MissionRuntime`** is `run_mission`. `pc` is where the pass is:

| `pc` | code |
|---|---|
| `idle`, `down` | no process: the last pass returned, or died |
| `loop` | the head of the `while`, MR:2305 |
| `inbox`, `state`, `runtime` | inside `_write_state`, before each of its three replacements; `resume` says what follows |
| `execute` | inside `run_mission_action`, MR:2252 |
| `planner` | inside the follow-up planner, MR:889 |
| `check` | after the iteration's write: terminal status and stop conditions, MR:2476 |

`disk`, `rs`, `request`, `branches` are the files; `mem` and `rt` are
`mission_state` and `runtime_state` of the running pass. Each directive is an
action (`DecideComplete`, `DecideBlock`, `DecideTransition`, `DecideDispatch`,
`DecideNoExecutor`), and so is each way an executor ends (`ExecutorReturns`,
`ExecutorRaises`, `CallPlanner` then `PlannerStages` or `PlannerRaises`), each
way a pass ends, each file write, the agent's iteration, a crash and an
operator's edit. A crash may fall between any two of them. What an agent reports is
one of `AgentReports`: its phase control, the phase of its continuation and its
`mission_state_updates`. `ApplyAgentResult` is what the agent's runtime makes of it in
the file (merge the updates, credit outputs, resolve the phase, no look at the
contract), and `ExecutorUpdates` what the outer loop makes of the last report once
more over the file it reloads. Both follow RA:958-1007 and MR:909-961, and neither checks
anything. `strayed` remembers that a report went beyond what its action entitles it to
(`Strays`). What the modules of
section "Executors" detail is here one step with any result.

**`MissionLifecycle`** is the abstract mission, for a reader of the two state files who
knows nothing of passes, agents and crashes: a save says that work starts
(`Dispatch`), that an iteration ended and how (`Iterate`), that a limit ends the pass
(`Pause`) or that a completed mission is found completed (`Confirm`); `Commit` brings the
runtime file up to the mission file, `Work` changes what is recorded, and the status, as
agents do, but never to or from completed. `MissionRuntime` implements it under the mapping in `Life`:
`status` and `saved` are the mission file's status and its copy of the runtime state,
`committed` the runtime file, `grounds` whether the file meets the completion contract.

**`StateFile`** is `mission_state.json` shared by processes that may die:
`LoadAndEdit` is a caller's load and change, then one action per step of
`write_mission_state`: `Open` (creates the file if there is none), `Lock` or
`GiveUp` after the time limit, `ReturnDescriptor` (the local file object is closed,
and the lock with it), `Replace` (the rename), `SyncSummary`, `Release`. `Initialise`
and `FirstSummary` are `_persist_mission_state`. `inode` is what the path names,
`handle` what a writer opened, so a lock on a file that was replaced meanwhile is
told from one on the current file. `content` is the set of edits in the state,
which is what a lost update would lose. **`StateRegister`** is the abstract file: a
call takes effect at once or not at all. `StateFile` implements it under the mapping
in `Register`.

How the two levels fit: `MissionRuntime` takes each write of `mission_state.json` as
one atomic step of one process at a time. `WritesAreAtomic` justifies the first and
`EditsAreKept` says what follows from the second: the outer loop and the executor it
waits for are callers that take turns (`Turns`), so the file loses none of their
updates. An outer loop beside a scheduler or a second loop is not covered.

**`OperatorTriage`** is what a pass does when an executor stops it, and the operator's
side of it: `BuildRequest`, automatic triage of a blocked queue, the recovery step
managed mode stages, the order in which request and state are written, and the
triage and feedback commands that may come between (`FeedbackReads`,
`FeedbackWrites`).

### Executors

**`HealingQueue`**: one pass over the jobs (`run_self_healing_queue`, `_run_entry`).
`manifest` is the file at a job's expected path, `stray` what it wrote elsewhere;
`modes` are the attempts of the job at hand, `NextMode` the policy's choice of the
next. A dead queue leaves `orphans`, which may write late.

**`RecursiveAgent`**: `run_recursive_agent_loop` over several dispatches. `loopFile`
and `mission` are the two files, `loop` and `seen` the copies; an iteration is
`TakePending`, `TakeListed` or `TakeInitial`, the agent's tries, `Fail`, `Yield`,
`HandOn` or `FinishTask`, then `SaveLoop` and `SaveMission`. `results` are the result
files of the iteration, which agents of a dead process (`strays`) may still write.

**`ProviderSession`**: the launcher's loop, `lpc` its place in it, under the retry loop
of RA:1436. `file` says what `agent_result.json` holds and whose try wrote it.

**`ParallelSubagents`**: `run_parallel_subagents`; `at` is each task's place in its
thread, `shared` what is in the sandbox of a role.

**`ExperimentSearch`**: `select_next` of the tree, the engine's pending operation, the
executor and `apply_tree_search_result`, with the state in memory (`held`) and on
disk (`saved`).

### What starts missions

**`MissionScheduler`**: a cycle is `Choose` (eligibility, suppression by requests and
safety blocks, score with aging, fairness window), the slice, and `Record`. `plan` is
the scheduler's copy of `schedule`, the file.

**`MissionLaunch`**: the check of the recorded pid, the start of the process and its
record are steps of their own (`CheckLaunch`, `Spawn`, `RecordLaunch`), as are reading,
signalling and recording in a stop. Pids end and are reused.

**`ProjectRunner`**: the passes of `run_project`, between which it reads mission state and
request file one after the other (`rpc` = `state`, `inbox`) while a detached process
writes both; `Gate` is `_soft_recovery_resume_allowed` with the console's verdict.

### Research

**`StageRecovery`** is what `run_stage_with_recovery` does about a failed attempt;
`StageRun`, `PromptSweep` and `ResearchGate` build on it or on its rules.

**`StageRun`**: set up the predictor, look up and probe the batch size, rank the plans,
fill and replace the shared cache (a temporary file of one fixed name), predict
batch by batch with the ladder after out-of-memory errors, finish and report.

**`PromptSweep`**: variants on the development splits, anchor, final run, audit, and then
`WriteSweepManifest`, `WriteSweepDecision`, `WriteSweepSummary`, by sweeps that share
the reports of a runtime root.

**`TrainingRun`**: the two commands of an adaptation, their time limits and what they
leave, the report and the ratchet's comparison. A command that outlives its attempt
may write late.

**`ResearchGate`**: the sanity gate looks at the configuration; the guard it calls reads
configuration and references one by one and reports; the gate reports, and the job
starts unless a check blocks, while runs finish and an operator edits. **`MCGate`**
gives it proposals and manifests.

**`SelfCorrection`**: manifests are discovered, read one by one, assessed; report, state
(from the copy read first) and ledger are written in turn, the first two in place: a
death in a write leaves the file cut (`Cut`), and a cut state nobody can load, a later
correction included, so nothing repairs it.

**`MissionAcceptance`**: names counted from evidence, coverage and ledger, where each
record gives a method a name of its own and a line of the outer loop may be taken for a
novel method; entry into the final report by the engine or by an agent, completion, and
the package's tables.

**`ResearchMemory`**: recorders of several missions load the index, put an entry in,
apply retention, save, and then append to the log. `damage` is what happened to the index
file: a torn one is rebuilt from the log, an empty or missing one is taken for an index of
nothing, and one that begins with an older object for that object (`LoadedIndex`).
`unseen` and `lost` remember whose part of the index somebody wrote over.

**`PackageRelease`**: the packager removes the old package file by file, over what earlier
attempts left (`RemovePart`), or gives up half way (`RemovalFails`), registers, digests
and copies files, writes manifest and review; a review command beside it computes gates,
writes, promotes and writes again; the exporter rebuilds the package and copies it into a
tree of its own, which no part reads back and the model does not keep.

### Instances and composition

**`MCMissionRuntime`** gives the last five phases of the default state machine, one
output per phase, the default execution hints or those of a queue mission, and
initial states as `orchestrator._initial_phase_state` makes them.

**`MCExecutors`**, **`MCOperations`**, **`MCResearch`** put several modules into one
specification. The components in one of them share no file; what one of them sees
of the others is an action of its own environment (`OthersRun`, `CommandDies`,
`DetachedRuns`, `ManifestWritten`, `RunWrites`, `EditFiles`). A behaviour therefore takes one
of them, chosen in the initial state, and the others stand still: the product of
their interleavings would add states and no behaviours to any of them. Components
that do share a file are composed inside a module: outer loop and agent
(`MissionRuntime`), agent and its stray processes, launcher and provider, runner and
detached process, packager and reviewer, gate and guard, recovery and stage.

**`MissionRuntimeProofs`**, **`StateFileProofs`**, **`MissionLaunchProofs`**,
**`ProjectRunnerProofs`**, **`HealingQueueProofs`**, **`OperationsProofs`** (scheduler,
triage and the composition of `MCOperations`), **`ExecutorsProofs`** (agent, launcher,
subagents, search and the composition of `MCExecutors`) and **`ResearchProofs`** (all of
`MCResearch`) hold the theorems. For their sake some operators are written without
`SelectSeq`, `SortSeq` and folds over an operator: `Rebuilt` (memory) is a recursive
function over the log, `InOrder` (subagents), `RoundRobin` and `LadderFrom` (stage runs)
take the element with so many before it, and `SweepReference` asks which of the known
scores come first.

## 3. What is abstracted

Everywhere: names, texts, reports and layouts are left out unless a property is
about them; a file that is replaced by a rename is written in one step; times of
day only where something expires. Writes that are not renames are written out as
steps where a reader can see them half done.

*MissionDecision, MissionRuntime.* Outputs, phases and actions are model values;
an action is identified by its phase, from which the engine derives its id
(DE:1169). Failure counts and blocked reasons are left out: the engine uses them
only to prefer a recovery hop when no next phase is named, and a modelled mission
always names one. RETRY needs a branch with recovery status `retry-planned`, which
no code writes. Of two branches of equal priority `CHOOSE` takes one, the code the
first in the log; they agree on the recovery status, the only field that matters.
Of an agent's `mission_state_updates` the modelled fields are `status`, `current_phase`,
`next_phase`, `produced_outputs` and `phase_outputs_by_phase`; what else the deep merge
could overwrite (acceptance and waiver, histories, the action list, `bootstrap`, phases the
contract does not name) is left out. Executors report the outputs their action declared,
or none. The operator's edit satisfies the criteria and waives replication at once.
The planner's own edits are left out; it is user code. The second write after
completion repeats the same abstract values. Writes of one file are atomic
replacements by one process at a time, and the mission is not initialised again.
(`self_correction.py:600` writes the same file in place, within an executor; that write,
and what a death leaves of it, is in `SelfCorrection`.)

*StateFile.* A state is the set of edits made to it; `migrate_mission_state`, which
only normalises, is left out, as are I/O errors, `--force` and temporary files of
dead processes. The writers are those that call `write_mission_state`; the one that does
not, self-correction, truncates and writes the path itself, so nothing here holds of it. The lock's time limit may pass whenever another process holds it.

*OperatorTriage.* The actions are of one phase and kind, in an order left open;
downscope stages as reroute does. Blocks that wait for an approval, and edits of the
plan by the operator, are not modelled. `torn` marks a crash, or a late feedback,
between two files.

*HealingQueue.* Jobs have no time limit; `max_jobs` only affects which are taken. The
gate's verdict is open here, so the properties hold whatever it says; at this commit it
always blocks (`gate_config` in section 4), and only `ResearchGate` models that.

*RecursiveAgent.* One action and one role per phase; only the next iteration's result
files are kept; the completion token is a payload that says so. The action kind
"phase-transition", an agent that overrides `phase_control.current_phase`, its
`mission_state_updates` and phase outputs are in `MissionRuntime`. Of the outer
loop only what it does to the list and the phase is here. A dispatch whose budget
is used up applies the last outcome again, as the code does.

*ProviderSession.* One iteration, with at most `MaxWrites` writes of its providers,
each atomic. Idle time passes only while the launcher sleeps. What is printed
matters only after an exit with 0.

*ParallelSubagents.* A task's result file is its place's; files of an earlier call are
part of the initial state; outputs are the tasks that wrote them.

*ExperimentSearch.* Plans and code are left out, nodes are numbered in the order they
are added (the code breaks ties by random ids). The search is enabled, and an executor's
payload may hold an experiment, which those shipped with the repository never return.

*MissionScheduler.* The status it returns is not modelled; running and paused
missions are "open". *MissionLaunch.* A signalled process may live on.
*ProjectRunner.* A pass is one step; mission and runtime status go together;
bootstrap repair and readiness checks before the first pass, forced
re-initialisation and answers of the operator are not modelled. A request's own
gate class is never soft.

*StageRun.* Measured speed is left open, so any plan may be chosen; probes, prompts and
buckets are abstracted; report, metrics and manifest of the kernels are one write.
At most three examples and a ladder of three batches. *PromptSweep.* Scores are
integers; sacrebleu and chrf share one signature; both splits of a variant are one
step; one process per sweep; the mock backend can always be built.
*TrainingRun.* A clock of half seconds, since the code rounds the remaining budget
to seconds; commands write a file at once.

*ResearchGate.* The gate's own checks of references, dataset, prompt, intent and
comparability (`sanity_gates.py:254-598`) are left out: the loader's `NameError` makes them
unreachable. A manifest's fields are grouped by the guard's checks that read them;
completed manifests stay as they are; the markdown copies of the reports are left out. *SelfCorrection.* Manifests come
from discovery, not from a list; routes are only the action they name; ties between
equal anchors are open; the class "insufficient evidence" changes no decision.
*MissionAcceptance.* Of which kinds a ledger line is, it says itself, whatever text or flag
tells the code; a coverage row is of its method's kinds and goes by the method's id;
`skipped_methods` of the evidence is left out; predictions and horizon metrics are counted like the leaderboard; a blocked
completion leaves the phase as it is.

*ResearchMemory.* Terms and scores are left out; every entry has its own time, so
fingerprints do not repeat; the index is replaced atomically and damaged only from
outside. *PackageRelease.* A digest is the content it was computed from, and is taken of
the mission's own runs; of the manifests that runs refer to or that ledgers relate only
the number is kept, for the replication gate, which counts them. A file of the package that
was cut by a death cannot be read and counts as not there; the registration of files is
one step; one packager at a time; a refused schema ends the packager (`PackagerDies`).

## 4. Runs

Bounds. Every CONSTANT that begins with `Max` and is commented as a bound limits the
environment (launches, crashes, commands, edits) or a counter; the others are
values of the program's configuration, chosen small enough to be reached. A hazard
here needs something left over by a first call (pass, try, command, build) and a
second that meets it; so each instance allows two or three calls and one or two
deaths or edits between any two steps. `CHECK_DEADLOCK FALSE` everywhere: when the
launches are used up and the last one has returned, the system has stopped. In `queue`
the bound on decisions, 28, is four for each iteration of the larger limit, so that it
cuts nothing off that `DecisionsAreBounded` allows; under the limit of three, where the
property allows 12, it leaves room for a violation, and a mutant makes use of it.

| run | instance | checks |
|---|---|---|
| `agents` | agents everywhere, two iterations each, reports on and off the contract, limit 3, 2 passes, 1 crash | `CurrentOutputsAgree`, `NoLostOutputs` |
| `failures` | the same with executors that raise, 3 passes, limits 2 and 4 | `CleanEndAgrees`, `PromotionIsGrounded`, `FilesFollowLifecycle` (refinement) |
| `queue` | baseline queue, planner, bounded stages, a phase without executor, operator edits, 3 passes, 2 crashes, limits 3 and 7, up to 28 decisions, fairness | `IInv` (with `TypeOK`, `CompletionNeedsEvidence` and `MissionFileLeads`), `IntentIsDurable`, `DecisionsAreBounded`, `CompletionIsFinal`, `PassEnds` |
| `writers` | three writers at any time, one write each, one death, fairness | `WritesAreAtomic` (refinement), `EveryCallReturns` |
| `turns` | two writers that take turns, three writes each, two deaths | `NoLostEdits` |
| `executors` | queue: 2 jobs, 2 passes, 2 attempts; agent: 2 phases, 3 iterations, 2 dispatches; provider: 2 tries, 3 writes; subagents: 3 tasks, 2 threads, 2 roles; search: 2 drafts, 4 operations; one death each; fairness | `ExecutorsTypeOK`, `CompletedOnEvidence`, `AcceptedIsNotRepeated`, `AgentIsBounded`, `ActionsAreServed`, `FreshResult`, `MadeUpIsJustified`, `ReportIsWhole`, `ResultsAreOwn`, `ExecutorsReturn` |
| `operations` | scheduler: 3 missions, 2 starts, 1 loss; launch: 2 clients, 3 pids, 4 commands, 1 death; runner: chunks of 2 up to 5; triage: 3 stops, 2 events; fairness | `OpsTypeOK`, `BudgetsHold`, `WaitIsBounded`, `RunsAreRecorded`, `RunnerRespectsRequest`, `StagedStepWaits`, `StartersStop` |
| `research` | package: 3 states of the files; memory: 2 missions, 3 records, a damaged index; stage: 3 runs, 3 examples; sweep: 6 configurations, up to 4 attempts; training: 4 configurations, 2 attempts; gate: 3 proposals, 4 manifests; correction: 4 runs, 2 corrections; acceptance: 2 methods under 4 names, 5 criteria; one death each | `ResearchTypeOK`, `PackageIsOneBuild`, `PromotionIsEarned`, `RebuildIsFaithful`, `StageResultsHold`, `SweepHolds`, `TrainingHolds`, `GuardHolds`, `CorrectionHolds`, `AcceptanceHolds` |
| `resume_after_fix` | queue, no crash | violates `FixUnblocksReport` |
| `state_lock` (`lock.cfg`) | two writers, no death | violates `LockIsExclusive` |
| `provider_retry` | two tries | violates `RetriesAreServed` |
| `gate_config` | 4 proposals, 4 manifests | violates `SoundProposalsStart` |

### What they show

*Outer loop.* With executors that return, the agent and the outer loop keep one
consistent account of the current phase's outputs in every interleaving and after a
crash, and the final report is never entered without critique's output, for every agent
that keeps to what its action entitles it to. The code does not hold it to that. An agent's
report may send the mission to any phase, and
- one that goes straight to the final report, or names it in its updates, promotes a mission
  nobody criticised, although `configs/autonomy/state-machine.yaml` forbids it under
  `terminal_rules`;
- one whose updates contradict its phase control, as those of the result the launcher makes
  up do (`provider_launcher.py:749-766`: in the action's phase by the one, in the next by the
  other), leaves `produced_outputs` and the outputs recorded by phase apart, since the outer
  loop merges the updates over what the agent's runtime had settled on;
- one whose updates hold outputs replaces what was on record.

`Strays` says exactly this, and once a report strays the three properties about outputs and
critique promise nothing more (`strayed`). The instances of `agents` and `failures` have reports
of all these kinds (`MCReports`), the two of `tests/fake_recursive_agent.py` and the launcher's
among them; those that go back against the contract, or name status, next phase or a
matching phase in their updates, do not stray. Outside every property but `TypeOK` is an
agent that sets the status `completed`: nothing in the code stops it, and the file would
then be completed on the agent's word. `ReportsLeaveCompletion` excludes it. A completed
mission was complete by the whole contract, and stays as it is. The mission file is
never behind the runtime file, so a crash repeats a decision but never skips one;
and when a pass has returned, the runtime file, its copy, the mission status and
the operator request agree even if an earlier pass died between the writes.
`FilesFollowLifecycle` says what the two files tell at any other time: one lifecycle,
whose counter moves by one and whose completion has grounds. The
exception is a pass that decides nothing: given a limit that is used up already it
returns without writing (`ReturnAtLimit`), and what a crash left apart stays apart.
`NoLostOutputs` and `CurrentOutputsAgree` are checked where executors return: when one
raises after an agent has written, `_handle_dispatch_failure` keeps the copy loaded
before the dispatch and takes only what that copy has empty (`KeepInMemory`), and with
`MayRaise = TRUE` both fail. No document promises them for that case.
`PromotionIsGrounded` is what holds even then: outputs and phase go back together, so no
mission is left in or bound for replication or the report without critique's outputs.
`NoReportWithoutCritique`, which says it of the step into the report, follows.
A pass takes at most four decisions for each iteration of its limit: a planner that
raises costs nothing, but it leaves an action recorded as completed, and only so many
runs of the baseline queue can follow before something is counted. Three more
things the model shows and no property forbids: an executor that failed without
reporting outputs is credited with those its action declares; a reroute branch is
never closed and keeps its precedence over pending work; and an agent's hand-off to
a phase visited before keeps the old outputs, where the outer loop clears them.

*State file.* Whatever overlaps and whoever dies, readers see whole states, and every
call returns, by the lock or by its time limit. `EveryCallReturns` needs three
writers: one that waits, one that holds the lock, one that replaces the file they
opened. Edits are safe when callers take turns; when they do not, `NoLostEdits` fails
(set `Turns` to `FALSE` in `turns.cfg`), as it must for load, edit and write without a
lock around all three.

*Triage.* A step that an open request calls staged waits in the mission's file, unless
a crash or a late feedback came between the files (`torn`), and nothing is staged at
a hard gate.

*Queue.* A job completes on a manifest that says to continue, its own or one the search
brought; a completed job is not run again. What the search may bring is also another
job's manifest; and a failed or dead job's manifest at the expected path makes a later
pass skip the job. `CompletedIsBacked` says exactly what a completed pass rests on.

*Agent.* Iterations and failures in a row are bounded over dispatches and restarts; an
action before the cursor that is still open is one that was opened again, and it is
then not run any more; a dispatch runs the action it was made for if that is the
first open one past the cursor. A result that counts was written in its own
iteration, unless a crash made the number be used again.

*Provider.* Outside the phase execution an answer the launcher could have read is not
replaced, and what it makes up rests on outputs newer than the prompt. *Subagents.*
The report is whole; tasks of one role empty each other's sandbox, so the property
holds the outputs only of tasks alone in their role. *Search.* An operation gets the
result of its own dispatch, unless that process died or raised; then the next
result is taken for it.

*Scheduler.* Whoever else runs a mission, its slices exceed the budget by less than a
slice, and by one slice more for each scheduler that is lost before it records. The
exception, named in `BudgetsHold`, is a mission that somebody initialises again during
one of its slices: its count starts anew, so the slice is not charged and may be as
long as the old count and `Slice` together. A mission that could run waits at most three
cycles in this instance (`Patience` is tight: 2 fails; no document states a bound, and
`EnoughPatience` says which numbers are one for other weights and windows). *Launch.*
Every process is on record unless commands overlapped, one replaced the running process,
or a command died between start and record. *Runner.* No pass starts over a request
that was open when the last one ended, its own or one it left open: with the limit used
up already `run_mission` decides and writes nothing, returns the stored status, and
drops no request (`ReturnStored`).

*Research.* Each property of this run states what the results of one component may
claim, whatever died, timed out or wrote late; its comment says it in full. Where
the code cannot promise something the property says so. `PackageIsOneBuild` excludes
a review command that overlaps a packaging, and after a removal that was cut short only
says that what lies there is of one build: the manifest may have lost copies, and nothing
in the package shows it. `PromotionIsEarned` says two manifests, not two runs, because the
replication gate counts every manifest the package refers to. `RebuildIsFaithful` speaks of
the missions that are not `lost`: a recorder that overlaps others costs those that
saved between its load and its save, never itself; so does an index that was emptied,
removed or cut back; and the rebuild of a torn one gives everybody back. `SweepHolds`
excludes reports shared by two sweeps,
`TrainingHolds` allows half a second over the budget, `GuardHolds` is about the guard's
reports, not about jobs, because the gate in front of them starts none
(`SoundProposalsStart`), and lets a reference name no model. `AcceptanceHolds` guarantees as many methods as the
criteria ask for only where no method goes by two names and no line of the outer loop
counts as novel; otherwise it guarantees one, because the criteria count names.
`CorrectionHolds` says when an edit of others is lost: when it came after a correction had
read the state, and that correction wrote its copy back.

### Fairness

`StateFile`: `WF_vars(WriteStep(w))` for each writer: a process inside
`write_mission_state` keeps executing unless it dies. `MissionRuntime`: `FairSpec`
assumes `WF_vars(PassStep)`: a pass is one sequential process that keeps executing
unless it is killed, and an executor or planner that was called returns or raises
at some time; `MCExecutors` is where that assumption is examined. There
`WF(ExecutorStep)` lets each executor's own code go on, including the exit of a
queue's job and of an agent, which the code waits for; a provider may stay silent
for ever, and the only strong fairness, `SF(TimePasses)`, says that a silence which
can last again and again does last the idle time. `MCOperations`: `WF(OpsStep)` for the
scheduler's and runner's own steps; a slice and a pass return. Nowhere are launches,
commands, crashes, late writes or the operator fair. `PassEnds` says that a pass comes
to an end by itself or dies, not that a mission completes. The planner that raises
skips the iteration counter. That ends where the hint of a queue phase declares all
the outputs the phase must produce, or none (`QueueHintsCover`, which holds of the
instance): the file written before the planner is called then credits them.
`DecisionsAreBounded` is the safety half of `PassEnds`. A hint that declares only a part
leaves the phase with something missing; it is selected again, its queue run again
and its planner called again, uncounted each time, and the limit never stops the pass.

### Where code and documents disagree

The four violated properties restate a line of the repository; `findings` in
`PROJECT.json` quotes each.

1. *Resume after a fix.* A mission that blocks in its final phase opens an operator
   request; an open request is a blocker of the completion contract, and it is
   cleared only by writing a runtime status other than blocked or failed. The
   operator's fix alone does not let `resume` go on.
2. *The state file's lock.* `_acquire_state_lock` returns the descriptor of a file
   object that is closed on return: nobody holds the lock during the write.
3. *A safe retry.* The failure the launcher writes for one try stays in the result
   file; a later try that exits with 0 without writing is answered by it.
4. *Sound proposals start.* The sanity gate calls a loader that does not exist; the
   `NameError` is taken for a file that does not parse, and every existing configuration
   blocks its job. The repository's tests of the queue expect the job to complete.

Lesser ones, without a run of their own: the help of `--max-iterations`
(`scripts/mission/run_mission.py`) speaks of outer-loop decisions, but the decision whose
planner raises is not counted (`DecisionsAreBounded` says how many there may be); results of
the tree search flow back only from executors that return an experiment's code, which none
shipped does, whatever `CHANGELOG.md` says; and agents may enter the final report although
`terminal_rules` forbid it.

## 5. Theorems

For every value of the constants that the named assumptions allow, and any number
of calls, deaths and processes (bounds are arbitrary naturals):

| module | theorem | says |
|---|---|---|
| `MissionRuntimeProofs` | `TypeCorrect` | `Spec => []TypeOK` |
| | `Invariance` | `Spec => []IInv`; this and all below it if `ReportsLeaveCompletion` |
| | `CompletionIsJustified`, `CompletionStays` | `[]CompletionNeedsEvidence`, `CompletionIsFinal` |
| | `MissionFileIsAhead`, `CleanEndsAgree` | `[]MissionFileLeads`, `[]CleanEndAgrees` |
| | `IntentComesFirst` | `[]IntentIsDurable` |
| | `LimitBoundsDecisions` | if `QueueHintsCover`: `[]DecisionsAreBounded` |
| | `CritiqueBacksPromotion`, `CritiqueComesFirst` | if `CritiqueOpensReport` and `StartsBeforeReport`: `[]PromotionIsGrounded`, `NoReportWithoutCritique` |
| | `FilesTellTheLifecycle` | `Spec => FilesFollowLifecycle`, the refinement |
| | `OutputRecordsAgree`, `OutputsAreKept` | if `NoLateRaise`: `[]CurrentOutputsAgree`, `NoLostOutputs` |
| | `QuietExecutorsKeepOutputs` | the same two, if executors never raise |
| `StateFileProofs` | `FileTypeCorrect`, `LocksNeverLeak` | `[]TypeOK`, `[]LocksAreLive` |
| | `WritesAreWhole` | `Spec => WritesAreAtomic`, the refinement |
| | `TurnsInvariance`, `SummaryIsCurrent`, `EditsAreKept` | if callers take turns: `TurnsInv`, `SummaryFollows`, `NoLostEdits` |
| `MissionLaunchProofs` | `LaunchTypes`, `RunsStayRecorded` | `[]LaunchTypeOK`, `[]RunsAreRecorded` |
| `ProjectRunnerProofs` | `RunnerTypes`, `RequestsAreRespected` | `[]RunnerTypeOK`, `RunnerRespectsRequest` |
| `HealingQueueProofs` | `QueueTypes`, `CompletionsHaveEvidence`, `AcceptedJobsRest` | `[]QueueTypeOK`, `[]CompletedOnEvidence`, `[]AcceptedIsNotRepeated` |
| | `OwnManifestsComeFirst`, `CompletedQueuesAreBacked`, `OlderEditsStay` | `[]OwnManifestFirst`, `[]CompletedIsBacked`, `OlderEditsAreKept` |
| `OperationsProofs` | `SchedTypeCorrect`, `BudgetsAreKept` | `[]SchedTypeOK`, `[]BudgetsHold` |
| | `WaitsEnd` | if `EnoughPatience`: `[]WaitIsBounded` |
| | `TriageTypeCorrect`, `StagedStepsWait` | `[]TriageTypeOK`, `[]StagedStepWaits` |
| | `OpsTypeCorrect` | `OpsSpec => []OpsTypeOK` |
| `ExecutorsProofs` | `AgentTypeCorrect`, `AgentBoundsHold` | `[]AgentTypeOK`, `[]AgentIsBounded` |
| | `SuccessIsOwn`, `ActionsServed` | `FreshResult`, `[]ActionsAreServed` |
| | `AnswersStand`, `ReportsAreWhole` | `MadeUpIsJustified`, `[]ReportIsWhole` |
| | `OperationsGetTheirResult` | `ResultsAreOwn` |
| | `ExecutorsTypeCorrect` | `ExecutorsSpec => []ExecutorsTypeOK` |
| `ResearchProofs` | `PackagesAreOneBuild`, `PromotionsAreEarned` | `[]PackageIsOneBuild`, `[]PromotionIsEarned` |
| | `RebuildsAreFaithful` | if `IdsAreOwn`: `[]RebuildIsFaithful` |
| | `GuardReportsStand`, `TrainingsHold` | `[]GuardHolds`, `[]TrainingHolds` |
| | `CompletionsAreEarned`, `CorrectionsAreSound` | `AcceptanceHolds`, `[]CorrectionHolds` |
| | `SweepsHold`, `StageResultsStand` | `[]SweepHolds`, `[]StageResultsHold` |
| | `ResearchTypeCorrect` | `ResearchSpec => []ResearchTypeOK` |

Three kinds of hypothesis occur beside the assumptions on constants. *Conditions under
which the code keeps its promise*: `Turns` (callers of the state file take turns),
`ReportsLeaveCompletion` (no agent's updates set the status completed),
`NoLateRaise` (no executor raises once its agent has written the mission file;
`KeepInMemory` would put the older copy back, the hazard at MR:1968) and `IdsAreOwn`
(two missions do not share the id of a finding: the key of an index entry, `_entry_key`
in `indexed_memory.py`, holds type and id but not the mission, so one mission's entry
would replace the other's). `QuietExecutorsKeepOutputs` shows that `NoLateRaise` is no
condition where `MayRaise` is false, as in the run `agents`. *Conditions on the
configuration*, each an `ASSUME` of the module that instantiates it, so that TLC
evaluates it on what the runs explore: `EnoughPatience` (the patience claimed covers the
fairness window and a round of missions, or as many cycles as aging needs to outweigh
every priority), `CritiqueOpensReport` (only critique and replication have transitions
or hints to replication and the final report, critique's first transition leads
elsewhere, its outputs are its own, and its hint declares all of them or nothing),
`StartsBeforeReport` (a new mission has nothing recorded and is not past critique) and
`QueueHintsCover`. The last one is needed: without it the decisions of a pass have no
bound ("Fairness" above). *Exceptions inside a property* (`strayed`,
`uncounted`, `losses`, `restarted`, `overlapped`, `shifted`, `cut`, `lost`, `torn`, `broken`) are the ones section 4 lists; the
proofs show that there are no others.

Hardly one of the properties is inductive as it stands. What each proof adds:

**MissionRuntime.** "A completed file satisfies the contract" does not follow from
itself: the file becomes completed by a write that happens two steps after the
decision, of a copy in memory. `IInv` adds what must hold in between: a completed
copy is justified and its runtime state stops the loop (`CompletionOnItsWay`); no
pass works on a completed file, and one that rewrites it writes the same research
(`CompletedIsLeftAlone`); file and copy agree between and after the writes
(`WrittenAgrees`); and the running pass is at most one iteration ahead of the runtime
file, only while writing (`CounterLeads`). The engine side is the lemma
`SelectsCompleteJustified`: what `SelectsComplete` tests is all of `Justified`. The
lemmas ending in `Type` and `Keeps` say what each state-changing operator returns and
that none marks a mission completed.
`EndInv` is the way to a clean end: the state in memory and the runtime status fit
each other from the moment they are settled, and each file says so from its own write
on, in the order request, mission, runtime. `IntentInv`: the state written before an
executor starts already calls its action dispatched. `OutputsInv`: the two records of
the outputs agree in file and memory, and the state being written was computed from
the file it replaces, because until its agent has written the file is what the loop
holds; each operator that changes outputs is shown to keep or extend both records. It carries
`strayed` as a way out (`StrayedStays`), and so does `CritiqueInv`: a report that does not
stray has its two merges agree, by the runtime's and by the loop's own rule for the phase.
`CritiqueInv` makes `PromotionIsGrounded` inductive, for the file and for the copy in
memory alike, since an exception mixes the two: critique's outputs are recorded and
declared all or none (`RecordsAreWhole`), an open critique action declares them
(`CritiqueIsDue`), and what a dispatched action may ask for rests on what is recorded
already (`WorkIsGrounded`). The memory's records are contained in the file's while an
executor works, so what is kept of an older copy never claims more than it has.
`CountInv` is an account: a counted iteration pays for four decisions, its own and three
that a raising planner leaves uncounted. `Reruns` bounds the latter before a decision and
`Left` while the queue is out: an action left open may declare less than is missing, the
next run credits what one record of outputs lacks, the last what both lack, and then the
phase has nothing missing. `LifeInv` says what a write under way is going to say against
what the files say now; with `IInv` and `EndInv`, each write of the mission file is one of
the lifecycle's saves, each write of the runtime file a `Commit`, the three steps that
write the file otherwise `Work`, and every other step a stutter (`StepLives`).
Assumptions: `PhaseAssumption` (the four phases the contract names exist),
`ContractAssumption` (only the final phase has no transitions, and the default next
phase is a transition), `HintAssumption` (hints name executors, outputs and phases),
`BoundAssumption` (initial missions are not completed, have an untouched runtime block
and no outputs; bounds are naturals).

**StateFile.** `WritesAreWhole` maps each step to a step of the register or to none
(`StepImplements`): a begun call is pending until the rename, effective until it
returns; a skipped write and a death end a call without effect. `NoLostEdits` does
not follow from itself: a rename keeps the file's edits only because the writer's
copy has had them since it was loaded. `TurnsInv` says that at most one writer is
under way, that its copy contains the file (unless it initialises), and that after
the rename they are equal until the summary is written.

**MissionLaunch, ProjectRunner.** `LaunchInv` relates each command's place to what it
holds, and says that a command which overlaps with no other (`UndisturbedCommand`) finds
the record it read still true; a run leaves the record only through one that did not.
`RunnerInv` adds to the types what the snapshot means: when the runner decides, a
request of its own pass that is still there was seen.

**HealingQueue.** `QueueInv` follows the job at hand: entries are filled in order
(`EntriesInOrder`), a job is attempted with another job's accepting manifest in its
place only if that came late or existing results are rerun (`AttemptIsOwn`), accepted
manifests stay (`ManifestsStay`), a pass ends as completed only with an entry for each
job (`OutcomeAgrees`), and the copy of the mission state lacks only edits of this
pass (`CopyIsOld`).

**Scheduler, triage.** `BudgetInv` says of each mission that was not initialised again
during a slice (`Kept`): it had budget left when it was chosen, its count has only
grown since, so whatever a slice gave it is charged, or about to be charged together
with what others ran (`Unrecorded`), or was lost, one slice per lost scheduler
(`Allowance`). `WaitInv` carries the wait: from some number of cycles on, no
mission that was served meanwhile comes first again (`NoOvertaking`), so each recorded
cycle of waiting takes one mission out of the set `Unserved`, and the sum of its
cardinality and the wait does not grow (`RoundsEnd`). `StagedInv` follows a staged step
from the engine's copy through the request to the mission's file, and says who may stage
at all.

**Agent.** `IterationsLeft` equates rounds and budget; `CountsCover` says that what was
judged is counted in memory and, but for one iteration that is not saved yet, in the
file: with it, restarts cannot exceed the limits. `FilesAreOwn`: until an iteration is
lost nobody else writes its result files. `CursorInv` and `FirstChoice` say what the
cursor has passed, in the list as it is and as the save will leave it (`Applied`), and
that a dispatch that has not served its action still stands before it.

**Launcher, subagents, search.** `Unread`: the launcher gives an answer up only if it came
after its last look. `EntriesAgree`: the entries of a running call are those of the tasks
that are done, each once. `LeftBehind`: an operation that waits while no executor of its
own runs was left by a death or an exception. `TreesGrowSlowly` bounds the tree by the
operations decided, for the types.

**Package, memory.** `BuildInv`: packager and reviewer take turns unless they overlapped,
the package under way has only what its packager has come to, what is left of one that is
being removed is of one build, and the reviewer holds the
manifest on disk. `EarnedInv`: who is about to promote holds a promotable manifest.
`PartsAgree`: the index, and the copy of each recorder that is not behind (`unseen`), hold of
each mission that is not lost what the log and the line its recorder still owes would
rebuild. Recording an entry of one mission must leave the others' parts
alone, and this is where `IdsAreOwn` is needed.

**Gate, training.** `GateInv` carries what the guard read to its report by what cannot
change: a manifest strong enough to pass is complete and stays (`Strong`), so the copy read
first still agrees with the file when the last one is read, and when the report is read.
`TrainingInv`: the
time spent passes the budget by no more than the rounding (`WithinBudget`), what may be
evaluated has an adapter behind it (`AdapterIsThere`), and a report that is written or
about to be rests on anchors nobody replaces (`ReportsAreSound`).

**Acceptance, self-correction.** `MetIsEarned`: criteria that count as met are earned, which
is arithmetic on cardinalities: where nothing is counted twice, a name stands for a method.
`CompletedMet`: what completed on them still meets them until a record changes.
`CorrectionInv` follows one correction through its steps: what was read was written by a
run (`CorrectorIs`), the report decided from it is sound (`ReportIsSound`), and state and
ledger lag behind it only as their places allow (`RecordsFollow`). `EditsAre` accounts for
each edit: in the state and in the copy that was read after it, or overwritten by that copy.

**Sweep, stage run.** `SweepInv` says of a sweep's process what its rows prove at each
place (`ProcessIs`), and of the files that each belongs to the attempt of the one before it,
in the order manifest, decision, summary (`FilesFollow`), also while another attempt of a
sweep that was found again is under way. `StageInv` says that the predictions file is a
prefix of the examples whose length the process counted while it predicts, that it is
empty while the run tunes again, that a manifest exists only after the last example,
that ladder, rung and batch stay what `PredictBatch` can use whatever the cache
returned, and that only a run with one plan goes on with the mock backend. That there
is a free inode for a temporary file is a counting lemma (`InodeIsFree`).

**Compositions.** `OpsBehaviours`, `ExecutorsBehaviours` and `ResearchBehaviours`: a behaviour
of an instance's specification is one of each component's, so every theorem above holds
of what the runs explore.

TLC evaluates all assumptions on the runs' instances. They are about the configuration:
counts and limits are natural numbers, scores and thresholds integers, sets of runs,
methods and jobs finite, ladders of batch sizes not empty and positive, and the markers
for a missing value differ from every value.

### Only model-checked

- Liveness under fairness, which is out of the prover's reach: `PassEnds`,
  `EveryCallReturns`, `ExecutorsReturn`, `StartersStop`.
- What a recursive function computes for every input (`Rebuilt`): only how one more line
  changes it is used.
- The four properties of section 4 that the code violates.

## 6. Not modelled

- Deterministic routing rules, approval-gated actions, token and cost accounting,
  dialogue, history and ledgers of the outer loop.
- Provider adapters: one blocking request each, no state. Prompt rendering.
- The mechanistic-localization kernel and kernel reporting: the same start and
  manifest as the modelled kernels around text and numbers.
- Monitor, policy tables, papers, research reports (`self_optimization`,
  `statistical_rigor`, `utility_scorer`, `novelty_refresh`, red-team): functions from
  files to text whose results the loop does not read.
- `experiment_dag`: no module of the runtime uses it.
- Project discovery, templates, command line, contracts, validation harness.

## 7. Plan

1. Scheduler beside an outer loop of the same mission, on the detailed `StateFile`.
2. The mechanistic-localization kernel, once its start is told from the others'.
3. `FilesFollowLifecycle` with an outer loop that shares the files with a second one.
