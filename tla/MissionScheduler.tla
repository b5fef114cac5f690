--------------------------- MODULE MissionScheduler ---------------------------
(***************************************************************************)
(* The scheduler of several missions (mission_scheduler.py). A cycle reads *)
(* every mission, picks one that nothing suppresses, runs it for a slice   *)
(* of iterations with run_mission, and records what that took.             *)
(*                                                                         *)
(* What it has given each mission is on disk and outlives the process; it  *)
(* is written after a slice only, and taken from the mission's own count   *)
(* of iterations before and after. Missions may also be run by others.     *)
(***************************************************************************)
EXTENDS Naturals, FiniteSets

CONSTANTS
    Missions,       \* 1..Missions, in the order of their ids
    Priority,       \* priority of each
    Budget,         \* mission_budget_iterations of each
    MaxTotal,       \* max_total_iterations
    Slice,          \* slice_iterations
    MaxConsecutive, \* max_consecutive_slices
    Window,         \* starvation_window
    BaseWeight,     \* base_priority_weight
    AgingWeight,    \* aging_weight; fair shares are equal
    RequestPolicy,  \* open_request_policy
    SafetyPolicy,   \* safety_block_policy
    Patience,       \* bound claimed by WaitIsBounded
    MaxSchedulers,  \* bound: times the scheduler is started
    MaxTroubles     \* bound: schedulers lost, and things others do to a mission

Policies == {"continue", "pause-lower-priority", "halt-all"}

ASSUME SchedulerAssumption ==
    /\ Missions \in Nat \ {0}
    /\ Priority \in [1..Missions -> Nat]
    /\ Budget \in [1..Missions -> Nat \ {0}]
    /\ MaxTotal \in Nat \ {0} /\ Slice \in Nat \ {0}
    /\ MaxConsecutive \in Nat \ {0} /\ Window \in Nat \ {0}
    /\ BaseWeight \in Nat \ {0} /\ AgingWeight \in Nat
    /\ RequestPolicy \in Policies /\ SafetyPolicy \in Policies
    /\ Patience \in Nat
    /\ MaxSchedulers \in Nat /\ MaxTroubles \in Nat

Mission == 1..Missions
NoMission == 0
Lifecycle == {"open", "blocked", "failed", "completed"}
Request == {"none", "review", "hard-gate"}

VARIABLES
    stage,      \* per mission: its status; "open" is running or paused
    request,    \* per mission: its open operator request
    iterations, \* per mission: iterations_completed of its runtime
    schedule,   \* scheduler_state.json
    plan,       \* the scheduler's copy of it
    chosen,     \* the mission of this cycle
    before,     \* its iterations when it was chosen
    result,     \* what run_mission returned
    spc,        \* "idle", "choose", "run", "record", "close"
    given,      \* history: iterations run in slices, per mission
    waiting,    \* history: missions that could run when this one was chosen
    waited,     \* history: recorded cycles in a row a mission was one of these
    restarted,  \* history: missions initialised again by others during a slice of theirs
    losses, others, schedulers

missionVars == <<stage, request, iterations>>
cycle == <<chosen, before, result>>
schedVars == <<stage, request, iterations, schedule, plan, chosen, before, result, spc,
               given, waiting, waited, restarted, losses, others, schedulers>>

\* "since" is last_scheduled_cycle. A mission never scheduled has none, which the
\* code reads as it reads cycle 0.
NewSchedule == [cycles |-> 0, dispatched |-> 0, last |-> NoMission, consecutive |-> 0,
                used |-> [m \in Mission |-> 0], since |-> [m \in Mission |-> 0]]

SchedInit ==
    /\ stage = [m \in Mission |-> "open"]
    /\ request = [m \in Mission |-> "none"]
    /\ iterations = [m \in Mission |-> 0]
    /\ schedule = NewSchedule /\ plan = NewSchedule
    /\ chosen = NoMission /\ before = 0 /\ result = ""
    /\ spc = "idle"
    /\ given = [m \in Mission |-> 0]
    /\ waiting = {} /\ waited = [m \in Mission |-> 0] /\ restarted = {}
    /\ losses = 0 /\ others = 0 /\ schedulers = 0

----------------------------------------------------------------------------
(* What the scheduler sees of the missions.                                *)

Done == {"completed", "failed"}
Requesting == {m \in Mission : request[m] # "none"}
SafetyBlocking == {m \in Mission : request[m] = "hard-gate" \/ stage[m] = "failed"}
Halted ==
    \/ Requesting # {} /\ RequestPolicy = "halt-all"
    \/ SafetyBlocking # {} /\ SafetyPolicy = "halt-all"
Below(m, focus, policy) ==
    policy = "pause-lower-priority" /\ \E k \in focus : Priority[m] < Priority[k]

\* suppression_reason.
Suppressed(m) ==
    \/ stage[m] \in Done
    \/ plan.used[m] >= Budget[m]
    \/ request[m] # "none"
    \/ Halted
    \/ Below(m, Requesting, RequestPolicy)
    \/ Below(m, SafetyBlocking, SafetyPolicy)
    \/ stage[m] = "blocked"

Eligible == {m \in Mission : ~Suppressed(m)}

\* wait_cycles.
Wait(m) == IF plan.since[m] = 0 THEN plan.cycles ELSE plan.cycles - plan.since[m] - 1
Effective(m) == Priority[m] * BaseWeight + Wait(m) * AgingWeight

\* After max_consecutive_slices of a mission it is another's turn.
Rotated ==
    IF plan.consecutive >= MaxConsecutive /\ Eligible \ {plan.last} # {}
      THEN Eligible \ {plan.last} ELSE Eligible

\* Mutant: no mission counts as starved.
CandidatesAll == Rotated

Candidates ==
    LET starved == {m \in Rotated : Wait(m) >= Window}
    IN  IF starved # {} THEN starved ELSE Rotated

\* The order of the sort, highest first: effective priority, wait, priority, id.
Before(k, m) ==
    \/ Effective(k) > Effective(m)
    \/ Effective(k) = Effective(m) /\ Wait(k) > Wait(m)
    \/ Effective(k) = Effective(m) /\ Wait(k) = Wait(m) /\ k > m

----------------------------------------------------------------------------
(* A scheduler process.                                                    *)

SchedulerStarts ==
    /\ spc = "idle" /\ schedulers < MaxSchedulers
    /\ schedulers' = schedulers + 1
    /\ plan' = schedule
    /\ spc' = "choose"
    /\ UNCHANGED <<missionVars, schedule, cycle, given, waiting, waited, restarted, losses, others>>

EndCycle == chosen' = NoMission /\ before' = 0 /\ result' = "" /\ waiting' = {}

Choose(m) ==
    /\ spc = "choose" /\ plan.dispatched < MaxTotal
    /\ m \in Candidates /\ \A k \in Candidates \ {m} : Before(m, k)
    /\ chosen' = m /\ before' = iterations[m]
    /\ waiting' = Eligible \ {m}
    /\ spc' = "run"
    /\ UNCHANGED <<missionVars, schedule, plan, result, given, waited, restarted, losses, others,
                   schedulers>>

Close ==
    /\ spc' = "close"
    /\ EndCycle
    /\ UNCHANGED <<missionVars, schedule, plan, given, waited, restarted, losses, others, schedulers>>

\* Mutant: a scheduler with nothing to run waits for a mission.
StopWhenSpent ==
    /\ spc = "choose"
    /\ plan.dispatched >= MaxTotal
    /\ Close

\* Everything is suppressed, or the total is spent.
StopChoosing ==
    /\ spc = "choose"
    /\ Eligible = {} \/ plan.dispatched >= MaxTotal
    /\ Close

\* run_mission with the limit before + Slice, which is absolute.
Limit == before + Slice
Left == IF iterations[chosen] < Limit THEN Limit - iterations[chosen] ELSE 0

Runs(n) ==
    /\ iterations' = [iterations EXCEPT ![chosen] = @ + n]
    /\ given' = [given EXCEPT ![chosen] = @ + n]
Stops(status, ask) ==
    /\ stage' = [stage EXCEPT ![chosen] = status]
    /\ request' = [request EXCEPT ![chosen] = ask]

\* A mission that others have completed meanwhile is left alone, and so is one they
\* have used the slice up for and left blocked or failed; one that used the slice up
\* stays open; any other has run at least once.
SliceReturns ==
    /\ spc = "run"
    /\ \/ /\ stage[chosen] = "completed"
          /\ Runs(0) /\ Stops("completed", "none") /\ result' = "completed"
       \/ /\ stage[chosen] \in {"blocked", "failed"} /\ Left = 0
          /\ Runs(0) /\ Stops(stage[chosen], request[chosen]) /\ result' = stage[chosen]
       \/ /\ stage[chosen] = "open" \/ (stage[chosen] # "completed" /\ Left > 0)
          /\ Runs(Left) /\ Stops("open", "none") /\ result' = "max-iterations"
       \/ /\ stage[chosen] # "completed"
          /\ \E n \in 1..Left : Runs(n)
          /\ \/ Stops("completed", "none") /\ result' = "completed"
             \/ Stops("failed", "review") /\ result' = "failed"
             \/ \E ask \in {"review", "hard-gate"} : Stops("blocked", ask) /\ result' = "blocked"
    /\ spc' = "record"
    /\ UNCHANGED <<schedule, plan, chosen, before, waiting, waited, restarted, losses, others,
                   schedulers>>

Consumed == IF iterations[chosen] > before THEN iterations[chosen] - before ELSE 0

Charged ==
    [cycles |-> plan.cycles + 1, dispatched |-> plan.dispatched + Consumed,
     last |-> chosen,
     consecutive |-> IF plan.last = chosen THEN plan.consecutive + 1 ELSE 1,
     used |-> [plan.used EXCEPT ![chosen] = @ + Consumed],
     since |-> [plan.since EXCEPT ![chosen] = plan.cycles]]

Waits == [m \in Mission |-> IF m \in waiting THEN waited[m] + 1 ELSE 0]

\* Mutant: the state is written when the scheduler returns.
RecordInMemory ==
    /\ spc = "record"
    /\ Consumed > 0 \/ result \in Done
    /\ plan' = Charged
    /\ waited' = Waits
    /\ spc' = "choose" /\ EndCycle
    /\ UNCHANGED <<missionVars, schedule, given, restarted, losses, others, schedulers>>

Record ==
    /\ spc = "record"
    /\ Consumed > 0 \/ result \in Done
    /\ plan' = Charged /\ schedule' = Charged
    /\ waited' = Waits
    /\ spc' = "choose" /\ EndCycle
    /\ UNCHANGED <<missionVars, given, restarted, losses, others, schedulers>>

\* The slice left no trace in the mission's count.
NoProgress ==
    /\ spc = "record"
    /\ Consumed = 0 /\ result \notin Done
    /\ Close

SchedulerReturns ==
    /\ spc = "close"
    /\ schedule' = plan
    /\ spc' = "idle"
    /\ UNCHANGED <<missionVars, plan, cycle, given, waiting, waited, restarted, losses, others,
                   schedulers>>

----------------------------------------------------------------------------
(* The environment.                                                        *)

Lost ==
    /\ losses + others < MaxTroubles
    /\ losses' = losses + 1
    /\ spc' = "idle" /\ EndCycle
    /\ plan' = schedule
    /\ UNCHANGED <<schedule, waited, restarted, others, schedulers>>

\* run_mission raises, or the process dies with it, in the middle of a slice.
SliceBreaks ==
    /\ spc = "run"
    /\ \E n \in 0..Left : Runs(n)
    /\ stage' = [stage EXCEPT ![chosen] = IF @ = "completed" THEN @ ELSE "open"]
    /\ UNCHANGED request
    /\ Lost

SchedulerDies ==
    /\ spc \in {"choose", "record", "close"}
    /\ UNCHANGED <<missionVars, given>>
    /\ Lost

Others(m) ==
    /\ losses + others < MaxTroubles
    /\ others' = others + 1
    /\ UNCHANGED <<schedule, plan, cycle, spc, given, waiting, waited, losses, schedulers>>

\* The mission is run by another process, for as much as a slice.
OthersRun(m) ==
    /\ Others(m)
    /\ stage[m] # "completed"
    /\ \E n \in 1..Slice : iterations' = [iterations EXCEPT ![m] = @ + n]
    /\ UNCHANGED restarted
    /\ \E end \in {<<"open", "none">>, <<"completed", "none">>, <<"failed", "review">>,
                  <<"blocked", "review">>, <<"blocked", "hard-gate">>} :
         /\ stage' = [stage EXCEPT ![m] = end[1]]
         /\ request' = [request EXCEPT ![m] = end[2]]

\* The mission is initialised again, which starts its count anew.
OthersInitialise(m) ==
    /\ Others(m)
    /\ iterations' = [iterations EXCEPT ![m] = 0]
    /\ restarted' = IF m = chosen THEN restarted \cup {m} ELSE restarted
    /\ stage' = [stage EXCEPT ![m] = "open"]
    /\ request' = [request EXCEPT ![m] = "none"]

SchedulerStep ==
    \/ \E m \in Mission : Choose(m)
    \/ StopChoosing
    \/ SliceReturns \/ Record \/ NoProgress
    \/ SchedulerReturns

SchedNext ==
    \/ SchedulerStarts
    \/ SchedulerStep
    \/ SliceBreaks \/ SchedulerDies
    \/ \E m \in Mission : OthersRun(m) \/ OthersInitialise(m)

SchedSpec == SchedInit /\ [][SchedNext]_schedVars
SchedFairSpec == SchedSpec /\ WF_schedVars(SchedulerStep)
----------------------------------------------------------------------------
(* Properties.                                                             *)

Schedule == [cycles : Nat, dispatched : Nat, last : Mission \cup {NoMission}, consecutive : Nat,
             used : [Mission -> Nat], since : [Mission -> Nat]]

\* Every variable holds a value of its type.
SchedTypeOK ==
    /\ stage \in [Mission -> Lifecycle]
    /\ request \in [Mission -> Request]
    /\ iterations \in [Mission -> Nat]
    /\ schedule \in Schedule /\ plan \in Schedule
    /\ chosen \in Mission \cup {NoMission} /\ before \in Nat
    /\ result \in {"", "completed", "failed", "blocked", "max-iterations"}
    /\ spc \in {"idle", "choose", "run", "record", "close"}
    /\ given \in [Mission -> Nat] /\ waiting \in SUBSET Mission /\ waited \in [Mission -> Nat]
    /\ restarted \subseteq Mission /\ losses \in Nat /\ others \in Nat /\ schedulers \in Nat

\* The budget of a mission holds over all schedulers, whoever else runs it: slices
\* give it at most Slice - 1 iterations more than that, and another Slice for each
\* scheduler that was lost with a slice it had not recorded. Only a mission that was
\* initialised again in the middle of a slice, so that its count before the slice no
\* longer stands for anything, may get more.
BudgetsHold ==
    \A m \in Mission \ restarted : given[m] <= Budget[m] + Slice - 1 + Slice * losses

\* From t cycles of waiting on, no mission that was served meanwhile comes first a second
\* time: the window covers a round of all missions, or aging outweighs any priority.
NoOvertaking(t) ==
    /\ t >= Window /\ t >= 2
    /\ \/ t = Window /\ Missions <= Window + 1
       \/ \A k, m \in Mission :
            Priority[k] * BaseWeight < Priority[m] * BaseWeight + t * AgingWeight

\* Then every other mission but the one served last may still come first, once.
EnoughPatience == \E t \in 2..(Patience + 2) : NoOvertaking(t) /\ t + Missions <= Patience + 2

\* A mission that could run waits no longer than Patience recorded cycles, however much
\* lower its priority is.
WaitIsBounded == \A m \in Mission : waited[m] <= Patience
=============================================================================
