--------------------------- MODULE OperationsProofs ---------------------------
(***************************************************************************)
(* Proofs about the components around a mission's passes: the scheduler,   *)
(* for any number of missions, budgets and policies, the operator's        *)
(* triage, for any actions, and, with the proofs about the launching       *)
(* commands and the project runner, their composition.                     *)
(***************************************************************************)
EXTENDS MCOperations, MissionLaunchProofs, ProjectRunnerProofs, FiniteSetTheorems, TLAPS

----------------------------------------------------------------------------
(* The scheduler: types.                                                   *)

LEMMA NewScheduleType == NewSchedule \in Schedule
PROOF
<1>1. [m \in Mission |-> 0] \in [Mission -> Nat]
  OBVIOUS
<1> QED
  BY <1>1 DEF NewSchedule, Schedule, NoMission

\* The parts of the type invariant that arithmetic needs.
LEMMA Numbers ==
    ASSUME SchedTypeOK
    PROVE  /\ before \in Nat /\ losses \in Nat /\ others \in Nat /\ schedulers \in Nat
           /\ iterations \in [Mission -> Nat] /\ given \in [Mission -> Nat]
           /\ waited \in [Mission -> Nat] /\ restarted \subseteq Mission
           /\ plan.used \in [Mission -> Nat] /\ plan.cycles \in Nat
BY DEF SchedTypeOK, Schedule

LEMMA Constants ==
    /\ Slice \in Nat \ {0}
    /\ Budget \in [Mission -> Nat \ {0}]
BY SchedulerAssumption DEF Mission

LEMMA ConsumedType ==
    ASSUME SchedTypeOK, chosen \in Mission
    PROVE  Consumed \in Nat
PROOF
<1>1. iterations[chosen] \in Nat /\ before \in Nat
  BY DEF SchedTypeOK
<1> QED
  BY <1>1 DEF Consumed

LEMMA LeftType ==
    ASSUME SchedTypeOK, chosen \in Mission
    PROVE  Left \in Nat
PROOF
<1>1. iterations[chosen] \in Nat /\ before \in Nat
  BY DEF SchedTypeOK
<1> QED
  BY <1>1, SchedulerAssumption DEF Left, Limit

LEMMA RunsType ==
    ASSUME SchedTypeOK, chosen \in Mission, NEW n \in Nat, Runs(n)
    PROVE  iterations' \in [Mission -> Nat] /\ given' \in [Mission -> Nat]
PROOF
<1>1. iterations \in [Mission -> Nat] /\ given \in [Mission -> Nat]
  BY DEF SchedTypeOK
<1> QED
  BY <1>1 DEF Runs

LEMMA ChargedType ==
    ASSUME SchedTypeOK, chosen \in Mission
    PROVE  Charged \in Schedule
PROOF
<1>1. Consumed \in Nat
  BY ConsumedType
<1>2. /\ plan.cycles \in Nat /\ plan.dispatched \in Nat /\ plan.consecutive \in Nat
      /\ plan.used \in [Mission -> Nat] /\ plan.since \in [Mission -> Nat]
  BY DEF SchedTypeOK, Schedule
<1>3. /\ [plan.used EXCEPT ![chosen] = @ + Consumed] \in [Mission -> Nat]
      /\ [plan.since EXCEPT ![chosen] = plan.cycles] \in [Mission -> Nat]
  BY <1>1, <1>2
<1> QED
  BY <1>1, <1>2, <1>3 DEF Charged, Schedule


\* The parts of the type invariant the environment's actions do not touch.
LEMMA LostType ==
    ASSUME SchedTypeOK, Lost, stage' \in [Mission -> Lifecycle], request' \in [Mission -> Request],
           iterations' \in [Mission -> Nat], given' \in [Mission -> Nat]
    PROVE  SchedTypeOK'
PROOF
<1>1. losses' = losses + 1 /\ losses \in Nat
  BY Numbers DEF Lost
<1>2. losses' \in Nat
  BY <1>1
<1>3. /\ chosen' = NoMission /\ before' = 0 /\ result' = "" /\ waiting' = {}
      /\ spc' = "idle" /\ plan' = schedule /\ UNCHANGED <<schedule, waited, restarted, others, schedulers>>
  BY DEF Lost, EndCycle
<1> HIDE DEF Lost
<1> QED
  BY <1>2, <1>3 DEF SchedTypeOK

LEMMA SliceType ==
    ASSUME SchedTypeOK, chosen \in Mission, SliceReturns
    PROVE  SchedTypeOK'
PROOF
<1>1. Left \in Nat
  BY LeftType
<1>2. PICK n \in Nat : Runs(n)
  BY <1>1 DEF SliceReturns
<1>3. iterations' \in [Mission -> Nat] /\ given' \in [Mission -> Nat]
  BY <1>2, RunsType
<1>4. PICK status \in {"completed", "open", "failed", "blocked"},
           ask \in {"none", "review", "hard-gate"} : Stops(status, ask)
  <2>1. request[chosen] \in {"none", "review", "hard-gate"}
    BY DEF SchedTypeOK, Request
  <2> QED
    BY <2>1 DEF SliceReturns
<1>5. stage' \in [Mission -> Lifecycle] /\ request' \in [Mission -> Request]
  BY <1>4 DEF SchedTypeOK, Stops, Lifecycle, Request
<1>6. result' \in {"completed", "max-iterations", "failed", "blocked"} /\ spc' = "record"
  BY DEF SliceReturns
<1>7. UNCHANGED <<schedule, plan, chosen, before, waiting, waited, restarted, losses, others,
                 schedulers>>
  BY DEF SliceReturns
<1> QED
  BY <1>3, <1>5, <1>6, <1>7 DEF SchedTypeOK

LEMMA SchedulerStepType ==
    ASSUME SchedTypeOK, spc \in {"run", "record"} => chosen \in Mission, SchedulerStep
    PROVE  SchedTypeOK'
PROOF
<1>1. ASSUME NEW m \in Mission, Choose(m)
      PROVE  SchedTypeOK'
  <2>1. iterations[m] \in Nat
    BY Numbers
  <2>2. Eligible \ {m} \in SUBSET Mission
    BY DEF Eligible
  <2> QED
    BY <1>1, <2>1, <2>2 DEF Choose, SchedTypeOK, missionVars
<1>2. ASSUME Close
      PROVE  SchedTypeOK'
  BY <1>2 DEF Close, EndCycle, SchedTypeOK, missionVars
<1>3. CASE SliceReturns
  BY <1>3, SliceType DEF SliceReturns
<1>4. CASE Record
  <2>1. Charged \in Schedule
    BY <1>4, ChargedType DEF Record
  <2>2. Waits \in [Mission -> Nat]
    BY Numbers DEF Waits
  <2> HIDE DEF Charged, Waits
  <2> QED
    BY <1>4, <2>1, <2>2 DEF Record, EndCycle, SchedTypeOK, missionVars
<1>5. CASE SchedulerReturns
  BY <1>5 DEF SchedulerReturns, SchedTypeOK, missionVars, cycle
<1> QED
  BY <1>1, <1>2, <1>3, <1>4, <1>5 DEF SchedulerStep, StopChoosing, NoProgress

LEMMA EnvironmentSchedType ==
    ASSUME SchedTypeOK, spc = "run" => chosen \in Mission,
           \/ SliceBreaks \/ SchedulerDies
           \/ \E m \in Mission : OthersRun(m) \/ OthersInitialise(m)
    PROVE  SchedTypeOK'
PROOF
<1>1. CASE SliceBreaks
  <2>1. PICK n \in 0..Left : Runs(n)
    BY <1>1 DEF SliceBreaks
  <2>2. Left \in Nat
    BY <1>1, LeftType DEF SliceBreaks
  <2>3. iterations' \in [Mission -> Nat] /\ given' \in [Mission -> Nat]
    BY <1>1, <2>1, <2>2, RunsType DEF SliceBreaks
  <2>4. stage' \in [Mission -> Lifecycle] /\ request' \in [Mission -> Request]
    BY <1>1 DEF SliceBreaks, SchedTypeOK, Lifecycle
  <2> QED
    BY <1>1, <2>3, <2>4, LostType DEF SliceBreaks
<1>2. CASE SchedulerDies
  BY <1>2, LostType DEF SchedulerDies, missionVars, SchedTypeOK
<1>3. ASSUME NEW m \in Mission, OthersRun(m) \/ OthersInitialise(m)
      PROVE  SchedTypeOK'
  <2>1. others' \in Nat
    BY <1>3, Numbers DEF OthersRun, OthersInitialise, Others
  <2>2. iterations' \in [Mission -> Nat]
    BY <1>3, Numbers, Constants DEF OthersRun, OthersInitialise
  <2>3. stage' \in [Mission -> Lifecycle] /\ request' \in [Mission -> Request]
    <3>1. PICK status \in {"open", "completed", "failed", "blocked"},
               ask \in {"none", "review", "hard-gate"} :
            /\ stage' = [stage EXCEPT ![m] = status]
            /\ request' = [request EXCEPT ![m] = ask]
      BY <1>3 DEF OthersRun, OthersInitialise
    <3> QED
      BY <3>1 DEF SchedTypeOK, Lifecycle, Request
  <2>4. UNCHANGED <<schedule, plan, chosen, before, result, spc, given, waiting, waited, losses,
                    schedulers>>
    BY <1>3 DEF OthersRun, OthersInitialise, Others, cycle
  <2>5. restarted' \subseteq Mission
    BY <1>3, Numbers DEF OthersRun, OthersInitialise
  <2> QED
    BY <2>1, <2>2, <2>3, <2>4, <2>5 DEF SchedTypeOK
<1> QED
  BY <1>1, <1>2, <1>3

\* A slice is run for a mission, and recorded for it.
ChosenExists == spc \in {"run", "record"} => chosen \in Mission

LEMMA StepSchedType ==
    ASSUME SchedTypeOK, ChosenExists, [SchedNext]_schedVars
    PROVE  SchedTypeOK' /\ ChosenExists'
PROOF
<1>1. CASE UNCHANGED schedVars
  BY <1>1 DEF schedVars, SchedTypeOK, ChosenExists
<1>2. CASE SchedulerStarts
  <2>1. schedulers' \in Nat
    BY <1>2, Numbers DEF SchedulerStarts
  <2>2. /\ plan' = schedule /\ spc' = "choose"
        /\ UNCHANGED <<missionVars, schedule, cycle, given, waiting, waited, restarted, losses, others>>
    BY <1>2 DEF SchedulerStarts
  <2> QED
    BY <2>1, <2>2 DEF SchedTypeOK, ChosenExists, missionVars, cycle
<1>3. CASE SchedulerStep
  <2>1. SchedTypeOK'
    BY <1>3, SchedulerStepType DEF ChosenExists
  <2>2. ChosenExists'
    BY <1>3 DEF SchedulerStep, Choose, StopChoosing, SliceReturns, Record, NoProgress,
                SchedulerReturns, Close, ChosenExists
  <2> QED
    BY <2>1, <2>2
<1>4. CASE SliceBreaks \/ SchedulerDies \/ \E m \in Mission : OthersRun(m) \/ OthersInitialise(m)
  <2>1. SchedTypeOK'
    BY <1>4, EnvironmentSchedType DEF ChosenExists
  <2>2. ChosenExists'
    BY <1>4 DEF SliceBreaks, SchedulerDies, Lost, OthersRun, OthersInitialise, Others, cycle,
                ChosenExists
  <2> QED
    BY <2>1, <2>2
<1> QED
  BY <1>1, <1>2, <1>3, <1>4 DEF SchedNext

LEMMA SchedInvariance == SchedSpec => [](SchedTypeOK /\ ChosenExists)
PROOF
<1>1. SchedInit => SchedTypeOK /\ ChosenExists
  <2> SUFFICES ASSUME SchedInit PROVE SchedTypeOK /\ ChosenExists
    OBVIOUS
  <2>1. /\ stage \in [Mission -> Lifecycle] /\ request \in [Mission -> Request]
        /\ iterations \in [Mission -> Nat] /\ given \in [Mission -> Nat]
        /\ waited \in [Mission -> Nat]
    BY DEF SchedInit, Lifecycle, Request
  <2>2. schedule \in Schedule /\ plan \in Schedule
    BY NewScheduleType DEF SchedInit
  <2> QED
    BY <2>1, <2>2 DEF SchedInit, SchedTypeOK, ChosenExists
<1>2. SchedTypeOK /\ ChosenExists /\ [SchedNext]_schedVars => SchedTypeOK' /\ ChosenExists'
  BY StepSchedType
<1> QED
  BY <1>1, <1>2, PTL DEF SchedSpec

\* Whatever is lost or done by others, the scheduler's file and its copy stay well typed.
THEOREM SchedTypeCorrect == SchedSpec => []SchedTypeOK
PROOF
<1> QED
  BY SchedInvariance, PTL

----------------------------------------------------------------------------
(* The scheduler: budgets.                                                 *)

\* The mission has a slice that is not recorded yet.
InSlice(m) == spc \in {"run", "record"} /\ m = chosen
Unrecorded(m) == spc = "record" /\ m = chosen

\* Iterations that a lost scheduler may have run for a mission without a record.
Allowance == Slice * losses

\* A mission that nobody initialised again during a slice: it had budget left when it
\* was chosen and its count has only grown since; what slices gave it is charged to
\* it, is about to be charged (with what others ran meanwhile), or was lost.
Kept(m) ==
    /\ InSlice(m) => plan.used[m] < Budget[m] /\ before <= iterations[m]
    /\ given[m] <= plan.used[m] + Allowance + (IF Unrecorded(m) THEN Slice ELSE 0)
    /\ Unrecorded(m) => given[m] <= plan.used[m] + Allowance + (iterations[m] - before)
    /\ given[m] <= Budget[m] + Slice - 1 + Allowance

\* The inductive invariant behind BudgetsHold: the scheduler's copy is what its file
\* says, and every such mission is within what was charged.
BudgetInv ==
    /\ plan = schedule
    /\ \A m \in Mission \ restarted : Kept(m)

LEMMA AllowanceType ==
    ASSUME SchedTypeOK
    PROVE  Allowance \in Nat
BY Numbers, Constants DEF Allowance

LEMMA MissionNumbers ==
    ASSUME SchedTypeOK, NEW m \in Mission
    PROVE  /\ plan.used[m] \in Nat /\ given[m] \in Nat /\ iterations[m] \in Nat /\ before \in Nat
           /\ Budget[m] \in Nat \ {0} /\ Slice \in Nat \ {0} /\ Allowance \in Nat
BY Numbers, Constants, AllowanceType

LEMMA BudgetInit == SchedInit => BudgetInv
PROOF
<1> SUFFICES ASSUME SchedInit PROVE BudgetInv
  OBVIOUS
<1>1. \A m \in Mission : plan.used[m] = 0 /\ given[m] = 0 /\ Budget[m] \in Nat \ {0}
  BY Constants DEF SchedInit, NewSchedule
<1>2. losses = 0 /\ spc = "idle" /\ plan = schedule
  BY DEF SchedInit
<1>3. Allowance = 0
  BY <1>2, Constants DEF Allowance
<1> QED
  BY <1>1, <1>2, <1>3, Constants DEF BudgetInv, Kept, InSlice, Unrecorded

\* A step after which no slice is open, and which runs and charges nothing.
LEMMA QuietBudget ==
    ASSUME SchedTypeOK, BudgetInv, UNCHANGED <<iterations, given, losses, restarted>>,
           plan' = plan, schedule' = plan, spc' \notin {"run", "record"},
           spc = "record" => Consumed = 0
    PROVE  BudgetInv'
PROOF
<1>1. ASSUME NEW m \in Mission \ restarted
      PROVE  Kept(m)'
  <2>1. Kept(m)
    BY DEF BudgetInv
  <2>2. given[m] <= plan.used[m] + Allowance
    <3>1. CASE Unrecorded(m)
      <4>1. iterations[m] = before
        BY <2>1, <3>1, MissionNumbers DEF Kept, Unrecorded, InSlice, Consumed
      <4> QED
        BY <2>1, <3>1, <4>1, MissionNumbers DEF Kept
    <3>2. CASE ~Unrecorded(m)
      BY <2>1, <3>2, MissionNumbers DEF Kept
    <3> QED
      BY <3>1, <3>2
  <2>3. ~InSlice(m)' /\ ~Unrecorded(m)' /\ Allowance' = Allowance
    BY DEF InSlice, Unrecorded, Allowance
  <2> QED
    BY <2>1, <2>2, <2>3, MissionNumbers DEF Kept
<1> QED
  BY <1>1 DEF BudgetInv

LEMMA ChooseBudget ==
    ASSUME SchedTypeOK, BudgetInv, NEW c \in Mission, Choose(c)
    PROVE  BudgetInv'
PROOF
<1>1. /\ chosen' = c /\ before' = iterations[c] /\ spc = "choose" /\ spc' = "run"
      /\ UNCHANGED <<iterations, plan, schedule, given, losses, restarted>>
  BY DEF Choose, missionVars
<1>2. c \in Eligible
  BY DEF Choose, Candidates, Rotated
<1>3. plan.used[c] < Budget[c]
  BY <1>2, MissionNumbers DEF Eligible, Suppressed
<1>4. ASSUME NEW m \in Mission \ restarted
      PROVE  Kept(m)'
  <2>1. Kept(m) /\ ~Unrecorded(m) /\ ~Unrecorded(m)' /\ Allowance' = Allowance
    BY <1>1 DEF BudgetInv, Unrecorded, Allowance
  <2>2. InSlice(m)' => plan.used[m] < Budget[m] /\ before' <= iterations[m]
    BY <1>1, <1>3, MissionNumbers DEF InSlice
  <2> QED
    BY <1>1, <2>1, <2>2 DEF Kept
<1> QED
  BY <1>1, <1>4 DEF BudgetInv

\* A slice, whole or broken: a mission in it has budget left and runs no further than
\* Slice beyond its count before.
LEMMA SliceGives ==
    ASSUME SchedTypeOK, ChosenExists, spc = "run", NEW m \in Mission, Kept(m),
           NEW n \in 0..Left, Runs(n)
    PROVE  /\ given'[m] \in Nat /\ iterations'[m] \in Nat
           /\ given'[m] <= plan.used[m] + Allowance + Slice
           /\ m = chosen => /\ before <= iterations'[m]
                            /\ given'[m] <= plan.used[m] + Allowance + (iterations'[m] - before)
                            /\ given'[m] <= Budget[m] - 1 + Allowance + Slice
           /\ m # chosen => given'[m] = given[m] /\ iterations'[m] = iterations[m]
PROOF
<1>1. chosen \in Mission /\ given[m] <= plan.used[m] + Allowance
  BY MissionNumbers DEF ChosenExists, Kept, Unrecorded
<1>2. CASE m = chosen
  <2>1. plan.used[m] < Budget[m] /\ before <= iterations[m]
    BY <1>2 DEF Kept, InSlice
  <2>2. n \in Nat /\ n <= Slice
    <3>1. Left \in Nat
      BY <1>1, LeftType
    <3>2. Left <= Slice
      BY <1>2, <2>1, MissionNumbers DEF Left, Limit
    <3> QED
      BY <3>1, <3>2, MissionNumbers
  <2>3. given'[m] = given[m] + n /\ iterations'[m] = iterations[m] + n
    BY <1>1, <1>2, Numbers DEF Runs
  <2> QED
    BY <1>1, <1>2, <2>1, <2>2, <2>3, MissionNumbers
<1>3. CASE m # chosen
  <2>1. given'[m] = given[m] /\ iterations'[m] = iterations[m]
    BY <1>1, <1>3, Numbers DEF Runs
  <2> QED
    BY <1>1, <1>3, <2>1, MissionNumbers
<1> QED
  BY <1>2, <1>3

LEMMA SliceBudget ==
    ASSUME SchedTypeOK, ChosenExists, BudgetInv, SliceReturns
    PROVE  BudgetInv'
PROOF
<1>1. /\ spc = "run" /\ spc' = "record" /\ chosen \in Mission
      /\ UNCHANGED <<schedule, plan, chosen, before, losses, restarted>>
  BY DEF SliceReturns, ChosenExists
<1>2. PICK n \in 0..Left : Runs(n)
  <2>1. Left \in Nat
    BY <1>1, LeftType
  <2> QED
    BY <2>1 DEF SliceReturns
<1>3. ASSUME NEW m \in Mission \ restarted
      PROVE  Kept(m)'
  <2>1. Kept(m) /\ Allowance' = Allowance
    BY <1>1 DEF BudgetInv, Allowance
  <2>2. /\ given'[m] \in Nat /\ iterations'[m] \in Nat
        /\ given'[m] <= plan.used[m] + Allowance + Slice
        /\ m = chosen => /\ before <= iterations'[m]
                         /\ given'[m] <= plan.used[m] + Allowance + (iterations'[m] - before)
                         /\ given'[m] <= Budget[m] - 1 + Allowance + Slice
        /\ m # chosen => given'[m] = given[m] /\ iterations'[m] = iterations[m]
    BY <1>1, <1>2, <2>1, SliceGives
  <2>3. CASE m = chosen
    <3>1. InSlice(m) /\ Unrecorded(m)'
      BY <1>1, <2>3 DEF InSlice, Unrecorded
    <3> QED
      BY <1>1, <2>1, <2>2, <2>3, <3>1, MissionNumbers DEF Kept
  <2>4. CASE m # chosen
    <3>1. ~InSlice(m)' /\ ~Unrecorded(m)' /\ ~Unrecorded(m)
      BY <1>1, <2>4 DEF InSlice, Unrecorded
    <3> QED
      BY <1>1, <2>1, <2>2, <2>4, <3>1 DEF Kept
  <2> QED
    BY <2>3, <2>4
<1> QED
  BY <1>1, <1>3 DEF BudgetInv

LEMMA RecordBudget ==
    ASSUME SchedTypeOK, ChosenExists, BudgetInv, Record
    PROVE  BudgetInv'
PROOF
<1>1. /\ spc = "record" /\ spc' = "choose" /\ chosen \in Mission
      /\ plan' = Charged /\ schedule' = Charged
      /\ UNCHANGED <<iterations, given, losses, restarted>>
  BY DEF Record, ChosenExists, missionVars
<1>2. plan'.used = [plan.used EXCEPT ![chosen] = @ + Consumed]
  BY <1>1 DEF Charged
<1>3. ASSUME NEW m \in Mission \ restarted
      PROVE  Kept(m)'
  <2>1. /\ Kept(m) /\ Allowance' = Allowance
        /\ ~InSlice(m)' /\ ~Unrecorded(m)'
    BY <1>1 DEF BudgetInv, Allowance, InSlice, Unrecorded
  <2>2. given[m] <= plan'.used[m] + Allowance
    <3>1. CASE m = chosen
      <4>1. Consumed = iterations[m] - before
        BY <1>1, <2>1, <3>1, MissionNumbers DEF Kept, InSlice, Consumed
      <4>2. plan'.used[m] = plan.used[m] + (iterations[m] - before)
        BY <1>2, <3>1, <4>1, Numbers
      <4> QED
        BY <1>1, <2>1, <3>1, <4>2, MissionNumbers DEF Kept, Unrecorded
    <3>2. CASE m # chosen
      <4>1. plan'.used[m] = plan.used[m]
        BY <1>2, <3>2, Numbers
      <4> QED
        BY <2>1, <3>2, <4>1, MissionNumbers DEF Kept, Unrecorded
    <3> QED
      BY <3>1, <3>2
  <2>3. plan'.used[m] \in Nat
    BY <1>1, <1>2, ConsumedType, Numbers
  <2> QED
    BY <1>1, <2>1, <2>2, <2>3, MissionNumbers DEF Kept
<1> QED
  BY <1>1, <1>3 DEF BudgetInv

\* A lost scheduler has run at most one slice that its file does not show.
LEMMA LostBudget ==
    ASSUME SchedTypeOK, ChosenExists, BudgetInv, SliceBreaks \/ SchedulerDies
    PROVE  BudgetInv'
PROOF
<1>1. /\ spc' = "idle" /\ losses' = losses + 1 /\ restarted' = restarted
      /\ plan' = plan /\ schedule' = schedule
  BY DEF SliceBreaks, SchedulerDies, Lost, BudgetInv
<1>2. Allowance' = Allowance + Slice /\ Allowance \in Nat
  BY <1>1, Numbers, Constants, AllowanceType DEF Allowance
<1>3. ASSUME NEW m \in Mission \ restarted
      PROVE  Kept(m)'
  <2>1. Kept(m) /\ ~InSlice(m)' /\ ~Unrecorded(m)'
    BY <1>1 DEF BudgetInv, InSlice, Unrecorded
  <2>2. /\ given'[m] \in Nat
        /\ given'[m] <= plan.used[m] + Allowance + Slice
        /\ given'[m] <= Budget[m] + Slice - 1 + Allowance + Slice
    <3>1. CASE SliceBreaks
      <4>1. spc = "run" /\ \E n \in 0..Left : Runs(n)
        BY <3>1 DEF SliceBreaks
      <4>2. PICK n \in 0..Left : Runs(n)
        BY <4>1
      <4>3. /\ given'[m] \in Nat
            /\ given'[m] <= plan.used[m] + Allowance + Slice
            /\ m = chosen => given'[m] <= Budget[m] - 1 + Allowance + Slice
            /\ m # chosen => given'[m] = given[m]
        BY <2>1, <4>1, <4>2, SliceGives
      <4> QED
        BY <2>1, <4>3, MissionNumbers DEF Kept
    <3>2. CASE SchedulerDies
      <4>1. given' = given
        BY <3>2 DEF SchedulerDies
      <4> QED
        BY <2>1, <4>1, MissionNumbers DEF Kept
    <3> QED
      BY <3>1, <3>2
  <2> QED
    BY <1>1, <1>2, <2>1, <2>2, MissionNumbers DEF Kept
<1> QED
  BY <1>1, <1>3 DEF BudgetInv

\* Others only move the count of a mission: up, or back to zero, which is noted if it
\* happens during a slice.
LEMMA OthersBudget ==
    ASSUME SchedTypeOK, BudgetInv, NEW c \in Mission, OthersRun(c) \/ OthersInitialise(c)
    PROVE  BudgetInv'
PROOF
<1>1. /\ UNCHANGED <<plan, schedule, spc, chosen, before, given, losses>>
      /\ restarted \subseteq restarted'
  BY DEF OthersRun, OthersInitialise, Others, cycle
<1>2. ASSUME NEW m \in Mission \ restarted'
      PROVE  Kept(m)'
  <2>1. Kept(m) /\ Allowance' = Allowance
    BY <1>1 DEF BudgetInv, Allowance
  <2>2. CASE m = chosen
    <3>1. iterations'[m] \in Nat /\ iterations'[m] >= iterations[m]
      BY <2>2, Numbers, Constants DEF OthersRun, OthersInitialise
    <3> QED
      BY <1>1, <2>1, <3>1, MissionNumbers DEF Kept, InSlice, Unrecorded
  <2>3. CASE m # chosen
    BY <1>1, <2>1, <2>3 DEF Kept, InSlice, Unrecorded
  <2> QED
    BY <2>2, <2>3
<1> QED
  BY <1>1, <1>2 DEF BudgetInv

LEMMA StepBudget ==
    ASSUME SchedTypeOK, ChosenExists, BudgetInv, [SchedNext]_schedVars
    PROVE  BudgetInv'
PROOF
<1>1. CASE UNCHANGED schedVars
  BY <1>1 DEF schedVars, BudgetInv, Kept, InSlice, Unrecorded, Allowance
<1>2. CASE SchedulerStarts \/ StopChoosing \/ SchedulerReturns
  BY <1>2, QuietBudget DEF SchedulerStarts, StopChoosing, SchedulerReturns, Close, missionVars,
                           BudgetInv
<1>3. CASE NoProgress
  BY <1>3, QuietBudget DEF NoProgress, Close, missionVars, BudgetInv
<1> QED
  BY <1>1, <1>2, <1>3, ChooseBudget, SliceBudget, RecordBudget, LostBudget, OthersBudget
     DEF SchedNext, SchedulerStep

\* However many schedulers are started and lost, and whoever else runs the missions, no
\* mission is given more than its budget, one slice less one, and a slice per lost
\* scheduler, unless it is initialised again during one of its slices.
THEOREM BudgetsAreKept == SchedSpec => []BudgetsHold
PROOF
<1>1. SchedInit => BudgetInv
  BY BudgetInit
<1>2. SchedTypeOK /\ ChosenExists /\ BudgetInv /\ [SchedNext]_schedVars => BudgetInv'
  BY StepBudget
<1>3. BudgetInv => BudgetsHold
  BY DEF BudgetInv, BudgetsHold, Kept, Allowance
<1> QED
  BY <1>1, <1>2, <1>3, SchedInvariance, PTL DEF SchedSpec

----------------------------------------------------------------------------
(* The scheduler: nobody waits too long.                                   *)

\* The missions that have not been served since m had waited t - 1 cycles.
Unserved(m, t) == {k \in Mission \ {m} : Wait(k) + t > waited[m]}

\* The schedule counts what it should, and a mission that waits was not the last.
WaitsAreCounted ==
    /\ plan = schedule
    /\ \A m \in Mission :
         /\ plan.since[m] = 0 \/ plan.since[m] < plan.cycles
         /\ waited[m] <= Wait(m)
         /\ waited[m] > 0 => plan.last # m

\* The mission of this cycle was chosen over one that is starved as well.
ChoiceStands ==
    spc \in {"run", "record"} =>
        /\ chosen \in Mission /\ chosen \notin waiting
        /\ \A m \in waiting :
             m # plan.last /\ Wait(m) >= Window =>
                 Wait(chosen) >= Window /\ Effective(chosen) >= Effective(m)

\* From t cycles on, each cycle of waiting serves one of the unserved.
RoundsEnd(t) ==
    \A m \in Mission :
        waited[m] >= t => Cardinality(Unserved(m, t)) + waited[m] <= t + Missions - 2

WaitInv(t) == WaitsAreCounted /\ ChoiceStands /\ RoundsEnd(t)

LEMMA WaitNumbers ==
    ASSUME SchedTypeOK
    PROVE  /\ plan.cycles \in Nat /\ plan.since \in [Mission -> Nat]
           /\ waited \in [Mission -> Nat] /\ waiting \in SUBSET Mission
           /\ plan.last \in Mission \cup {NoMission}
BY DEF SchedTypeOK, Schedule

LEMMA SchedulerConstants ==
    /\ Missions \in Nat \ {0} /\ Mission = 1..Missions
    /\ Window \in Nat \ {0} /\ BaseWeight \in Nat \ {0} /\ AgingWeight \in Nat
    /\ Priority \in [Mission -> Nat] /\ Patience \in Nat
BY SchedulerAssumption DEF Mission

LEMMA WaitType ==
    ASSUME SchedTypeOK, WaitsAreCounted, NEW m \in Mission
    PROVE  Wait(m) \in Nat /\ Wait(m) <= plan.cycles
PROOF
<1>1. plan.since[m] \in Nat /\ plan.cycles \in Nat
  BY WaitNumbers
<1>2. plan.since[m] = 0 \/ plan.since[m] < plan.cycles
  BY DEF WaitsAreCounted
<1> QED
  BY <1>1, <1>2 DEF Wait

LEMMA MissionsAreFinite == IsFiniteSet(Mission) /\ Cardinality(Mission) = Missions
PROOF
<1>1. IsFiniteSet(1..Missions) /\ Cardinality(1..Missions) = Missions
  BY FS_Interval, SchedulerConstants
<1> QED
  BY <1>1, SchedulerConstants

LEMMA UnservedType ==
    ASSUME NEW m, NEW t
    PROVE  /\ IsFiniteSet(Unserved(m, t)) /\ Cardinality(Unserved(m, t)) \in Nat
PROOF
<1>1. Unserved(m, t) \in SUBSET Mission
  BY DEF Unserved
<1>2. IsFiniteSet(Unserved(m, t))
  BY <1>1, MissionsAreFinite, FS_Subset
<1> QED
  BY <1>2, FS_CardinalityType

\* What ranks before another by aging has waited nearly as long.
LEMMA AgingDecides ==
    ASSUME NEW x \in Nat, NEW y \in Nat, NEW a \in Nat, NEW t \in Nat,
           NEW v \in Nat, NEW w \in Nat,
           x < y + t * a, x + v * a >= y + w * a
    PROVE  v + t > w
PROOF
<1> SUFFICES ASSUME v + t <= w
             PROVE  FALSE
  OBVIOUS
<1>1. PICK d \in Nat : w = v + t + d
  <2>1. w - (v + t) \in Nat
    OBVIOUS
  <2> QED
    BY <2>1
<1>2. w * a = v * a + t * a + d * a
  BY <1>1
<1>3. d * a \in Nat /\ v * a \in Nat /\ t * a \in Nat /\ w * a \in Nat
  OBVIOUS
<1> QED
  BY <1>2, <1>3

LEMMA ChosenIsUnserved ==
    ASSUME SchedTypeOK, WaitsAreCounted, ChoiceStands, NEW t \in Nat, RoundsEnd(t),
           NoOvertaking(t), spc = "record", NEW m \in waiting, waited[m] >= t
    PROVE  chosen \in Unserved(m, t)
PROOF
<1>1. m \in Mission /\ chosen \in Mission /\ chosen # m
  BY WaitNumbers DEF ChoiceStands
<1>2. /\ t >= Window /\ t >= 2
      /\ waited[m] \in Nat /\ Wait(m) \in Nat /\ Wait(chosen) \in Nat
      /\ waited[m] <= Wait(m)
  BY <1>1, WaitType, WaitNumbers DEF NoOvertaking, WaitsAreCounted
<1>3. m # plan.last /\ Wait(m) >= Window
  BY <1>1, <1>2, SchedulerConstants DEF WaitsAreCounted
<1>4. Wait(chosen) >= Window /\ Effective(chosen) >= Effective(m)
  BY <1>3 DEF ChoiceStands
<1>5. CASE t = Window /\ Missions <= Window + 1
  <2>1. waited[m] <= t + Missions - 2
    BY <1>1, <1>2, UnservedType, SchedulerConstants DEF RoundsEnd
  <2>2. Wait(chosen) + t > waited[m]
    BY <1>2, <1>4, <1>5, <2>1, SchedulerConstants
  <2> QED
    BY <1>1, <2>2 DEF Unserved
<1>6. CASE \A k, n \in Mission :
             Priority[k] * BaseWeight < Priority[n] * BaseWeight + t * AgingWeight
  <2> DEFINE x == Priority[chosen] * BaseWeight
             y == Priority[m] * BaseWeight
  <2>1. x \in Nat /\ y \in Nat /\ AgingWeight \in Nat
    BY <1>1, SchedulerConstants
  <2>2. x < y + t * AgingWeight
    BY <1>1, <1>6
  <2>3. x + Wait(chosen) * AgingWeight >= y + Wait(m) * AgingWeight
    BY <1>4 DEF Effective
  <2> HIDE DEF x, y
  <2>4. Wait(chosen) + t > Wait(m)
    BY <1>2, <2>1, <2>2, <2>3, AgingDecides
  <2>5. Wait(chosen) + t > waited[m]
    BY <1>2, <2>4
  <2> QED
    BY <1>1, <2>5 DEF Unserved
<1> QED
  BY <1>5, <1>6 DEF NoOvertaking

\* What recording a slice does to the waits: the chosen mission starts anew, the others
\* have waited one cycle more.
LEMMA RecordedWaits ==
    ASSUME SchedTypeOK, WaitsAreCounted, chosen \in Mission, Record, NEW m \in Mission
    PROVE  /\ m # chosen => Wait(m)' = Wait(m) + 1
           /\ m = chosen => Wait(m)' = IF plan.cycles = 0 THEN 1 ELSE 0
           /\ plan'.since[m] = 0 \/ plan'.since[m] < plan'.cycles
           /\ plan'.last = chosen
           /\ waited'[m] = IF m \in waiting THEN waited[m] + 1 ELSE 0
PROOF
<1>1. plan.cycles \in Nat /\ plan.since \in [Mission -> Nat]
  BY WaitNumbers
<1>2. /\ plan'.cycles = plan.cycles + 1 /\ plan'.last = chosen
      /\ plan'.since = [plan.since EXCEPT ![chosen] = plan.cycles]
  BY DEF Record, Charged
<1>3. plan.since[m] = 0 \/ plan.since[m] < plan.cycles
  BY DEF WaitsAreCounted
<1>4. waited'[m] = IF m \in waiting THEN waited[m] + 1 ELSE 0
  BY DEF Record, Waits
<1>5. CASE m # chosen
  <2>1. plan'.since[m] = plan.since[m]
    BY <1>1, <1>2, <1>5
  <2>2. Wait(m)' = Wait(m) + 1
    BY <1>1, <1>2, <1>3, <2>1 DEF Wait
  <2> QED
    BY <1>1, <1>2, <1>3, <1>4, <1>5, <2>1, <2>2
<1>6. CASE m = chosen
  <2>1. plan'.since[m] = plan.cycles
    BY <1>1, <1>2, <1>6
  <2> QED
    BY <1>1, <1>2, <1>4, <1>6, <2>1 DEF Wait
<1> QED
  BY <1>5, <1>6

LEMMA RecordRounds ==
    ASSUME SchedTypeOK, WaitsAreCounted, ChoiceStands, NEW t \in Nat, RoundsEnd(t),
           NoOvertaking(t), Record, NEW m \in Mission, waited'[m] >= t
    PROVE  Cardinality(Unserved(m, t)') + waited'[m] <= t + Missions - 2
PROOF
<1>1. chosen \in Mission /\ spc = "record" /\ t >= 2 /\ t >= Window
  BY DEF ChoiceStands, Record, NoOvertaking
<1>2. PICK c \in Mission : c = chosen
  BY <1>1
<1>3. m \in waiting /\ waited'[m] = waited[m] + 1 /\ m # c
  BY <1>1, <1>2, RecordedWaits DEF ChoiceStands
<1>4. waited[m] \in Nat /\ plan.cycles \in Nat /\ Wait(m) \in Nat /\ waited[m] <= Wait(m)
      /\ Wait(m) <= plan.cycles
  BY WaitNumbers, WaitType DEF WaitsAreCounted
<1>5. waited[m] >= t - 1 /\ plan.cycles >= 1
  BY <1>1, <1>3, <1>4
<1>6. Wait(c)' = 0
  BY <1>1, <1>2, <1>4, <1>5, RecordedWaits
<1>7. \A k \in Mission \ {m, c} : Wait(k)' = Wait(k) + 1 /\ Wait(k) \in Nat
  BY <1>1, <1>2, RecordedWaits, WaitType
<1>8. Unserved(m, t)' = {k \in Mission \ {m} : Wait(k)' + t > waited'[m]}
  BY DEF Unserved
<1>9. c \notin Unserved(m, t)'
  BY <1>1, <1>3, <1>4, <1>5, <1>6, <1>8
<1>10. CASE waited[m] >= t
  <2>1. c \in Unserved(m, t)
    BY <1>1, <1>2, <1>3, <1>10, ChosenIsUnserved
  <2>2. Unserved(m, t)' = Unserved(m, t) \ {c}
    <3>1. \A k \in Mission \ {m, c} :
             Wait(k)' + t > waited'[m] <=> Wait(k) + t > waited[m]
      BY <1>3, <1>4, <1>7
    <3> QED
      BY <1>8, <1>9, <3>1 DEF Unserved
  <2>3. Cardinality(Unserved(m, t)') = Cardinality(Unserved(m, t)) - 1
    BY <2>1, <2>2, UnservedType, FS_RemoveElement
  <2>4. Cardinality(Unserved(m, t)) + waited[m] <= t + Missions - 2
    BY <1>10 DEF RoundsEnd
  <2> QED
    BY <1>3, <1>4, <2>3, <2>4, UnservedType, SchedulerConstants
<1>11. CASE waited[m] = t - 1
  <2> DEFINE rest == (Mission \ {m}) \ {c}
  <2>1. IsFiniteSet(Mission \ {m}) /\ Cardinality(Mission \ {m}) = Missions - 1
    BY MissionsAreFinite, FS_RemoveElement
  <2>2. c \in Mission \ {m} /\ Missions - 1 \in Int /\ (Missions - 1) - 1 = Missions - 2
    BY <1>3, SchedulerConstants
  <2>3. IsFiniteSet(rest) /\ Cardinality(rest) = Missions - 2
    BY <2>1, <2>2, FS_RemoveElement, Zenon
  <2>4. Unserved(m, t)' \in SUBSET rest
    BY <1>8, <1>9
  <2>5. Cardinality(Unserved(m, t)') <= Missions - 2
    BY <2>3, <2>4, FS_Subset
  <2>6. Cardinality(Unserved(m, t)') \in Nat
    BY <2>3, <2>4, FS_Subset, FS_CardinalityType
  <2> QED
    BY <1>3, <1>4, <1>11, <2>5, <2>6, SchedulerConstants
<1> QED
  BY <1>1, <1>4, <1>5, <1>10, <1>11

LEMMA RecordWaitInv ==
    ASSUME SchedTypeOK, NEW t \in Nat, WaitInv(t), NoOvertaking(t), Record
    PROVE  WaitInv(t)'
PROOF
<1>1. chosen \in Mission /\ chosen \notin waiting
  BY DEF WaitInv, ChoiceStands, Record
<1>2. plan' = schedule' /\ spc' = "choose"
  BY DEF Record
<1>3. ASSUME NEW m \in Mission
      PROVE  /\ plan'.since[m] = 0 \/ plan'.since[m] < plan'.cycles
             /\ waited'[m] <= Wait(m)'
             /\ waited'[m] > 0 => plan'.last # m
  <2>1. /\ waited[m] \in Nat /\ Wait(m) \in Nat /\ waited[m] <= Wait(m)
    BY WaitNumbers, WaitType DEF WaitInv, WaitsAreCounted
  <2>2. /\ m # chosen => Wait(m)' = Wait(m) + 1
        /\ m = chosen => Wait(m)' = IF plan.cycles = 0 THEN 1 ELSE 0
        /\ plan'.since[m] = 0 \/ plan'.since[m] < plan'.cycles
        /\ plan'.last = chosen
        /\ waited'[m] = IF m \in waiting THEN waited[m] + 1 ELSE 0
    BY <1>1, RecordedWaits DEF WaitInv
  <2> QED
    BY <1>1, <2>1, <2>2
<1>4. WaitsAreCounted'
  BY <1>2, <1>3 DEF WaitsAreCounted
<1>5. ChoiceStands'
  BY <1>2 DEF ChoiceStands
<1>6. RoundsEnd(t)'
  BY RecordRounds DEF RoundsEnd, WaitInv
<1> QED
  BY <1>4, <1>5, <1>6 DEF WaitInv

LEMMA ChooseWaitInv ==
    ASSUME SchedTypeOK, NEW t \in Nat, WaitInv(t), NEW c \in Mission, Choose(c)
    PROVE  WaitInv(t)'
PROOF
<1>1. /\ chosen' = c /\ waiting' = Eligible \ {c}
      /\ UNCHANGED <<plan, schedule, waited>>
      /\ c \in Candidates /\ \A k \in Candidates \ {c} : Before(c, k)
  BY DEF Choose
<1>2. WaitsAreCounted' /\ RoundsEnd(t)'
  BY <1>1 DEF WaitInv, WaitsAreCounted, RoundsEnd, Unserved, Wait
<1>3. ASSUME NEW m \in Eligible \ {c}, m # plan.last, Wait(m) >= Window
      PROVE  Wait(c) >= Window /\ Effective(c) >= Effective(m)
  <2>1. m \in Rotated
    BY <1>3 DEF Rotated
  <2>2. m \in Candidates /\ \A k \in Candidates : Wait(k) >= Window
    BY <1>3, <2>1 DEF Candidates
  <2>3. Before(c, m)
    BY <1>1, <1>3, <2>2
  <2>4. m \in Mission
    BY <1>3 DEF Eligible
  <2>5. /\ Priority[c] \in Nat /\ Priority[m] \in Nat /\ BaseWeight \in Nat
        /\ AgingWeight \in Nat /\ Wait(c) \in Nat /\ Wait(m) \in Nat
    BY <2>4, WaitType, SchedulerConstants DEF WaitInv
  <2>6. /\ Priority[c] * BaseWeight \in Nat /\ Priority[m] * BaseWeight \in Nat
        /\ Wait(c) * AgingWeight \in Nat /\ Wait(m) * AgingWeight \in Nat
    BY <2>5
  <2>7. Effective(c) \in Nat /\ Effective(m) \in Nat
    BY <2>6 DEF Effective
  <2>8. Effective(c) >= Effective(m)
    BY <2>3, <2>7 DEF Before
  <2> QED
    BY <1>1, <2>2, <2>8
<1>4. \A m \in Mission : Wait(m)' = Wait(m) /\ Effective(m)' = Effective(m)
  BY <1>1 DEF Wait, Effective
<1>5. ChoiceStands'
  <2>1. \A m \in Eligible \ {c} : m \in Mission
    BY DEF Eligible
  <2> QED
    BY <1>1, <1>3, <1>4, <2>1 DEF ChoiceStands
<1> QED
  BY <1>2, <1>5 DEF WaitInv

\* Steps that leave schedule and waits alone.
LEMMA QuietWaitInv ==
    ASSUME NEW t, WaitInv(t), UNCHANGED <<schedule, waited>>, plan' \in {plan, schedule},
           \/ UNCHANGED <<chosen, waiting>> /\ (spc' = "record" => spc \in {"run", "record"})
                                           /\ (spc' = "run" => spc = "run")
           \/ spc' \notin {"run", "record"}
    PROVE  WaitInv(t)'
PROOF
<1>1. plan' = plan /\ UNCHANGED <<schedule, waited>>
  BY DEF WaitInv, WaitsAreCounted
<1>2. WaitsAreCounted' /\ RoundsEnd(t)'
  BY <1>1 DEF WaitInv, WaitsAreCounted, RoundsEnd, Unserved, Wait
<1>3. ChoiceStands'
  BY <1>1 DEF WaitInv, ChoiceStands, Wait, Effective
<1> QED
  BY <1>2, <1>3 DEF WaitInv

LEMMA StepWaitInv ==
    ASSUME SchedTypeOK, ChosenExists, NEW t \in Nat, NoOvertaking(t), WaitInv(t),
           [SchedNext]_schedVars
    PROVE  WaitInv(t)'
PROOF
<1>1. CASE UNCHANGED schedVars
  BY <1>1, QuietWaitInv DEF schedVars
<1>2. CASE SchedulerStarts \/ StopChoosing \/ NoProgress
  BY <1>2, QuietWaitInv DEF SchedulerStarts, StopChoosing, NoProgress, Close
<1>3. CASE SliceReturns
  BY <1>3, QuietWaitInv DEF SliceReturns
<1>4. CASE SchedulerReturns
  <2>1. UNCHANGED <<schedule, waited, plan>> /\ spc' = "idle"
    BY <1>4 DEF SchedulerReturns, WaitInv, WaitsAreCounted
  <2> QED
    BY <2>1, QuietWaitInv
<1>5. CASE SliceBreaks \/ SchedulerDies
  BY <1>5, QuietWaitInv DEF SliceBreaks, SchedulerDies, Lost
<1>6. ASSUME NEW m \in Mission, OthersRun(m) \/ OthersInitialise(m)
      PROVE  WaitInv(t)'
  BY <1>6, QuietWaitInv DEF OthersRun, OthersInitialise, Others, cycle
<1>7. CASE Record
  BY <1>7, RecordWaitInv
<1>8. ASSUME NEW m \in Mission, Choose(m)
      PROVE  WaitInv(t)'
  BY <1>8, ChooseWaitInv
<1> QED
  BY <1>1, <1>2, <1>3, <1>4, <1>5, <1>6, <1>7, <1>8 DEF SchedNext, SchedulerStep

LEMMA WaitInvInit ==
    ASSUME SchedInit, NEW t \in Nat, NoOvertaking(t)
    PROVE  WaitInv(t)
PROOF
<1>1. t >= 2
  BY DEF NoOvertaking
<1>2. /\ plan = NewSchedule /\ schedule = NewSchedule /\ waited = [m \in Mission |-> 0]
      /\ spc = "idle"
  BY DEF SchedInit
<1>3. \A m \in Mission : waited[m] = 0 /\ plan.since[m] = 0 /\ plan.cycles = 0
  BY <1>2 DEF NewSchedule
<1>4. WaitsAreCounted
  BY <1>2, <1>3 DEF WaitsAreCounted, Wait
<1>5. ChoiceStands /\ RoundsEnd(t)
  BY <1>1, <1>2, <1>3 DEF ChoiceStands, RoundsEnd
<1> QED
  BY <1>4, <1>5 DEF WaitInv

\* A mission that could run waits no longer than Patience recorded cycles, whatever the
\* priorities, policies, losses and other processes, if Patience covers the cycles until
\* nobody overtakes and one for every other mission but one.
THEOREM WaitsEnd ==
    ASSUME EnoughPatience
    PROVE  SchedSpec => []WaitIsBounded
PROOF
<1>1. PICK t \in 2..(Patience + 2) : NoOvertaking(t) /\ t + Missions <= Patience + 2
  BY DEF EnoughPatience
<1>2. t \in Nat
  BY <1>1, SchedulerConstants
<1>3. SchedInit => WaitInv(t)
  BY <1>1, <1>2, WaitInvInit
<1>4. SchedTypeOK /\ ChosenExists /\ WaitInv(t) /\ [SchedNext]_schedVars => WaitInv(t)'
  BY <1>1, <1>2, StepWaitInv
<1>5. SchedTypeOK /\ WaitInv(t) => WaitIsBounded
  <2> SUFFICES ASSUME SchedTypeOK, WaitInv(t), NEW m \in Mission
               PROVE  waited[m] <= Patience
    BY DEF WaitIsBounded
  <2>1. waited[m] \in Nat
    BY WaitNumbers
  <2>2. CASE waited[m] >= t
    <3>1. Cardinality(Unserved(m, t)) + waited[m] <= t + Missions - 2
      BY <2>2 DEF WaitInv, RoundsEnd
    <3> QED
      BY <1>1, <1>2, <2>1, <3>1, UnservedType, SchedulerConstants
  <2>3. CASE waited[m] < t
    BY <1>1, <1>2, <2>1, <2>3, SchedulerConstants
  <2> QED
    BY <1>2, <2>1, <2>2, <2>3
<1> HIDE DEF WaitInv
<1> QED
  BY <1>3, <1>4, <1>5, SchedInvariance, PTL DEF SchedSpec

----------------------------------------------------------------------------
(* The operator's triage: types.                                           *)

StepStatus == {"absent", "pending", "in_progress", "blocked", "deferred", "completed"}
Requests == [open : BOOLEAN, entries : BOOLEAN, step : Steps \cup {NoStep}]

\* A pass that works on something works on an action of the list or a planner action.
CurExists == opc = "execute" => cur \in Steps

TriageTypes == TriageTypeOK /\ CurExists

LEMMA StagingType ==
    ASSUME NEW r
    PROVE  Staging(r) \in Steps \cup {NoStep}
BY DEF Staging, Steps

LEMMA WaitingType ==
    ASSUME NEW statuses \in [Steps -> StepStatus], NEW s
    PROVE  Waiting(statuses, s) \in [Steps -> StepStatus]
BY DEF Waiting, StepStatus

LEMMA ExecuteTriageType ==
    ASSUME TriageTypes, Completes \/ Blocked \/ SoftGate
    PROVE  TriageTypes'
PROOF
<1>1. does \in [Steps -> StepStatus] /\ onFile \in [Steps -> StepStatus] /\ gateKept \in BOOLEAN
  BY DEF TriageTypes, TriageTypeOK, StepStatus
<1>2. does' \in [Steps -> StepStatus] /\ gateKept' \in BOOLEAN
  <2>1. CASE SoftGate
    <3>1. PICK r : does' = Waiting([does EXCEPT ![cur] = "deferred"], Staging(r))
      BY <2>1 DEF SoftGate
    <3>2. [does EXCEPT ![cur] = "deferred"] \in [Steps -> StepStatus]
      BY <1>1 DEF StepStatus
    <3> QED
      BY <2>1, <3>1, <3>2, WaitingType DEF SoftGate
  <2>2. CASE Completes \/ Blocked
    <3>1. PICK status \in {"completed", "blocked"}, gate \in {"none", "entries", "hard", "failed"} :
             Settle(status, gate)
      BY <2>2 DEF Completes, Blocked, StopsBy
    <3> QED
      BY <1>1, <3>1 DEF Settle, StepStatus
  <2> QED
    BY <2>1, <2>2
<1>3. /\ onFile' \in [Steps -> StepStatus]
      /\ gateOnFile' \in BOOLEAN
  BY <1>1, <1>2
     DEF Completes, Blocked, StopsBy, SoftGate, SaveState, missionFile, TriageTypes, TriageTypeOK
<1>4. opc' \in {"decide", "request"} /\ why' \in {"none", "entries", "hard", "failed"}
  BY DEF Completes, Blocked, StopsBy, SoftGate, TriageTypes, TriageTypeOK
<1>5. UNCHANGED <<policy, cur, answer, operatorRequest, torn, stops, asides, staged>>
  BY DEF Completes, Blocked, StopsBy, SoftGate, Settle
<1> QED
  BY <1>2, <1>3, <1>4, <1>5
     DEF TriageTypes, TriageTypeOK, CurExists, StepStatus, policy, asides

LEMMA PassTriageType ==
    ASSUME TriageTypes, PassStep
    PROVE  TriageTypes'
PROOF
<1> USE DEF TriageTypes
<1>1. CASE PassBegins
  BY <1>1, TriageAssumption DEF PassBegins, TriageTypeOK, CurExists, policy, missionFile, asides
<1>2. ASSUME NEW s \in Steps, DispatchStep(s)
      PROVE  TriageTypes'
  <2>1. does' \in [Steps -> StepStatus]
    BY <1>2 DEF DispatchStep, TriageTypeOK, StepStatus
  <2>2. Closed \in Requests
    BY DEF Closed, Requests
  <2> QED
    BY <1>2, <2>1, <2>2
       DEF DispatchStep, SaveState, TriageTypeOK, CurExists, StepStatus, Requests, policy, asides
<1>3. CASE NothingWaits
  BY <1>3 DEF NothingWaits, TriageTypeOK, CurExists, policy, missionFile, asides
<1>4. CASE Completes \/ Blocked \/ SoftGate
  BY <1>4, ExecuteTriageType
<1>5. CASE BuildRequest
  BY <1>5 DEF BuildRequest, TriageTypeOK, CurExists, policy, missionFile, asides
<1>6. ASSUME NEW r \in Recommended \cup {"failed"}, TriageReturns(r)
      PROVE  TriageTypes'
  <2>1. does' \in [Steps -> StepStatus] /\ staged' \in Steps \cup {NoStep}
    BY <1>6, StagingType, WaitingType DEF TriageReturns, TriageTypeOK, StepStatus
  <2>2. answer' \in Recommended \cup {"none", "failed"}
    BY <1>6 DEF TriageReturns, TriageTypeOK
  <2> QED
    BY <1>6, <2>1, <2>2
       DEF TriageReturns, TriageTypeOK, CurExists, StepStatus, policy, missionFile, asides
<1>7. CASE OpenRequest
  <2>1. operatorRequest' \in Requests
    BY <1>7 DEF OpenRequest, TriageTypeOK, Requests
  <2> QED
    BY <1>7, <2>1
       DEF OpenRequest, TriageTypeOK, CurExists, Requests, policy, missionFile, asides
<1>8. CASE SaveStopped
  BY <1>8 DEF SaveStopped, SaveState, TriageTypeOK, CurExists, policy, asides
<1> QED
  BY <1>1, <1>2, <1>3, <1>4, <1>5, <1>6, <1>7, <1>8 DEF PassStep

LEMMA StepTriageType ==
    ASSUME TriageTypes, [TriageNext]_triageVars
    PROVE  TriageTypes'
PROOF
<1> USE DEF TriageTypes
<1>1. CASE UNCHANGED triageVars
  BY <1>1 DEF triageVars, TriageTypeOK, CurExists
<1>2. CASE PassDies \/ OperatorTriages \/ FeedbackReads
  <2>1. incidents' \in 0..MaxEvents
    BY <1>2, TriageAssumption DEF PassDies, OperatorTriages, FeedbackReads, Event, TriageTypeOK
  <2>2. /\ UNCHANGED <<policy, cur, why, does, gateKept, missionFile, staged, operatorRequest, stops>>
        /\ opc' \in {opc, "off"} /\ torn' \in {torn, TRUE}
        /\ answer' \in Recommended \cup {"failed", answer}
        /\ feedback' \in {feedback, operatorRequest}
    BY <1>2 DEF PassDies, OperatorTriages, FeedbackReads
  <2>3. /\ feedback' \in Requests /\ answer' \in Recommended \cup {"none", "failed"}
        /\ torn' \in BOOLEAN
        /\ opc' \in {"off", "decide", "execute", "request", "triage", "open", "write"}
    BY <2>2 DEF TriageTypeOK, Requests
  <2>4. CurExists'
    BY <2>2 DEF CurExists
  <2> QED
    BY <2>1, <2>2, <2>3, <2>4 DEF TriageTypeOK, Requests, policy, missionFile
<1>3. CASE FeedbackWrites
  <2>1. Closed \in Requests /\ torn' \in BOOLEAN
    BY <1>3 DEF FeedbackWrites, Closed, Requests
  <2> QED
    BY <1>3, <2>1
       DEF FeedbackWrites, TriageTypeOK, CurExists, Requests, policy, missionFile
<1> QED
  BY <1>1, <1>2, <1>3, PassTriageType DEF TriageNext

LEMMA TriageInvariance == TriageSpec => []TriageTypes
PROOF
<1>1. TriageInit => TriageTypes
  <2> SUFFICES ASSUME TriageInit PROVE TriageTypes
    OBVIOUS
  <2>1. does \in [Steps -> StepStatus] /\ onFile = does
    BY DEF TriageInit, StepStatus
  <2>2. Closed \in Requests
    BY DEF Closed, Requests
  <2>3. stops \in 0..MaxStops /\ incidents \in 0..MaxEvents
    BY TriageAssumption DEF TriageInit
  <2> QED
    BY <2>1, <2>2, <2>3
       DEF TriageInit, TriageTypes, TriageTypeOK, CurExists, StepStatus, Requests
<1> QED
  BY <1>1, StepTriageType, PTL DEF TriageSpec

\* Whatever order the pass, its death and the operator's commands come in, the mission's
\* actions, its request and the pass keep their types.
THEOREM TriageTypeCorrect == TriageSpec => []TriageTypeOK
BY TriageInvariance, PTL DEF TriageTypes

----------------------------------------------------------------------------
(* The operator's triage: what a request calls staged.                     *)

\* The step that r calls staged waits in "statuses".
StepWaits(r, statuses) == r.open /\ r.step # NoStep => statuses[r.step] = "pending"

\* The inductive invariant behind StagedStepWaits: only the triage of a blocked queue
\* stages a step, the step waits in the state that is written after its request, and a
\* request another writer put in its place is torn.
StagedInv ==
    /\ opc \in {"decide", "execute", "request", "triage"} => staged = NoStep
    /\ opc = "triage" => why = "entries" /\ ~gateKept
    /\ opc \in {"open", "write"} /\ staged # NoStep =>
         managed /\ why = "entries" /\ ~gateKept /\ does[staged] = "pending"
    /\ opc = "write" /\ ~torn => StepWaits(operatorRequest, does)
    /\ opc = "off" /\ ~torn => StepWaits(operatorRequest, onFile)

LEMMA BuildRequestStaged ==
    ASSUME StagedInv, BuildRequest
    PROVE  StagedInv'
PROOF
<1>1. /\ staged = NoStep /\ opc' \in {"triage", "open"}
      /\ UNCHANGED <<staged, why, gateKept>>
      /\ opc' = "triage" => Triaged
  BY DEF BuildRequest, StagedInv
<1>2. Triaged => why = "entries" /\ ~gateKept
  BY DEF Triaged, Blocker
<1> QED
  BY <1>1, <1>2 DEF StagedInv

LEMMA TriageReturnsStaged ==
    ASSUME TriageTypes, StagedInv, NEW r, TriageReturns(r)
    PROVE  StagedInv'
PROOF
<1>1. /\ opc = "triage" /\ opc' = "open" /\ staged' = Staging(r) /\ does' = Waiting(does, staged')
      /\ UNCHANGED <<managed, why, gateKept>>
  BY DEF TriageReturns, policy
<1>2. why = "entries" /\ ~gateKept
  BY <1>1 DEF StagedInv
<1>3. staged' # NoStep => managed
  BY <1>1 DEF Staging
<1>4. staged' # NoStep => does'[staged'] = "pending"
  <2>1. staged' \in Steps \cup {NoStep} /\ does \in [Steps -> StepStatus]
    BY <1>1, StagingType DEF TriageTypes, TriageTypeOK, StepStatus
  <2> QED
    BY <1>1, <2>1 DEF Waiting
<1> QED
  BY <1>1, <1>2, <1>3, <1>4 DEF StagedInv

LEMMA PassStaged ==
    ASSUME TriageTypes, StagedInv, PassStep
    PROVE  StagedInv'
PROOF
<1>1. CASE PassBegins
  BY <1>1 DEF PassBegins, StagedInv
<1>2. ASSUME NEW s \in Steps, DispatchStep(s)
      PROVE  StagedInv'
  BY <1>2 DEF DispatchStep, StagedInv
<1>3. CASE NothingWaits \/ Completes \/ Blocked \/ SoftGate
  <2>1. opc \in {"decide", "execute"} /\ opc' \in {"decide", "request"} /\ staged' = staged
    BY <1>3 DEF NothingWaits, Completes, Blocked, StopsBy, SoftGate
  <2> QED
    BY <2>1 DEF StagedInv
<1>4. CASE BuildRequest
  BY <1>4, BuildRequestStaged
<1>5. ASSUME NEW r \in Recommended \cup {"failed"}, TriageReturns(r)
      PROVE  StagedInv'
  BY <1>5, TriageReturnsStaged
<1>6. CASE OpenRequest
  <2>1. /\ opc = "open" /\ opc' = "write"
        /\ operatorRequest' = [open |-> TRUE, entries |-> why = "entries", step |-> staged]
        /\ UNCHANGED <<managed, why, does, gateKept, staged>>
    BY <1>6 DEF OpenRequest, policy
  <2>2. StepWaits(operatorRequest, does)'
    BY <2>1 DEF StagedInv, StepWaits
  <2> QED
    BY <2>1, <2>2 DEF StagedInv
<1>7. CASE SaveStopped
  <2>1. /\ opc = "write" /\ opc' = "off" /\ onFile' = does
        /\ UNCHANGED <<operatorRequest, torn>>
    BY <1>7 DEF SaveStopped, SaveState
  <2> QED
    BY <2>1 DEF StagedInv, StepWaits
<1> QED
  BY <1>1, <1>2, <1>3, <1>4, <1>5, <1>6, <1>7 DEF PassStep

LEMMA StepStaged ==
    ASSUME TriageTypes, StagedInv, [TriageNext]_triageVars
    PROVE  StagedInv'
PROOF
<1>1. CASE UNCHANGED triageVars
  BY <1>1 DEF triageVars, StagedInv, StepWaits
<1>2. CASE PassDies
  BY <1>2 DEF PassDies, StagedInv
<1>3. CASE OperatorTriages \/ FeedbackReads
  BY <1>3 DEF OperatorTriages, FeedbackReads, StagedInv, StepWaits, policy, missionFile
<1>4. CASE FeedbackWrites
  <2>1. /\ operatorRequest' = feedback
        /\ torn' = (torn \/ operatorRequest # feedback)
        /\ UNCHANGED <<managed, opc, why, does, gateKept, onFile, staged>>
    BY <1>4 DEF FeedbackWrites, policy, missionFile
  <2>2. ~torn' => ~torn /\ operatorRequest' = operatorRequest
    BY <2>1
  <2> QED
    BY <2>1, <2>2 DEF StagedInv, StepWaits
<1> QED
  BY <1>1, <1>2, <1>3, <1>4, PassStaged DEF TriageNext

\* An open request that was written whole calls a step staged only if that step waits in
\* the mission's file; and no step is staged unless an unattended queue blocked, without a
\* hard gate on record, in managed mode.
THEOREM StagedStepsWait == TriageSpec => []StagedStepWaits
PROOF
<1>1. TriageInit => StagedInv
  BY DEF TriageInit, StagedInv, StepWaits, Closed
<1>2. TriageTypes /\ StagedInv /\ [TriageNext]_triageVars => StagedInv'
  BY StepStaged
<1>3. StagedInv => StagedStepWaits
  BY DEF StagedInv, StagedStepWaits, StepWaits
<1> QED
  BY <1>1, <1>2, <1>3, TriageInvariance, PTL DEF TriageSpec


----------------------------------------------------------------------------
(* The composition: a behaviour of all four is one of each, in which the   *)
(* others' steps are stuttering steps.                                     *)

LEMMA OpsBehaviours == OpsSpec => SchedSpec /\ LaunchSpec /\ RunnerSpec /\ TriageSpec
PROOF
<1>1. OpsInit => SchedInit /\ LaunchInit /\ RunnerInit /\ TriageInit
  BY DEF OpsInit
<1>2. [OpsNext]_opsVars => [SchedNext]_schedVars
  BY DEF OpsNext, opsVars
<1>3. [OpsNext]_opsVars => [LaunchNext]_launchVars
  BY DEF OpsNext, opsVars
<1>4. [OpsNext]_opsVars => [RunnerNext]_runnerVars
  BY DEF OpsNext, opsVars
<1>5. [OpsNext]_opsVars => [TriageNext]_triageVars
  BY DEF OpsNext, opsVars
<1> QED
  BY <1>1, <1>2, <1>3, <1>4, <1>5, PTL
  DEF OpsSpec, SchedSpec, LaunchSpec, RunnerSpec, TriageSpec

\* Everything the scheduler, the launching commands, the runner and the triage keep stays
\* well typed, whichever of them moves.
THEOREM OpsTypeCorrect == OpsSpec => []OpsTypeOK
PROOF
<1>1. SchedTypeOK /\ LaunchTypeOK /\ RunnerTypeOK /\ TriageTypeOK => OpsTypeOK
  BY DEF OpsTypeOK
<1> QED
  BY <1>1, OpsBehaviours, SchedTypeCorrect, LaunchTypes, RunnerTypes, TriageTypeCorrect, PTL
=============================================================================
