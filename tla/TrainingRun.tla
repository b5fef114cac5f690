------------------------------ MODULE TrainingRun ------------------------------
(***************************************************************************)
(* The bounded adaptation training (adaptation_training_runtime) and its   *)
(* metric ratchet: a gate, a training command, a re-evaluation within what *)
(* is left of the time, and a keep or discard decision against the best    *)
(* prior anchor.  Attempts share one runtime root, in which the files of   *)
(* earlier attempts, and processes that outlived them, remain.             *)
(***************************************************************************)
EXTENDS Integers, FiniteSets, FiniteSetsExt

CONSTANTS
    TrainingConfigs,   \* configurations of the training
    AnchorMetrics,     \* what a baseline or intervention metrics file may hold
    AdaptedMetrics,    \* what an evaluation may write
    NoMetric,          \* a metric that is missing
    Absent,            \* a file that is not there
    Unreadable,        \* a file that is no JSON object
    MinImprovement, MaxAllowedRegression,     \* the ratchet's thresholds
    MaxTrainings, MaxTrainingDeaths

VARIABLES
    trainingConfig,
    trainer,           \* what the process knows
    jobs,              \* train_job.json and evaluate_job.json
    anchors,           \* baseline and intervention metrics
    adapter,           \* attempt that wrote the adapter artifact, 0 for none
    evaluation,        \* the evaluation metrics file
    report,            \* adaptation_training_report.json
    comparison,        \* adaptation_training_comparison.json
    outliving,         \* commands that still run after their attempt has gone
    trainings, trainingDeaths

trainingVars == <<trainingConfig, trainer, jobs, anchors, adapter, evaluation, report,
                  comparison, outliving, trainings, trainingDeaths>>

ASSUME TrainingAssumption ==
    /\ \A c \in TrainingConfigs : c.budget \in Nat \ {0} /\ c.trainLimit \in Nat \ {0} /\ c.evalLimit \in Nat \ {0}
    /\ \A m \in AnchorMetrics \cup AdaptedMetrics : m = Unreadable \/ m.score \in Int \cup {NoMetric}
    /\ MinImprovement \in Int /\ MaxAllowedRegression \in Int
    /\ MaxTrainings \in Nat /\ MaxTrainingDeaths \in Nat

Steps == {"train", "evaluate"}
SupportedKinds == {"lora", "sft-lora", "qlora"}
NoReport == [by |-> 0, status |-> "none", decision |-> "none"]
IdleTrainer == [pc |-> "idle", spent |-> 0, ending |-> NoReport]

TrainingInit ==
    /\ trainingConfig \in TrainingConfigs
    /\ trainer = IdleTrainer
    /\ jobs = [s \in Steps |-> [by |-> 0, status |-> "none"]]
    /\ anchors \in [{"baseline", "intervention"} -> AnchorMetrics \cup {Absent}]
    /\ ~trainingConfig.intervention => anchors["intervention"] = Absent
    /\ adapter = 0 /\ evaluation = Absent
    /\ report = NoReport /\ comparison = 0
    /\ outliving = {}
    /\ trainings = 0 /\ trainingDeaths = 0

TrainingTypeOK ==
    /\ trainingConfig \in TrainingConfigs
    /\ trainer.pc \in {"idle", "train", "trained", "evaluate", "evaluated", "report", "comparison"}
    /\ \A s \in Steps : jobs[s].by \in 0..trainings /\ jobs[s].status \in {"none", "running", "completed", "failed"}
    /\ adapter \in 0..trainings /\ comparison \in 0..trainings
    /\ report.by \in 0..trainings /\ report.status \in {"none", "deferred", "failed", "completed"}
    /\ outliving \subseteq Steps \X (1..MaxTrainings)
    /\ trainings \in 0..MaxTrainings /\ trainingDeaths \in 0..MaxTrainingDeaths

KeepTrainingFiles == UNCHANGED <<jobs, adapter, evaluation, report, comparison, outliving>>
KeepTrainingEnv == UNCHANGED <<trainingConfig, anchors, trainings, trainingDeaths>>

(* _gate_event; all three classes are soft gates, so the training is       *)
(* deferred.                                                               *)
TrainingGate(c) ==
    IF c.kind \notin SupportedKinds THEN "executor-mismatch"
    ELSE IF c.gpus # 1 \/ c.tooLong THEN "budget-overrun"
    ELSE IF anchors["baseline"] = Absent \/ (c.intervention /\ anchors["intervention"] = Absent)
    THEN "quality-shortfall" ELSE "none"

(* metric_higher_is_better: by the metric's name, else as the primary one *)
GuardHigher(c) == c.guard # "loss" /\ c.higher

(* build_metric_ratchet_decision.  The best anchor, the baseline if they   *)
(* tie, is the one to improve on and the one whose guardrail counts.       *)
Gain(c, candidate, anchor) == IF c.higher THEN candidate - anchor ELSE anchor - candidate
Scored == {a \in DOMAIN anchors : anchors[a] \notin {Absent, Unreadable} /\ anchors[a].score # NoMetric}
BestAnchor(c) ==
    LET best == {a \in Scored : \A b \in Scored : Gain(c, anchors[a].score, anchors[b].score) >= 0}
    IN  IF "baseline" \in best THEN "baseline" ELSE "intervention"
Regression(c, candidate, anchor) == IF GuardHigher(c) THEN anchor - candidate ELSE candidate - anchor
Ratchet(c, candidate) ==
    LET a == anchors[BestAnchor(c)]
        guarded == c.guard # "none" /\ candidate.guard # NoMetric /\ a.guard # NoMetric
    IN  IF /\ Gain(c, candidate.score, a.score) >= MinImprovement
           /\ guarded => Regression(c, candidate.guard, a.guard) <= MaxAllowedRegression
        THEN "keep" ELSE "discard"

(* The clock counts half seconds.  What is left for the evaluation is      *)
(* counted in whole ones: int(elapsed) rounds down.                        *)
\* Mutant: the evaluation gets the whole budget again.
WholeBudget(c, spent) == c.budget

RemainingBudget(c, spent) == c.budget - spent \div 2

TimeLimit(c, s) ==
    IF s = "train" THEN Min({c.trainLimit, c.budget})
    ELSE Min({c.evalLimit, RemainingBudget(c, trainer.spent)})

(* _result_payload writes the report, and the comparison if there is one;  *)
(* a comparison of an earlier attempt stays.                               *)
EndsWith(status) == [trainer EXCEPT !.pc = "report", !.ending = [NoReport EXCEPT !.by = trainings, !.status = status]]

StartTraining ==
    /\ trainer.pc = "idle" /\ trainings < MaxTrainings
    /\ trainings' = trainings + 1
    /\ LET deferred == TrainingGate(trainingConfig) # "none" IN
       /\ trainer' = [IdleTrainer EXCEPT
             !.pc = IF deferred THEN "report" ELSE "train",
             !.ending = IF deferred THEN [NoReport EXCEPT !.by = trainings + 1, !.status = "deferred"] ELSE NoReport]
       /\ jobs' = IF deferred THEN jobs ELSE [jobs EXCEPT !["train"] = [by |-> trainings + 1, status |-> "running"]]
    /\ UNCHANGED <<trainingConfig, anchors, adapter, evaluation, report, comparison, outliving, trainingDeaths>>

(* What a command may write, whatever its exit status *)
MayWrite(s) ==
    \/ UNCHANGED <<adapter, evaluation>>
    \/ s = "train" /\ adapter' = trainings /\ UNCHANGED evaluation
    \/ /\ s = "evaluate" /\ UNCHANGED adapter
       /\ \E m \in AdaptedMetrics : evaluation' = [by |-> trainings, of |-> adapter, metrics |-> m]

JobEnds(s, status) == jobs' = [jobs EXCEPT ![s] = [by |-> trainings, status |-> status]]

CommandExits(s) ==
    /\ trainer.pc = s
    /\ MayWrite(s)
    /\ \E t \in 0..2 * TimeLimit(trainingConfig, s) - 1, ok \in BOOLEAN :
         /\ JobEnds(s, IF ok THEN "completed" ELSE "failed")
         /\ LET after == [trainer EXCEPT !.spent = @ + t] IN
            trainer' = IF ok THEN [after EXCEPT !.pc = IF s = "train" THEN "trained" ELSE "evaluated"]
                       ELSE [EndsWith("failed") EXCEPT !.spent = after.spent]
    /\ UNCHANGED <<report, comparison, outliving>> /\ KeepTrainingEnv

CommandCannotStart(s) ==
    /\ trainer.pc = s
    /\ JobEnds(s, "failed") /\ trainer' = EndsWith("failed")
    /\ UNCHANGED <<adapter, evaluation, report, comparison, outliving>> /\ KeepTrainingEnv

(* The time limit.  A command wrapped by conda run lives on: only the      *)
(* wrapper is killed.  Output already captured is bytes, which the handler *)
(* cannot add to text: the TypeError leaves the job running, unreported.   *)
CommandTimesOut(s) ==
    /\ trainer.pc = s
    /\ MayWrite(s)
    /\ outliving' = IF trainingConfig.wrapped THEN outliving \cup {<<s, trainings>>} ELSE outliving
    /\ LET spent == trainer.spent + 2 * TimeLimit(trainingConfig, s) IN
       \/ /\ JobEnds(s, "failed")
          /\ trainer' = [EndsWith("failed") EXCEPT !.spent = spent]
       \/ /\ trainer' = IdleTrainer /\ UNCHANGED jobs
    /\ UNCHANGED <<report, comparison>> /\ KeepTrainingEnv

CheckTrained ==
    /\ trainer.pc = "trained"
    /\ LET ready == adapter # 0 /\ RemainingBudget(trainingConfig, trainer.spent) > 0 IN
       /\ trainer' = IF ready THEN [trainer EXCEPT !.pc = "evaluate"] ELSE EndsWith("failed")
       /\ jobs' = IF ready THEN [jobs EXCEPT !["evaluate"] = [by |-> trainings, status |-> "running"]] ELSE jobs
    /\ UNCHANGED <<adapter, evaluation, report, comparison, outliving>> /\ KeepTrainingEnv

(* The metrics files are read outside the handler: one that is no object   *)
(* leaves the call without a report.  A missing primary metric is handled. *)
JudgeAdaptation ==
    /\ trainer.pc = "evaluated"
    /\ LET c == trainingConfig
           unreadable == Unreadable \in {anchors["baseline"], anchors["intervention"], evaluation.metrics}
           incomparable == evaluation.metrics.score = NoMetric \/ "baseline" \notin Scored
       IN  trainer' = IF evaluation = Absent THEN EndsWith("failed")
                      ELSE IF unreadable THEN IdleTrainer
                      ELSE IF incomparable THEN EndsWith("failed")
                      ELSE [trainer EXCEPT !.pc = "report",
                              !.ending = [by |-> trainings, status |-> "completed",
                                          decision |-> Ratchet(c, evaluation.metrics), judged |-> evaluation]]
    /\ KeepTrainingFiles /\ KeepTrainingEnv

WriteReport ==
    /\ trainer.pc = "report"
    /\ report' = trainer.ending
    /\ trainer' = IF trainer.ending.status = "completed" THEN [trainer EXCEPT !.pc = "comparison"] ELSE IdleTrainer
    /\ UNCHANGED <<jobs, adapter, evaluation, comparison, outliving>> /\ KeepTrainingEnv

WriteComparison ==
    /\ trainer.pc = "comparison"
    /\ comparison' = trainings /\ trainer' = IdleTrainer
    /\ UNCHANGED <<jobs, adapter, evaluation, report, outliving>> /\ KeepTrainingEnv

(* The process dies; the command it runs goes on without it. *)
TrainingDies ==
    /\ trainer.pc # "idle" /\ trainingDeaths < MaxTrainingDeaths
    /\ trainingDeaths' = trainingDeaths + 1
    /\ outliving' = IF trainer.pc \in Steps THEN outliving \cup {<<trainer.pc, trainings>>} ELSE outliving
    /\ trainer' = IdleTrainer
    /\ UNCHANGED <<trainingConfig, jobs, anchors, adapter, evaluation, report, comparison, trainings>>

OutlivingWrites(o) ==
    /\ outliving' = outliving \ {o}
    /\ \/ o[1] = "train" /\ adapter' = o[2] /\ UNCHANGED evaluation
       \/ /\ o[1] = "evaluate" /\ UNCHANGED adapter
          /\ \E m \in AdaptedMetrics : evaluation' = [by |-> o[2], of |-> adapter, metrics |-> m]
    /\ UNCHANGED <<trainer, jobs, report, comparison>> /\ KeepTrainingEnv

AnchorArrives(a) ==
    /\ trainer.pc = "idle" /\ anchors[a] = Absent
    /\ a = "intervention" => trainingConfig.intervention
    /\ \E m \in AnchorMetrics : anchors' = [anchors EXCEPT ![a] = m]
    /\ UNCHANGED <<trainingConfig, trainer, jobs, adapter, evaluation, report, comparison,
                   outliving, trainings, trainingDeaths>>

TrainingNext ==
    \/ StartTraining \/ CheckTrained \/ JudgeAdaptation \/ WriteReport \/ WriteComparison \/ TrainingDies
    \/ \E s \in Steps : CommandExits(s) \/ CommandCannotStart(s) \/ CommandTimesOut(s)
    \/ \E o \in outliving : OutlivingWrites(o)
    \/ \E a \in DOMAIN anchors : AnchorArrives(a)

TrainingSpec == TrainingInit /\ [][TrainingNext]_trainingVars

-----------------------------------------------------------------------------
(* A kept adaptation improves on every anchor that has the primary metric, *)
(* and on the guardrail it does not fall behind some anchor that none      *)
(* beats.                                                                  *)
KeepIsEarned(c, m) ==
    /\ \A a \in Scored : Gain(c, m.score, anchors[a].score) >= MinImprovement
    /\ c.guard # "none" /\ m.guard # NoMetric =>
         \E a \in Scored :
            /\ \A b \in Scored : Gain(c, anchors[a].score, anchors[b].score) >= 0
            /\ anchors[a].guard # NoMetric => Regression(c, m.guard, anchors[a].guard) <= MaxAllowedRegression

(* What a completed training promises, whatever dies, times out or writes  *)
(* late: an adaptation is kept only if it is earned; its metrics were      *)
(* taken of an adapter that was there; and training and evaluation         *)
(* together stay within the budget, up to the half second the rounding     *)
(* gives away.                                                             *)
TrainingHolds ==
    /\ report.status = "completed" =>
         /\ report.decision = "keep" => KeepIsEarned(trainingConfig, report.judged.metrics)
         /\ report.judged.of # 0
    /\ trainer.spent <= 2 * trainingConfig.budget + 1
===============================================================================
