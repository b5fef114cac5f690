------------------------------ MODULE MCResearch ------------------------------
(***************************************************************************)
(* Instances of what turns runs into research results: the gates in front  *)
(* of a job, the stage runs, sweeps and trainings the jobs consist of, the *)
(* self-correction and the acceptance criteria that judge them, and what   *)
(* they leave behind, the research memory and the package with its         *)
(* release.  They share no state here, so one of them is taken at a time   *)
(* and the others stand still; each meets the others in its actions of     *)
(* the environment (ManifestWritten, RunWrites, RecordExperiment,          *)
(* EditFiles).                                                             *)
(***************************************************************************)
EXTENDS PackageRelease, ResearchMemory, StageRun, PromptSweep, TrainingRun, MCGate,
        SelfCorrection, MissionAcceptance

VARIABLE studied  \* the component of this behaviour

researchVars == <<releaseVars, memoryVars, stageVars, sweepVars, trainingVars, gateVars,
                  correctionVars, acceptanceVars, studied>>

\* What stands still has one initial state; the evidence is missing only where a run asks for it.
ResearchInit ==
    /\ ReleaseInit /\ MemoryInit /\ StageInit /\ SweepInit /\ TrainingInit /\ GateInit
    /\ CorrectionInit /\ AcceptanceInit
    /\ studied \in {"release", "memory", "stage", "sweep", "training", "gate", "correction",
                    "acceptance"}
    /\ studied # "release" => files.missing
    /\ studied # "stage" => Cardinality(startedRuns) = 1
    /\ localized \/ (studied = "stage" /\ startedRuns \cap Dependent # {})
    /\ studied # "sweep" => swept = {"w1"}
    /\ studied # "training" =>
         trainingConfig.kind = "dpo" /\ \A a \in DOMAIN anchors : anchors[a] = Absent
    /\ studied # "gate" => proposal = Gone
    /\ studied # "acceptance" => ~criteria.requested

ResearchNext ==
    /\ UNCHANGED studied
    /\ \/ studied = "release" /\ ReleaseNext
       \/ studied # "release" /\ UNCHANGED releaseVars
    /\ \/ studied = "memory" /\ MemoryNext
       \/ studied # "memory" /\ UNCHANGED memoryVars
    /\ \/ studied = "stage" /\ StageNext
       \/ studied # "stage" /\ UNCHANGED stageVars
    /\ \/ studied = "sweep" /\ SweepNext
       \/ studied # "sweep" /\ UNCHANGED sweepVars
    /\ \/ studied = "training" /\ TrainingNext
       \/ studied # "training" /\ UNCHANGED trainingVars
    /\ \/ studied = "gate" /\ GateNext
       \/ studied # "gate" /\ UNCHANGED gateVars
    /\ \/ studied = "correction" /\ CorrectionNext
       \/ studied # "correction" /\ UNCHANGED correctionVars
    /\ \/ studied = "acceptance" /\ AcceptanceNext
       \/ studied # "acceptance" /\ UNCHANGED acceptanceVars

ResearchSpec == ResearchInit /\ [][ResearchNext]_researchVars

(* The type invariant of the component that moves; the others stand at one *)
(* of their initial states.                                                *)
ResearchTypeOK ==
    /\ studied = "release" => ReleaseTypeOK
    /\ studied = "memory" => MemoryTypeOK
    /\ studied = "stage" => StageTypeOK
    /\ studied = "sweep" => SweepTypeOK
    /\ studied = "training" => TrainingTypeOK
    /\ studied = "gate" => GateTypeOK
    /\ studied = "correction" => CorrectionTypeOK
    /\ studied = "acceptance" => AcceptanceTypeOK

\* What a mission has: the claims of its runs, related manifests, whether one is a follow-up, the critics'
\* ceilings and reasons, findings, and whether a required file is missing.
MissionFile(claims, related, followup, critiques, reasons, findings, missing) ==
    [claims |-> claims, related |-> related, followup |-> followup, critiques |-> critiques,
     reasons |-> reasons, findings |-> findings, missing |-> missing]
MCMissionFiles ==
    {MissionFile([r \in {"r1", "r2"} |-> Exploratory], {}, TRUE, {Replicated}, FALSE, TRUE, FALSE),
     MissionFile([r \in {"r1"} |-> PaperCandidate], {}, FALSE, {ReleaseCandidate}, FALSE, TRUE, FALSE),
     MissionFile([r \in {"r1"} |-> PaperCandidate], {"x1"}, FALSE, {ReleaseCandidate}, FALSE, TRUE, FALSE),
     MissionFile([r \in {"r2"} |-> Replicated], {}, TRUE, {}, FALSE, FALSE, TRUE)}
MCReviewRecords ==
    [satisfied : {TRUE}, signed : {TRUE}, by : {"human"}, roleMatches : {FALSE}]

MCFinding(id, m, k) == [id |-> id, mission |-> m, type |-> "experiment", kind |-> k]
MCFindings ==
    {MCFinding("x1", "m1", "routine"), MCFinding("x2", "m1", "routine"),
     MCFinding("x1", "m1", "failed"), MCFinding("y1", "m2", "promoted")}

\* One run searches two plans; two others with one plan each are started side by side.
MCPlan(backend, bucket) == [backend |-> backend, bucket |-> bucket, tokens |-> 128]
MCStagePlans == [r \in StageRuns |-> IF r = "s1" THEN <<MCPlan("local-transformers", "all"), MCPlan("vllm", "all")>>
                                    ELSE <<MCPlan("local-transformers", "short")>>]
MCLadder == [p \in {MCPlan(b, k) : b \in {"local-transformers", "vllm"}, k \in {"all", "short"}} |->
               IF p.bucket = "all" THEN <<3, 2, 1>> ELSE <<2, 1>>]
MCTogether == {{"s1"}, {"s2", "s3"}}
MCNoLimit == -1
MCSizes == <<2, 1>>

\* Sweeps.
MCVariant(b) == [bucket |-> b]
MCMetrics(score, slices, sig) == [score |-> score, slices |-> slices, signature |-> sig]
MCNoMetrics == MCMetrics(-1, <<>>, "none")
MCSlices(a, b) == [i \in {"hard", "long"} |-> IF i = "hard" THEN a ELSE b]
MCHigher == MCMetrics(24, MCSlices(30, 30), "sig1")
MCFinalMetrics ==
    [d \in Sweeps |-> IF d \in {"w3", "w4"} THEN {MCHigher}
        ELSE {MCHigher, MCMetrics(19, MCSlices(38, 38), "sig1"), MCMetrics(-1, [i \in {"hard"} |-> 30], "sig2")}]
MCSweepBase == [bucket |-> "short", located |-> TRUE, locked |-> FALSE, missing |-> FALSE,
                file |-> MCNoMetrics, numbers |-> -1, starter |-> -1, signature |-> "none",
                eligible |-> {"hard", "long"}, required |-> {},
                variants |-> <<MCVariant("short"), MCVariant("long"), MCVariant("short")>>]
MCSweepConfig ==
    [d \in Sweeps |->
       CASE d = "w1" -> [MCSweepBase EXCEPT !.file = MCMetrics(20, MCSlices(30, 30), "sig1"), !.required = {"hard", "long"}]
         [] d = "w2" -> [MCSweepBase EXCEPT !.numbers = 20, !.signature = "sig2", !.locked = TRUE]
         [] d = "w3" -> [MCSweepBase EXCEPT !.located = FALSE, !.variants = <<MCVariant("short")>>]
         [] d = "w4" -> [MCSweepBase EXCEPT !.starter = 20, !.variants = <<MCVariant("short")>>, !.required = {"long"}]
         [] d = "w5" -> [MCSweepBase EXCEPT !.missing = TRUE, !.variants = <<MCVariant("long"), MCVariant("short")>>]
         [] OTHER -> [MCSweepBase EXCEPT !.variants = <<MCVariant("long")>>]]
MCSwept == {{"w1"}, {"w2"}, {"w3", "w4"}, {"w5"}, {"w6"}}
MCAttempts == [s \in MCSwept |-> IF Cardinality(s) = 1 THEN 4 ELSE 2]
MCDev == {<<20, 21>>, <<24, 20>>}
MCRegr == -2
MCNoScore == -1

\* Trainings.
MCTrainingBase == [kind |-> "lora", gpus |-> 1, tooLong |-> FALSE, budget |-> 2, trainLimit |-> 2, evalLimit |-> 3,
                   intervention |-> TRUE, wrapped |-> TRUE, higher |-> TRUE, guard |-> "loss"]
MCTrainingConfigs ==
    {MCTrainingBase, [MCTrainingBase EXCEPT !.higher = FALSE, !.guard = "speed", !.trainLimit = 1, !.wrapped = FALSE],
     [MCTrainingBase EXCEPT !.kind = "dpo"], [MCTrainingBase EXCEPT !.gpus = 2]}
MCScores(s, g) == [score |-> s, guard |-> g]
MCAnchors == {MCScores(5, 3), MCScores(6, NoMetric)}
MCAdapted == {MCScores(6, 3), MCScores(7, 5), MCScores(NoMetric, 3), Unreadable}

\* Self-correction.
MCKindOf == [r \in ExperimentRuns |-> IF r = "e3" THEN "mechanistic-localization" ELSE "baseline-eval"]
MCResult == [status |-> "completed", accuracy |-> 60, count |-> 20, unstable |-> FALSE, familyCollapsed |-> FALSE,
             prepOnly |-> FALSE, lacksPrerequisite |-> FALSE]
MCPrepared == [MCResult EXCEPT !.status = "prepared", !.accuracy = NoAccuracy, !.prepOnly = TRUE]
MCResults == [r \in ExperimentRuns |->
    CASE r = "e1" -> {MCResult, [MCResult EXCEPT !.accuracy = 0], [MCResult EXCEPT !.status = "failed", !.unstable = TRUE]}
      [] r = "e2" -> {MCResult, [MCResult EXCEPT !.accuracy = 20, !.familyCollapsed = TRUE], [MCResult EXCEPT !.status = "failed", !.count = 4]}
      [] r = "e3" -> {MCPrepared, [MCPrepared EXCEPT !.lacksPrerequisite = TRUE]}
      [] OTHER    -> {MCResult}]
MCNoAccuracy == -1

\* Acceptance.
MCNames == [m \in Methods |-> IF m = "m1" THEN {"f"} ELSE {"f", "line"}]
MCLines == {[of |-> "m1", name |-> "f", kinds |-> {"methods"}], [of |-> "m2", name |-> "f", kinds |-> {"methods", "novel"}],
            [of |-> "m2", name |-> "line", kinds |-> {"novel", "text"}]}
MCKinds == [k \in {"methods","novel","text"} |-> IF k = "methods" THEN Methods ELSE {"m1"}]
MCMinimum(a, b, c) == [k \in {"methods","novel","text"} |-> CASE k = "methods" -> a [] k = "novel" -> b [] OTHER -> c]
MCAccept(a, b, c, shown, skipped) ==
    [requested |-> TRUE, gated |-> TRUE, minimum |-> MCMinimum(a, b, c), artifacts |-> shown, logSkipped |-> skipped]
MCCriteria ==
    {MCAccept(2, 1, 0, {}, FALSE), MCAccept(3, 0, 1, {}, FALSE), MCAccept(1, 0, 0, {"leaderboard"}, FALSE),
     MCAccept(0, 0, 0, {}, TRUE), [MCAccept(0, 0, 0, {}, FALSE) EXCEPT !.requested = FALSE, !.gated = FALSE]}
==============================================================================
