------------------------------- MODULE StageRun -------------------------------
(***************************************************************************)
(* Stage runs with recovery (runtime_recovery.run_stage_with_recovery):    *)
(* several runs of one kernel, each in a directory of its own, that share  *)
(* the autotune cache.  A run builds its predictor, searches the execution *)
(* plans, tunes its batch size against the cache, predicts example by      *)
(* example down the ladder of batch sizes and writes its manifest; a run   *)
(* whose backend cannot be built is repeated with the mock backend.        *)
(***************************************************************************)
EXTENDS Integers, Sequences, FiniteSets, SequencesExt, StageRecovery

CONSTANTS
    StageRuns,              \* stage runs
    Together,         \* the sets of runs that may be started side by side
    SourceSizes,      \* number of examples in each dataset file, a sequence
    ExampleLimit,     \* dataset.limit_examples, or NoLimit
    NoLimit,
    StagePlans,            \* run -> its execution plans, the base plan first
    Ladder,           \* plan -> its batch_probe_order
    Dependent,        \* runs that need localization evidence (causal-intervention)
    MaxStageCrashes

VARIABLES
    stageRun,            \* run -> what its process knows
    predictions,      \* run -> predictions.jsonl
    stageManifest,    \* run -> run_manifest.json or study_manifest.json
    recoveryReport,   \* run -> final_status of recovery-report.json
    tuneFiles,        \* the cache file, its .tmp file and the inodes behind them
    startedRuns,           \* the runs started in this behaviour
    localized,        \* the localization evidence exists
    stageCrashes

stageVars == <<stageRun, predictions, stageManifest, recoveryReport, tuneFiles, startedRuns,
               localized, stageCrashes>>

StageBackends == {"configured", "mock"}
NoManifest == [status |-> "none", backend |-> "none", counted |-> 0]

ASSUME StageAssumption ==
    /\ NoLimit \in Int \ Nat /\ ExampleLimit \in Nat \cup {NoLimit} /\ SourceSizes \in Seq(Nat)
    /\ IsFiniteSet(StageRuns) /\ MaxStageCrashes \in Nat
    /\ \A r \in StageRuns : StagePlans[r] \in Seq(Range(StagePlans[r])) /\ StagePlans[r] # <<>>
    /\ \A s \in Together : s \subseteq StageRuns
    /\ \A r \in StageRuns : \A p \in Range(StagePlans[r]) : Ladder[p] \in Seq(Nat \ {0}) /\ Ladder[p] # <<>>

(* _round_robin_examples: file after file without a limit, else one of     *)
(* each file in turn until the limit is reached.                           *)
RoundRobin(sizes, limit) ==
    LET all == UNION {(1..sizes[f]) \X {f} : f \in DOMAIN sizes}
        before(a, b) == IF limit = NoLimit THEN a[2] < b[2] \/ (a[2] = b[2] /\ a[1] < b[1])
                        ELSE a[1] < b[1] \/ (a[1] = b[1] /\ a[2] < b[2])
        taken == IF limit = NoLimit \/ Cardinality(all) <= limit THEN Cardinality(all) ELSE limit
    IN  [k \in 1..taken |-> CHOOSE x \in all : Cardinality({y \in all : before(y, x)}) = k - 1]

StageExamples == RoundRobin(SourceSizes, ExampleLimit)

(* _autotune_cache_key: the plan and its candidates, sorted. *)
TuneKey(plan, ladder) == <<plan, Range(ladder)>>

(* The ladder once a batch is selected: it, then the smaller candidates in *)
(* their old order.                                                        *)
SmallerRungs(b, ladder) == {i \in DOMAIN ladder : ladder[i] < b}
RungsAt(ladder, kept) ==
    [k \in 1..Cardinality(kept) |-> ladder[CHOOSE i \in kept : Cardinality({j \in kept : j <= i}) = k]]
LadderFrom(b, ladder) == <<b>> \o RungsAt(ladder, SmallerRungs(b, ladder))

(* _autotune_candidate_rank, with the measured speed left open: may plan p *)
(* at batch b replace plan q at batch c as the best one?                   *)
SameAs(p, base, field) == IF p[field] = base[field] THEN 1 ELSE 0
MayOutrank(p, b, q, c, base) ==
    LET m == SameAs(p, base, "tokens") - SameAs(q, base, "tokens")
        k == SameAs(p, base, "bucket") - SameAs(q, base, "bucket")
    IN  m > 0 \/ (m = 0 /\ (k > 0 \/ (k = 0 /\ b >= c)))
MustOutrank(p, b, q, c, base) == ~MayOutrank(q, c, p, b, base)

IdleStage == [pc |-> "idle", attempt |-> 0, backend |-> "configured", base |-> FALSE,
              plan |-> 0, tuning |-> "none", best |-> 0, ladder |-> <<>>, rung |-> 1, batch |-> 0,
              got |-> 0, counted |-> 0, mine |-> {}, inode |-> 0]

StageInit ==
    /\ stageRun = [r \in StageRuns |-> IdleStage]
    /\ predictions = [r \in StageRuns |-> <<>>]
    /\ stageManifest = [r \in StageRuns |-> NoManifest]
    /\ recoveryReport = [r \in StageRuns |-> "none"]
    /\ tuneFiles = [cache |-> 0, temp |-> 0, data |-> <<>>]
    /\ startedRuns \in Together
    /\ localized \in BOOLEAN
    /\ stageCrashes = 0

StageTypeOK ==
    /\ \A r \in StageRuns : stageRun[r].backend \in StageBackends /\ stageRun[r].attempt \in 0..MaxAttempts + 1
    /\ \A r \in StageRuns : stageManifest[r].status \in {"none", "completed", "blocked"}
    /\ \A r \in StageRuns : recoveryReport[r] \in {"none", "resumed", "completed", "blocked", "failed"}
    /\ tuneFiles.cache \in 0..Len(tuneFiles.data) /\ tuneFiles.temp \in 0..Len(tuneFiles.data)
    /\ startedRuns \in Together /\ localized \in BOOLEAN

AtStage(r, pc) == stageRun[r].pc = pc
SetStage(r, rec) == stageRun' = [stageRun EXCEPT ![r] = rec]

(* The end of run_stage_with_recovery: attempts and report are written     *)
(* together, after the last attempt.                                       *)
ReportRecovery(r, status) ==
    /\ recoveryReport' = [recoveryReport EXCEPT ![r] = status]
    /\ SetStage(r, IdleStage)

ResumeStage(r) ==
    /\ r \in startedRuns /\ AtStage(r, "idle") /\ stageManifest[r].status # "none"
    /\ ReportRecovery(r, "resumed")
    /\ UNCHANGED <<predictions, stageManifest, tuneFiles, startedRuns, localized, stageCrashes>>

(* Each attempt loads its own configuration; only the backend survives.   *)
StageAttempt(n, backend) ==
    [IdleStage EXCEPT !.pc = "build", !.attempt = n, !.backend = backend]

StartStage(r) ==
    /\ r \in startedRuns /\ AtStage(r, "idle") /\ stageManifest[r].status = "none"
    /\ SetStage(r, StageAttempt(1, "configured"))
    /\ UNCHANGED <<predictions, stageManifest, recoveryReport, tuneFiles>>
    /\ UNCHANGED <<startedRuns, localized, stageCrashes>>

(* A failed attempt: the next one, a report, or an exception that leaves   *)
(* the recovery without a report.                                          *)
RaiseStage(r, e) ==
    /\ LET next == AfterFailure(stageRun[r].attempt, e) IN
       \/ next = "escapes" /\ SetStage(r, IdleStage) /\ UNCHANGED recoveryReport
       \/ next = "failed" /\ ReportRecovery(r, "failed")
       \/ /\ next = "again" /\ SetStage(r, StageAttempt(stageRun[r].attempt + 1, "mock"))
          /\ UNCHANGED recoveryReport
    /\ UNCHANGED <<stageManifest, startedRuns, localized, stageCrashes>>

(* causal-intervention without localization evidence: a blocked manifest *)
BlockStage(r) ==
    /\ AtStage(r, "build") /\ r \in Dependent /\ ~localized
    /\ stageManifest' = [stageManifest EXCEPT ![r] = [NoManifest EXCEPT !.status = "blocked"]]
    /\ ReportRecovery(r, "blocked")
    /\ UNCHANGED <<predictions, tuneFiles, startedRuns, localized, stageCrashes>>

SetupFails(r) ==
    /\ AtStage(r, "build") /\ ~(r \in Dependent /\ ~localized)
    /\ \E e \in {"missing-artifact", "unexpected-error", "config-error"} : RaiseStage(r, e)
    /\ UNCHANGED <<predictions, tuneFiles>>

(* Plan number i is taken up: its predictor starts at the top of its ladder *)
WithPlan(s, plans, i) ==
    [s EXCEPT !.plan = i, !.ladder = Ladder[plans[i]], !.rung = 1, !.batch = Ladder[plans[i]][1]]

\* Mutant: the file is opened for appending.
PredictionsAppended(r) == UNCHANGED predictions

(* _run_predictions opens the predictions file before it tunes again *)
PredictionsOpened(r) == predictions' = [predictions EXCEPT ![r] = <<>>]

StartsPredicting(r, s) ==
    /\ PredictionsOpened(r)
    /\ SetStage(r, [s EXCEPT !.tuning = "run", !.best = 0, !.base = FALSE,
                        !.pc = IF s.backend = "mock" \/ Len(s.ladder) <= 1 THEN "predict" ELSE "lookup"])

BuildBase(r) ==
    /\ AtStage(r, "build") /\ ~(r \in Dependent /\ ~localized)
    /\ \/ /\ stageRun[r].backend = "mock" \/ Len(StagePlans[r]) = 1
          /\ StartsPredicting(r, WithPlan(stageRun[r], StagePlans[r], 1))
       \/ /\ stageRun[r].backend # "mock" /\ Len(StagePlans[r]) > 1
          /\ \E built \in BOOLEAN :
               SetStage(r, [WithPlan(stageRun[r], StagePlans[r], 1) EXCEPT
                               !.base = built, !.tuning = "search", !.pc = "candidate"])
          /\ UNCHANGED predictions
    /\ UNCHANGED <<stageManifest, recoveryReport, tuneFiles, startedRuns, localized, stageCrashes>>

(* A single plan that cannot be built: "Unable to initialize backend",     *)
(* whatever its constructor raised.                                        *)
BuildFails(r) ==
    /\ AtStage(r, "build") /\ ~(r \in Dependent /\ ~localized)
    /\ stageRun[r].backend # "mock" /\ Len(StagePlans[r]) = 1
    /\ RaiseStage(r, "unsupported-backend")
    /\ UNCHANGED <<predictions, tuneFiles>>

(* The next plan of the search, or its end.  best counts from 1; 0 is none *)
NextCandidate(s, plans) ==
    IF s.plan < Len(plans) THEN [WithPlan(s, plans, s.plan + 1) EXCEPT !.pc = "candidate"]
    ELSE [s EXCEPT !.pc = "chosen"]

BuildCandidate(r) ==
    /\ AtStage(r, "candidate")
    /\ \/ SetStage(r, NextCandidate(stageRun[r], StagePlans[r]))             \* the build raises: recorded, the search goes on
       \/ SetStage(r, [stageRun[r] EXCEPT !.pc = IF Len(stageRun[r].ladder) > 1 THEN "lookup" ELSE "rank"])
    /\ UNCHANGED <<predictions, stageManifest, recoveryReport, tuneFiles>>
    /\ UNCHANGED <<startedRuns, localized, stageCrashes>>

(* _load_autotune_cache: a missing file is an empty cache *)
WholeCache(entries) == [torn |-> FALSE, entries |-> entries]
TornCache == [torn |-> TRUE, entries |-> {}]
CacheContent == IF tuneFiles.cache = 0 THEN WholeCache({}) ELSE tuneFiles.data[tuneFiles.cache]
CacheTorn == CacheContent.torn

(* An exception while a plan is tuned: the search records it, the          *)
(* prediction loop passes it on to the recovery.                           *)
TuneFails(r, e) ==
    \/ /\ stageRun[r].tuning = "search"
       /\ SetStage(r, NextCandidate(stageRun[r], StagePlans[r]))
       /\ UNCHANGED <<recoveryReport, stageManifest, startedRuns, localized, stageCrashes>>
    \/ stageRun[r].tuning = "run" /\ RaiseStage(r, e)

WithBatch(s, b) == [s EXCEPT !.batch = b, !.ladder = LadderFrom(b, s.ladder), !.rung = 1]
Tuned(s) == [s EXCEPT !.pc = IF s.tuning = "search" THEN "rank" ELSE "predict"]

LookUp(r) ==
    /\ AtStage(r, "lookup")
    /\ LET s == stageRun[r]
           hits == {b \in Range(s.ladder) : <<TuneKey(StagePlans[r][s.plan], s.ladder), b>> \in CacheContent.entries}
       IN  \/ CacheTorn /\ TuneFails(r, "unexpected-error")
           \/ /\ ~CacheTorn
              /\ SetStage(r, IF hits # {} THEN Tuned(WithBatch(s, CHOOSE b \in hits : TRUE))
                             ELSE [s EXCEPT !.pc = "probe"])
              /\ UNCHANGED <<recoveryReport, stageManifest, startedRuns, localized, stageCrashes>>
    /\ UNCHANGED <<predictions, tuneFiles>>

(* Every candidate is tried; the largest that ran within the headroom is   *)
(* selected.  None: the plan has failed and the run keeps its first rung.  *)
ProbeBatch(r) ==
    /\ AtStage(r, "probe")
    /\ LET s == stageRun[r] IN
       \/ \E b \in Range(s.ladder) :
            \/ /\ ~CacheTorn
               /\ LET key == TuneKey(StagePlans[r][s.plan], s.ladder) IN
                  SetStage(r, [WithBatch(s, b) EXCEPT !.pc = "open",
                          !.mine = {e \in CacheContent.entries : e[1] # key} \cup {<<key, b>>}])
               /\ UNCHANGED <<recoveryReport, stageManifest, startedRuns, localized, stageCrashes>>
            \/ CacheTorn /\ TuneFails(r, "unexpected-error")
       \/ /\ SetStage(r, IF s.tuning = "search" THEN NextCandidate(s, StagePlans[r]) ELSE [s EXCEPT !.pc = "predict"])
          /\ UNCHANGED <<recoveryReport, stageManifest, startedRuns, localized, stageCrashes>>
       \/ TuneFails(r, "unexpected-error")            \* a probe raises something else than out of memory
    /\ UNCHANGED <<predictions, tuneFiles>>

(* _write_autotune_cache_entry: the .tmp file has one name for all runs *)
HeldInodes == {stageRun[r].inode : r \in StageRuns} \cup {tuneFiles.cache, tuneFiles.temp}
FreeInode == CHOOSE i \in 1..Cardinality(StageRuns) + 2 : i \notin HeldInodes
OpenTemp(r) ==
    /\ AtStage(r, "open")
    /\ LET i == IF tuneFiles.temp # 0 THEN tuneFiles.temp ELSE FreeInode
           data == [k \in 1..Cardinality(StageRuns) + 2 |->
                      IF k # i /\ k \in HeldInodes /\ k \in DOMAIN tuneFiles.data THEN tuneFiles.data[k] ELSE TornCache]
       IN  /\ tuneFiles' = [tuneFiles EXCEPT !.temp = i, !.data = data]
           /\ SetStage(r, [stageRun[r] EXCEPT !.pc = "fill", !.inode = i])
    /\ UNCHANGED <<predictions, stageManifest, recoveryReport, startedRuns, localized, stageCrashes>>

(* A file another run has filled meanwhile is overwritten from its start;  *)
(* a longer old text leaves its end behind.                                *)
FillTemp(r) ==
    /\ AtStage(r, "fill")
    /\ LET s == stageRun[r] IN
       \E text \in {WholeCache(s.mine), TornCache} :
         /\ text.torn => ~tuneFiles.data[s.inode].torn
         /\ tuneFiles' = [tuneFiles EXCEPT !.data[s.inode] = text]
    /\ SetStage(r, [stageRun[r] EXCEPT !.pc = "replace", !.inode = 0, !.mine = {}])
    /\ UNCHANGED <<predictions, stageManifest, recoveryReport, startedRuns, localized, stageCrashes>>

ReplaceCache(r) ==
    /\ AtStage(r, "replace")
    /\ \/ /\ tuneFiles.temp # 0
          /\ tuneFiles' = [tuneFiles EXCEPT !.cache = tuneFiles.temp, !.temp = 0]
          /\ SetStage(r, Tuned(stageRun[r]))
          /\ UNCHANGED <<recoveryReport, stageManifest, startedRuns, localized, stageCrashes>>
       \/ /\ tuneFiles.temp = 0                       \* another run has moved it: FileNotFoundError
          /\ TuneFails(r, "missing-artifact")
          /\ UNCHANGED tuneFiles
    /\ UNCHANGED predictions

(* Only a plan whose tuning completed is ranked; a single rung is skipped. *)
RankPlan(r) ==
    /\ AtStage(r, "rank")
    /\ LET s == stageRun[r]
           skipped == Len(Ladder[StagePlans[r][s.plan]]) <= 1
           p == StagePlans[r][s.plan]
           kept == NextCandidate(s, StagePlans[r])
           taken == [kept EXCEPT !.best = s.plan, !.got = s.batch]
       IN  \/ skipped /\ SetStage(r, kept)
           \/ /\ ~skipped
              /\ s.best # 0 => MayOutrank(p, s.batch, StagePlans[r][s.best], s.got, StagePlans[r][1])
              /\ SetStage(r, taken)
           \/ /\ ~skipped /\ s.best # 0 /\ ~MustOutrank(p, s.batch, StagePlans[r][s.best], s.got, StagePlans[r][1])
              /\ SetStage(r, kept)
    /\ UNCHANGED <<predictions, stageManifest, recoveryReport, tuneFiles>>
    /\ UNCHANGED <<startedRuns, localized, stageCrashes>>

ChoosePlan(r) ==
    /\ AtStage(r, "chosen")
    /\ LET s == stageRun[r] IN
       \/ /\ s.best # 0
          /\ StartsPredicting(r, [WithBatch(WithPlan(s, StagePlans[r], s.best), s.got) EXCEPT !.got = 0])
          /\ UNCHANGED <<recoveryReport, stageManifest, startedRuns, localized, stageCrashes>>
       \/ /\ s.best = 0 /\ s.base
          /\ StartsPredicting(r, WithPlan(s, StagePlans[r], 1))
          /\ UNCHANGED <<recoveryReport, stageManifest, startedRuns, localized, stageCrashes>>
       \/ /\ s.best = 0 /\ ~s.base                    \* "could not initialize any backend": not a fallback
          /\ RaiseStage(r, "unexpected-error")
          /\ UNCHANGED predictions
    /\ UNCHANGED tuneFiles

(* predict_many, one _predict_batch at a time: the chunk asked for starts  *)
(* after what is in the file; got of it has been predicted.                *)
WrittenExamples(r) == Len(predictions[r])
ChunkSize(r) == LET left == Len(StageExamples) - WrittenExamples(r) IN 
                IF stageRun[r].batch < left THEN stageRun[r].batch ELSE left
AppendPredictions(r, n) ==
    predictions' = [predictions EXCEPT ![r] = @ \o SubSeq(StageExamples, WrittenExamples(r) + 1, WrittenExamples(r) + n)]

PredictBatch(r) ==
    /\ AtStage(r, "predict") /\ WrittenExamples(r) < Len(StageExamples)
    /\ LET s == stageRun[r]
           step == IF s.backend = "mock" THEN ChunkSize(r) ELSE s.ladder[s.rung]
           got == IF s.got + step < ChunkSize(r) THEN s.got + step ELSE ChunkSize(r)
       IN  IF got < ChunkSize(r)
           THEN SetStage(r, [s EXCEPT !.got = got]) /\ UNCHANGED predictions
           ELSE /\ AppendPredictions(r, ChunkSize(r))
                /\ SetStage(r, [s EXCEPT !.got = 0, !.counted = s.counted + ChunkSize(r),
                                    !.batch = IF s.backend = "mock" \/ s.batch < step THEN s.batch ELSE step])
    /\ UNCHANGED <<stageManifest, recoveryReport, tuneFiles, startedRuns, localized, stageCrashes>>

(* Out of memory: the next rung, with what is predicted kept; raised at    *)
(* the last one.                                                           *)
LowerRung(s) == [s EXCEPT !.rung = s.rung + 1]

OutOfMemory(r) ==
    /\ AtStage(r, "predict") /\ WrittenExamples(r) < Len(StageExamples) /\ stageRun[r].backend # "mock"
    /\ \/ /\ stageRun[r].rung < Len(stageRun[r].ladder)
          /\ SetStage(r, LowerRung(stageRun[r]))
          /\ UNCHANGED <<recoveryReport, stageManifest, startedRuns, localized, stageCrashes>>
       \/ stageRun[r].rung = Len(stageRun[r].ladder) /\ RaiseStage(r, "unexpected-error")
    /\ UNCHANGED <<predictions, tuneFiles>>

(* The adapter raises on an output: the records before it are in the file. *)
AdapterRaises(r) ==
    /\ AtStage(r, "predict") /\ WrittenExamples(r) < Len(StageExamples)
    /\ \E n \in 0..ChunkSize(r) - 1 : AppendPredictions(r, n)
    /\ \E e \in {"unexpected-error", "config-error"} : RaiseStage(r, e)
    /\ UNCHANGED tuneFiles

FinishStage(r) ==
    /\ AtStage(r, "predict") /\ WrittenExamples(r) >= Len(StageExamples)
    /\ stageManifest' = [stageManifest EXCEPT ![r] =
          [status |-> "completed", backend |-> stageRun[r].backend, counted |-> stageRun[r].counted]]
    /\ SetStage(r, [stageRun[r] EXCEPT !.pc = "report"])
    /\ UNCHANGED <<predictions, recoveryReport, tuneFiles, startedRuns, localized, stageCrashes>>

ReportStage(r) ==
    /\ AtStage(r, "report")
    /\ ReportRecovery(r, "completed")
    /\ UNCHANGED <<predictions, stageManifest, tuneFiles, startedRuns, localized, stageCrashes>>

MetricsRaise(r) ==
    /\ AtStage(r, "predict") /\ WrittenExamples(r) >= Len(StageExamples)
    /\ \E e \in {"unexpected-error", "config-error"} : RaiseStage(r, e)
    /\ UNCHANGED <<predictions, tuneFiles>>

StageDies(r) ==
    /\ ~AtStage(r, "idle") /\ stageCrashes < MaxStageCrashes
    /\ SetStage(r, IdleStage)
    /\ stageCrashes' = stageCrashes + 1
    /\ UNCHANGED <<predictions, stageManifest, recoveryReport, tuneFiles, startedRuns, localized>>

LocalizeEvidence ==
    /\ ~localized /\ localized' = TRUE
    /\ UNCHANGED <<stageRun, predictions, stageManifest, recoveryReport, tuneFiles, startedRuns, stageCrashes>>

StageStep(r) ==
    \/ BlockStage(r) \/ SetupFails(r) \/ BuildBase(r) \/ BuildFails(r) \/ BuildCandidate(r)
    \/ LookUp(r) \/ ProbeBatch(r) \/ OpenTemp(r) \/ FillTemp(r) \/ ReplaceCache(r) \/ RankPlan(r) \/ ChoosePlan(r)
    \/ PredictBatch(r) \/ OutOfMemory(r) \/ AdapterRaises(r) \/ FinishStage(r) \/ ReportStage(r) \/ MetricsRaise(r)

StageNext ==
    \/ \E r \in StageRuns : ResumeStage(r) \/ StartStage(r) \/ StageStep(r) \/ StageDies(r)
    \/ LocalizeEvidence

StageSpec == StageInit /\ [][StageNext]_stageVars

(* A completed manifest stands beside the predictions of every example,    *)
(* each once and in the order of the dataset, whatever was lowered,        *)
(* raised, crashed or tried before; its count agrees; and the mock         *)
(* backend's results are only there when the configured one could not be   *)
(* built.                                                                  *)
StageResultsHold ==
    \A r \in StageRuns : stageManifest[r].status = "completed" =>
        /\ predictions[r] = StageExamples
        /\ stageManifest[r].counted = Len(StageExamples)
        /\ stageManifest[r].backend = "mock" => Len(StagePlans[r]) = 1
===============================================================================
