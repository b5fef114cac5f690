------------------------------ MODULE PromptSweep ------------------------------
(***************************************************************************)
(* The prompt/decode sweep (kernel_prompt_decode_sweep) under the stage    *)
(* recovery: the variants of a matrix run on the development splits, the   *)
(* best one and the baseline anchor on the final test, and a chain of      *)
(* files ends in a promotion decision.  Sweeps of one runtime root share   *)
(* the reports directory and the crash notes.                              *)
(***************************************************************************)
EXTENDS Integers, Sequences, FiniteSets, SequencesExt, StageRecovery

CONSTANTS
    Sweeps,           \* sweeps, one per selected_direction
    SweepConfig,      \* sweep -> its configuration
    SweptTogether,    \* the sets of sweeps one runtime root may see
    DevScores,        \* what a variant may score: <<primary, holdout>>
    FinalMetrics,     \* sweep -> metrics on the final test: score, slices, signature
    NoScore,          \* a metric that is missing; below every score
    NoSignature,
    GainThreshold, SliceGain, SliceCount, MaxRegression,   \* promotion_rules
    MaxSweepAttempts,     \* sweeps seen together -> attempts
    MaxSweepCrashes

VARIABLES
    sweep,            \* sweep -> what its process knows
    sweepManifest,    \* sweep -> run_manifest.json
    sweepSummary,     \* sweep -> summary.json
    reports,          \* scoreboard, audit and promotion decision, shared
    crashNotes,       \* crash_stability_notes.json, shared
    swept,            \* the sweeps of this behaviour
    sweepAttempts,    \* attempts made so far: each has a number
    sweepCrashes

sweepVars == <<sweep, sweepManifest, sweepSummary, reports, crashNotes, swept,
               sweepAttempts, sweepCrashes>>

IsMetrics(m) == m.score \in Int /\ \A i \in DOMAIN m.slices : m.slices[i] \in Int

ASSUME SweepAssumption ==
    /\ {NoScore, GainThreshold, SliceGain, MaxRegression} \subseteq Int /\ SliceCount \in Nat
    /\ \A d \in Sweeps : \A m \in FinalMetrics[d] : IsMetrics(m) /\ m.score >= NoScore
    /\ \A d \in DevScores : {d[1], d[2]} \subseteq Int /\ d[1] >= NoScore /\ d[2] >= NoScore
    /\ \A d \in Sweeps : /\ IsMetrics(SweepConfig[d].file) /\ IsFiniteSet(SweepConfig[d].eligible)
                         /\ {SweepConfig[d].numbers, SweepConfig[d].starter} \subseteq Int
                         /\ {SweepConfig[d].located, SweepConfig[d].locked} \subseteq BOOLEAN
    /\ \A s \in SweptTogether : s \subseteq Sweeps /\ MaxSweepAttempts[s] \in Nat
    /\ MaxSweepCrashes \in Nat

(* What a file of a sweep holds: the attempt that wrote it, the decision   *)
(* it names and whether it carries the replication gate.                   *)
NoSweepFile == [by |-> 0, decision |-> "none", gated |-> FALSE]

IdleSweep == [pc |-> "idle", attempt |-> 0, number |-> 0, backend |-> "configured",
              results |-> <<>>, anchor |-> 0, final |-> 0, decision |-> "none", notes |-> {}]

SweepInit ==
    /\ sweep = [d \in Sweeps |-> IdleSweep]
    /\ sweepManifest = [d \in Sweeps |-> NoSweepFile]
    /\ sweepSummary = [d \in Sweeps |-> NoSweepFile]
    /\ reports = [scoreboard |-> 0, audit |-> 0, decision |-> NoSweepFile]
    /\ crashNotes = {}
    /\ swept \in SweptTogether
    /\ sweepAttempts = 0 /\ sweepCrashes = 0

Decisions == {"none", "promoted", "not-promoted"}

SweepTypeOK ==
    /\ \A d \in Sweeps : /\ sweep[d].attempt \in 0..MaxAttempts + 1
                         /\ sweep[d].decision \in Decisions
                         /\ sweepManifest[d].by \in 0..sweepAttempts
                         /\ sweepSummary[d].decision \in Decisions
    /\ {reports.scoreboard, reports.audit, reports.decision.by} \subseteq 0..sweepAttempts
    /\ crashNotes \subseteq Sweeps \cup {"others"}
    /\ sweepAttempts \in 0..MaxSweepAttempts[swept] /\ sweepCrashes \in 0..MaxSweepCrashes

AtSweep(d, pc) == sweep[d].pc = pc
SetSweep(d, rec) == sweep' = [sweep EXCEPT ![d] = rec]
KeepSweepFiles == UNCHANGED <<sweepManifest, sweepSummary, reports, crashNotes>>
KeepSweepCounts == UNCHANGED <<swept, sweepAttempts, sweepCrashes>>

(* max over (primary, holdout): the first of the best ones *)
ScoresAbove(a, b) == a[1] > b[1] \/ (a[1] = b[1] /\ a[2] > b[2])
BestVariant(results) ==
    LET best == {i \in DOMAIN results : ~\E k \in DOMAIN results : ScoresAbove(results[k].dev, results[i].dev)}
    IN  CHOOSE i \in best : \A k \in best : i <= k

(* _prompt_sweep_reference_payload: the first known score of the metrics   *)
(* file, the configured numbers and the selected starter; else the anchor, *)
(* whose metrics then stand for the file's.                                *)
SweepReference(c, anchor) ==
    LET scores == <<c.file.score, c.numbers, c.starter>>
        known == {i \in 1..3 : scores[i] # NoScore}
    IN  IF known # {}
        THEN [score |-> scores[CHOOSE i \in known : \A k \in known : i <= k],
              metrics |-> c.file, signature |-> c.signature]
        ELSE [score |-> anchor.score, metrics |-> anchor, signature |-> NoSignature]

\* Mutant: only the signature the configuration names is compared.
PreflightDeclared(ref, anchor) == ref.signature \in {NoSignature, anchor.signature}

(* The anchor must have been scored the way the reference was: by the      *)
(* signature it declares, else by that of its metrics.                     *)
PreflightPasses(ref, anchor) ==
    LET expected == IF ref.signature # NoSignature THEN ref.signature ELSE ref.metrics.signature
    IN  expected \in {NoSignature, anchor.signature}

(* _prompt_sweep_slice_override: enough eligible slices gained, at little  *)
(* loss on the full set.                                                   *)
SliceOverride(c, ref, final) ==
    LET common == c.eligible \cap DOMAIN ref.metrics.slices \cap DOMAIN final.slices
        winning == {i \in common : final.slices[i] - ref.metrics.slices[i] >= SliceGain}
    IN  final.score - ref.score >= MaxRegression /\ Cardinality(winning) >= SliceCount

(* _prompt_sweep_promotion_decision *)
SweepDecision(c, ref, final) ==
    IF final.score - ref.score >= GainThreshold \/ SliceOverride(c, ref, final)
    THEN "promoted" ELSE "not-promoted"

(* _prompt_sweep_diagnostic_slice_audit: a required slice is counted in    *)
(* one of the two metrics.                                                 *)
RequiredSlices(c) == IF c.required # {} THEN c.required ELSE c.eligible
AuditClean(c, ref, final) ==
    RequiredSlices(c) \subseteq DOMAIN ref.metrics.slices \cup DOMAIN final.slices

(* The recovery looks for the manifest where run.output_dir says, or in a  *)
(* directory the sweep does not use.                                       *)
SweepResumes(d) == SweepConfig[d].located /\ sweepManifest[d].by # 0

ResumeSweep(d) ==
    /\ d \in swept /\ AtSweep(d, "idle") /\ SweepResumes(d)
    /\ UNCHANGED sweepVars

SweepAttempt(d, n, backend) ==
    /\ sweepAttempts < MaxSweepAttempts[swept]
    /\ sweepAttempts' = sweepAttempts + 1
    /\ SetSweep(d, [IdleSweep EXCEPT !.pc = "variants", !.attempt = n,
                        !.number = sweepAttempts + 1, !.backend = backend])

StartSweep(d) ==
    /\ d \in swept /\ AtSweep(d, "idle") /\ ~SweepResumes(d)
    /\ SweepAttempt(d, 1, "configured")
    /\ KeepSweepFiles /\ UNCHANGED <<swept, sweepCrashes>>

(* A configuration whose runtime_lock names a backend keeps it: the        *)
(* fallback only patches model.backend.                                    *)
FallbackBackend(d) == IF SweepConfig[d].locked THEN "configured" ELSE "mock"

RaiseSweep(d, e) ==
    /\ IF AfterFailure(sweep[d].attempt, e) = "again"
       THEN SweepAttempt(d, sweep[d].attempt + 1, FallbackBackend(d))
       ELSE SetSweep(d, IdleSweep) /\ UNCHANGED sweepAttempts
    /\ UNCHANGED <<swept, sweepCrashes>>

(* The next row of the matrix: skipped when it leaves the locked context   *)
(* bucket, else run on both development splits.                            *)
NextRow(d) == Len(sweep[d].results) + 1
NextVariant(d) ==
    /\ AtSweep(d, "variants") /\ NextRow(d) <= Len(SweepConfig[d].variants)
    /\ LET v == SweepConfig[d].variants[NextRow(d)]
           row(dev) == [variant |-> v, ran |-> v.bucket = SweepConfig[d].bucket, dev |-> dev] IN
       \/ /\ v.bucket # SweepConfig[d].bucket
          /\ SetSweep(d, [sweep[d] EXCEPT !.results = Append(@, row(<<NoScore - 1, NoScore - 1>>))])
       \/ /\ v.bucket = SweepConfig[d].bucket
          /\ \E dev \in DevScores : SetSweep(d, [sweep[d] EXCEPT !.results = Append(@, row(dev))])
    /\ KeepSweepFiles /\ KeepSweepCounts

(* A predictor that cannot be built, a torn cache, a raising adapter; the  *)
(* mock backend can always be built.                                       *)
SweepFails(d) ==
    /\ \/ AtSweep(d, "variants") /\ NextRow(d) <= Len(SweepConfig[d].variants)
       \/ AtSweep(d, "anchor") \/ AtSweep(d, "final")
    /\ \/ sweep[d].backend # "mock" /\ RaiseSweep(d, "unsupported-backend")
       \/ \E e \in {"unexpected-error", "config-error"} : RaiseSweep(d, e)
    /\ KeepSweepFiles

NothingExecutable(d) ==
    /\ AtSweep(d, "variants") /\ NextRow(d) > Len(SweepConfig[d].variants)
    /\ \A i \in DOMAIN sweep[d].results : ~sweep[d].results[i].ran
    /\ RaiseSweep(d, "unexpected-error")
    /\ KeepSweepFiles

VariantsDone(d) ==
    /\ AtSweep(d, "variants") /\ NextRow(d) > Len(SweepConfig[d].variants)
    /\ \E i \in DOMAIN sweep[d].results : sweep[d].results[i].ran
    /\ SetSweep(d, [sweep[d] EXCEPT !.pc = "anchor"])
    /\ KeepSweepFiles /\ KeepSweepCounts

RunAnchor(d) ==
    /\ AtSweep(d, "anchor")
    /\ \E m \in FinalMetrics[d] : SetSweep(d, [sweep[d] EXCEPT !.anchor = m, !.pc = "final"])
    /\ KeepSweepFiles /\ KeepSweepCounts

(* The best variant on the final test.  No score, a reference file that is *)
(* not there, a reference without a score or scored otherwise ends the     *)
(* attempt; the audit is written before it is judged.                      *)
RunFinal(d) ==
    /\ AtSweep(d, "final")
    /\ \E m \in FinalMetrics[d] :
       LET c == SweepConfig[d]
           ref == SweepReference(c, sweep[d].anchor)
           refused == m.score = NoScore \/ ~PreflightPasses(ref, sweep[d].anchor) \/ ref.score = NoScore
       IN  \/ /\ ~c.missing /\ ~refused
              /\ reports' = [reports EXCEPT !.audit = sweep[d].number]
              /\ SetSweep(d, [sweep[d] EXCEPT !.final = m, !.pc = "audited"])
              /\ UNCHANGED <<sweepManifest, sweepSummary, crashNotes>> /\ KeepSweepCounts
           \/ /\ c.missing \/ refused
              /\ RaiseSweep(d, IF m.score # NoScore /\ c.missing THEN "missing-artifact" ELSE "unexpected-error")
              /\ KeepSweepFiles

JudgeAudit(d) ==
    /\ AtSweep(d, "audited")
    /\ LET c == SweepConfig[d]
           ref == SweepReference(c, sweep[d].anchor) IN
       \/ /\ c.required # {} /\ ~AuditClean(c, ref, sweep[d].final)
          /\ RaiseSweep(d, "unexpected-error")
          /\ KeepSweepFiles
       \/ /\ c.required = {} \/ AuditClean(c, ref, sweep[d].final)
          /\ reports' = [reports EXCEPT !.scoreboard = sweep[d].number]
          /\ SetSweep(d, [sweep[d] EXCEPT !.decision = SweepDecision(c, ref, sweep[d].final),
                              !.pc = "read notes"])
          /\ UNCHANGED <<sweepManifest, sweepSummary, crashNotes>> /\ KeepSweepCounts

(* _update_prompt_sweep_crash_notes: the whole file is read and written    *)
(* back; what another process adds in between is lost.                     *)
ReadCrashNotes(d) ==
    /\ AtSweep(d, "read notes")
    /\ SetSweep(d, [sweep[d] EXCEPT !.notes = crashNotes \ Sweeps, !.pc = "write notes"])
    /\ KeepSweepFiles /\ KeepSweepCounts

WriteCrashNotes(d) ==
    /\ AtSweep(d, "write notes")
    /\ crashNotes' = sweep[d].notes \cup {d}
    /\ SetSweep(d, [sweep[d] EXCEPT !.notes = {}, !.pc = "manifest"])
    /\ UNCHANGED <<sweepManifest, sweepSummary, reports>> /\ KeepSweepCounts

OthersNote ==
    /\ "others" \notin crashNotes
    /\ crashNotes' = crashNotes \cup {"others"}
    /\ UNCHANGED <<sweep, sweepManifest, sweepSummary, reports>> /\ KeepSweepCounts

(* The last files: the manifest, the decision and the summary, and these   *)
(* two again with the replication gate.  evidence is the record of the     *)
(* attempt the manifest's metrics are taken from.                          *)
OfAttempt(d, gated) == [by |-> sweep[d].number, decision |-> sweep[d].decision, gated |-> gated]
SweepEvidence(d) == [results |-> sweep[d].results, anchor |-> sweep[d].anchor,
                     final |-> sweep[d].final, backend |-> sweep[d].backend]

WriteSweepManifest(d) ==
    /\ AtSweep(d, "manifest")
    /\ sweepManifest' = [sweepManifest EXCEPT ![d] =
          [by |-> sweep[d].number, decision |-> sweep[d].decision, evidence |-> SweepEvidence(d)]]
    /\ SetSweep(d, [sweep[d] EXCEPT !.pc = "decision"])
    /\ UNCHANGED <<sweepSummary, reports, crashNotes>> /\ KeepSweepCounts

\* The replication gate is computed between the two rounds of files.
WriteSweepDecision(d, gated) ==
    /\ AtSweep(d, IF gated THEN "gated decision" ELSE "decision")
    /\ reports' = [reports EXCEPT !.decision = OfAttempt(d, gated)]
    /\ SetSweep(d, [sweep[d] EXCEPT !.pc = IF gated THEN "gated summary" ELSE "summary"])
    /\ UNCHANGED <<sweepManifest, sweepSummary, crashNotes>> /\ KeepSweepCounts

WriteSweepSummary(d, gated) ==
    /\ AtSweep(d, IF gated THEN "gated summary" ELSE "summary")
    /\ sweepSummary' = [sweepSummary EXCEPT ![d] = OfAttempt(d, gated)]
    /\ SetSweep(d, IF gated THEN IdleSweep ELSE [sweep[d] EXCEPT !.pc = "gated decision"])
    /\ UNCHANGED <<sweepManifest, reports, crashNotes>> /\ KeepSweepCounts

SweepDies(d) ==
    /\ ~AtSweep(d, "idle") /\ sweepCrashes < MaxSweepCrashes
    /\ SetSweep(d, IdleSweep)
    /\ sweepCrashes' = sweepCrashes + 1
    /\ KeepSweepFiles /\ UNCHANGED <<swept, sweepAttempts>>

SweepNext ==
    \/ \E d \in Sweeps :
         \/ ResumeSweep(d) \/ StartSweep(d) \/ NextVariant(d) \/ SweepFails(d) \/ NothingExecutable(d)
         \/ VariantsDone(d) \/ RunAnchor(d) \/ RunFinal(d) \/ JudgeAudit(d)
         \/ ReadCrashNotes(d) \/ WriteCrashNotes(d) \/ WriteSweepManifest(d) \/ SweepDies(d)
         \/ \E gated \in BOOLEAN : WriteSweepDecision(d, gated) \/ WriteSweepSummary(d, gated)
    \/ OthersNote

SweepSpec == SweepInit /\ [][SweepNext]_sweepVars

-----------------------------------------------------------------------------
(* What a promotion in a manifest rests on: the variant with the best      *)
(* development scores among those of the locked context bucket, an anchor  *)
(* scored like the reference, and a gain on the final test over the        *)
(* reference, on the full set or on enough slices; the mock backend only   *)
(* without a locked one.                                                   *)
PromotionIsGrounded(d) ==
    LET c == SweepConfig[d]
        e == sweepManifest[d].evidence
        ref == SweepReference(c, e.anchor)
        best == e.results[BestVariant(e.results)]
    IN  /\ best.variant.bucket = c.bucket
        /\ \A i \in DOMAIN e.results : e.results[i].ran => ~ScoresAbove(e.results[i].dev, best.dev)
        /\ \A sig \in {ref.signature, ref.metrics.signature} :
              sig # NoSignature /\ (sig = ref.signature \/ ref.signature = NoSignature) => e.anchor.signature = sig
        /\ \/ e.final.score >= ref.score + GainThreshold
           \/ /\ e.final.score >= ref.score + MaxRegression
              /\ \E won \in SUBSET c.eligible :
                   /\ Cardinality(won) = SliceCount
                   /\ won \subseteq DOMAIN ref.metrics.slices \cap DOMAIN e.final.slices
                   /\ \A i \in won : e.final.slices[i] >= ref.metrics.slices[i] + SliceGain
        /\ e.backend = "mock" => ~c.locked

(* The files of a sweep the recovery can find tell of one attempt: its     *)
(* manifest and its summary, and beside them, when no other sweep has      *)
(* written there, the audit, the scoreboard and the decision; a gated      *)
(* summary comes with a gated decision.  And a promotion is grounded,      *)
(* whoever reruns the sweep.                                               *)
SweepHolds ==
    \A d \in Sweeps : sweepManifest[d].by # 0 =>
        /\ sweepManifest[d].decision = "promoted" => PromotionIsGrounded(d)
        /\ SweepConfig[d].located =>
             /\ sweepSummary[d].by \in {0, sweepManifest[d].by}
             /\ sweepSummary[d].by # 0 => sweepSummary[d].decision = sweepManifest[d].decision
             /\ swept = {d} =>
                  /\ reports.audit = sweepManifest[d].by /\ reports.scoreboard = sweepManifest[d].by
                  /\ reports.decision.by \in {0, sweepManifest[d].by}
                  /\ sweepSummary[d].by # 0 => reports.decision.by # 0
                  /\ sweepSummary[d].gated => reports.decision.gated
===============================================================================
