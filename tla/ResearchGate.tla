------------------------------ MODULE ResearchGate ------------------------------
(***************************************************************************)
(* The research sanity gate and the confound guard in front of a job       *)
(* (sanity_gates.evaluate_research_sanity, confound_guard, and their call  *)
(* in self_healing_runtime).  The gate looks at the proposal's             *)
(* configuration, calls the guard, which reads configuration and           *)
(* referenced manifests one by one, and both write a report; the queue     *)
(* starts the job unless a check blocks.  Meanwhile the runs a proposal    *)
(* refers to finish, the configuration may be edited, and a later pass     *)
(* takes the entry again.                                                  *)
(*                                                                         *)
(* At this commit the gate cannot load a configuration (LoadedByGate), so  *)
(* the checks it would make of one itself are never reached and every      *)
(* entry is blocked: the guard's are the only ones that look at anything.  *)
(***************************************************************************)
EXTENDS Naturals, FiniteSets

CONSTANTS
    Proposals,        \* what the configuration file may hold
    ManifestValues,   \* what a completed or prepared manifest may hold
    Unset,            \* a field that is missing
    Gone,             \* a file that is not there
    Broken,           \* a file that does not parse
    PrepRuntimes,     \* analysis_prep_markers: tiers, profiles and backends
    PrepPrompts,      \* analysis_prep_markers: prompt ids
    MaxProposalEdits  \* bound

VARIABLES
    proposal,         \* the configuration file
    manifests,        \* the manifests a proposal may refer to
    gate,             \* what the process knows
    gateReport,       \* verdict in research_sanity/<entry>.json
    guardReport,      \* verdict in confound_guard/<entry>.json
    guarded,          \* the configuration the guard's last whole report is on
    gatedJob,         \* what became of the queue entry
    redrafts

gateVars == <<proposal, manifests, gate, gateReport, guardReport, guarded, gatedJob, redrafts>>

References == {"baseline", "localization"}
Axes == {"prompt", "runtime", "name", "slice", "model"}

ASSUME GateAssumption ==
    /\ \A m \in ManifestValues : Axes \subseteq DOMAIN m
    /\ MaxProposalEdits \in Nat

\* What the gate found as the configuration, what the guard read, and the checks of each.
IdleGate == [pc |-> "idle", seen |-> Gone, read |-> Gone, content |-> <<>>, own |-> {}, found |-> {}]

GateInit ==
    /\ proposal \in Proposals \cup {Gone, Broken}
    /\ manifests = [r \in References |-> Gone]
    /\ gate = IdleGate
    /\ gateReport = "none" /\ guardReport = "none" /\ guarded = Gone /\ gatedJob = "queued"
    /\ redrafts = 0

GateTypeOK ==
    /\ {proposal, guarded} \subseteq Proposals \cup {Gone, Broken}
    /\ \A r \in References : manifests[r] \in ManifestValues \cup {Gone, Broken}
    /\ gate.pc \in {"idle", "guard", "references", "guard report", "verdict", "gate report", "decide"}
    /\ {gateReport, guardReport} \subseteq {"none", "torn", "pass", "warn", "block"}
    /\ gatedJob \in {"queued", "blocked", "started"}
    /\ redrafts \in 0..MaxProposalEdits

Parsed(file) == file \notin {Gone, Broken}

(* reference_manifests: the manifests a kind refers to. *)
RefersTo(kind) == CASE kind = "mechanistic-localization" -> {"baseline"}
                    [] kind = "causal-intervention" -> {"baseline", "localization"}
                    [] OTHER -> {}

(* A field that is not set refers to nothing. *)
ReadReference(c, r) == IF r \in c.unset THEN Gone ELSE manifests[r]

Verdict(checks) == IF \E k \in checks : k[2] = "block" THEN "block"
                   ELSE IF \E k \in checks : k[2] = "warn" THEN "warn" ELSE "pass"

(***************************************************************************)
(* The gate's own check.  It loads with _load_structured, a name that is   *)
(* defined nowhere; the NameError is an exception like that of a file that *)
(* does not parse, and what the gate would check of a loaded configuration *)
(* (sanity_gates.py:254-598) is skipped for want of one.                   *)
(***************************************************************************)
LoadedByGate(file) == IF file = Gone THEN Gone ELSE Broken
ParseCheck(file) == <<"config-parse", IF Parsed(LoadedByGate(file)) THEN "pass" ELSE "block">>

(***************************************************************************)
(* The checks of the confound guard.                                       *)
(***************************************************************************)
Notes(c) == IF c.notes THEN "pass" ELSE "warn"

ReferenceChecks(content) ==
    {<<"reference", IF Parsed(content[r]) THEN "pass" ELSE "block">> : r \in DOMAIN content}

IsAnalysisPrep(m) == m.runtime \in PrepRuntimes \/ m.prompt \in PrepPrompts \/ m.prepNote

\* Mutant: the status of the referenced run is not asked for.
StrengthByMetrics(content) ==
    {<<"reference-strength",
       IF Parsed(content[r]) /\ ~IsAnalysisPrep(content[r]) /\ content[r].metrics
       THEN "pass" ELSE "block">> : r \in DOMAIN content}

StrengthChecks(content) ==
    {<<"reference-strength",
       IF /\ Parsed(content[r]) /\ content[r].status = "completed"
          /\ ~IsAnalysisPrep(content[r]) /\ content[r].metrics
       THEN "pass" ELSE "block">> : r \in DOMAIN content}

(* The references that were read agree on an axis; one that lacks it does  *)
(* not count.                                                              *)
AgreeOn(content, axis) ==
    Cardinality({content[r][axis] : r \in {q \in DOMAIN content : Parsed(content[q])}} \ {Unset}) <= 1

PromptAlignment(c, content) ==
    <<"prompt-parser",
      CASE c.kind = "baseline-eval" -> IF c.parserAsRegistered THEN "pass" ELSE "block"
        [] c.kind = "causal-intervention" -> IF AgreeOn(content, "prompt") THEN "pass" ELSE "block"
        [] OTHER -> "skip">>

(* require_any_true_fields is in the contract and never read. *)
EvaluationGuard(c, content) ==
    <<"evaluation-anchor",
      IF c.intent /\ \A r \in DOMAIN content : Parsed(content[r]) /\ content[r].metrics THEN "pass" ELSE "block">>

RuntimeChecks(c, content) ==
    IF c.kind # "causal-intervention" THEN {<<"runtime-fallback", "skip">>, <<"runtime-comparability", "skip">>}
    ELSE {<<"runtime-fallback", IF c.fallback THEN "warn" ELSE "pass">>,
          <<"runtime-comparability", IF AgreeOn(content, "runtime") THEN "pass" ELSE "block">>}

ManifestComparability(c, content) ==
    LET matches == \A r \in DOMAIN content :
                      Parsed(content[r]) => c.model = Unset \/ content[r].model \in {Unset, c.model}
        agree == c.kind = "causal-intervention" => \A axis \in {"name", "slice", "model"} : AgreeOn(content, axis)
    IN  <<"manifest-comparability",
          IF c.kind = "baseline-eval" THEN "skip" ELSE IF matches /\ agree THEN Notes(c) ELSE "block">>

GuardChecks(file, content) ==
    IF ~Parsed(file) THEN {<<"guard config-parse", "block">>}
    ELSE IF file.kind = "generic" THEN {<<"proposal-kind", "skip">>}
    ELSE ReferenceChecks(content) \cup StrengthChecks(content) \cup RuntimeChecks(file, content)
         \cup {PromptAlignment(file, content), EvaluationGuard(file, content), ManifestComparability(file, content)}

(***************************************************************************)
(* The process.  A report is opened, which empties it, and then written.   *)
(***************************************************************************)
SetGate(pc, rec) == gate' = [rec EXCEPT !.pc = pc]
KeepWorld == UNCHANGED <<proposal, manifests, redrafts>>
KeepVerdicts == UNCHANGED <<gateReport, guardReport, guarded, gatedJob>>

Waiting == gate.pc = "idle" /\ gatedJob \in {"queued", "blocked"}

(* No config in the command: the entry is blocked without a gate.          *)
UnresolvedConfig ==
    /\ Waiting
    /\ gatedJob' = "blocked"
    /\ KeepWorld /\ UNCHANGED <<gate, gateReport, guardReport, guarded>>

GateReadsConfig ==
    /\ Waiting
    /\ SetGate("guard", [IdleGate EXCEPT !.seen = proposal, !.own = {ParseCheck(proposal)}])
    /\ KeepWorld /\ KeepVerdicts

GuardReadsConfig ==
    /\ gate.pc = "guard"
    /\ SetGate("references", [gate EXCEPT !.read = proposal])
    /\ KeepWorld /\ KeepVerdicts

(* A configuration that does not parse, or of a kind the contract does not *)
(* know, refers to nothing.                                                *)
Examined(file) == Parsed(file) /\ file.kind # "generic"
Unread == IF Examined(gate.read) THEN RefersTo(gate.read.kind) \ DOMAIN gate.content ELSE {}

GuardReadsReference(r) ==
    /\ gate.pc = "references" /\ r \in Unread
    /\ SetGate("references",
         [gate EXCEPT !.content = [q \in DOMAIN gate.content \cup {r} |->
                                     IF q = r THEN ReadReference(gate.read, r) ELSE gate.content[q]]])
    /\ KeepWorld /\ KeepVerdicts

GuardDecides ==
    /\ gate.pc = "references" /\ Unread = {}
    /\ SetGate("guard report", [gate EXCEPT !.found = GuardChecks(gate.read, gate.content)])
    /\ guardReport' = "torn"
    /\ KeepWorld /\ UNCHANGED <<gateReport, guarded, gatedJob>>

GuardReports ==
    /\ gate.pc = "guard report"
    /\ guardReport' = Verdict(gate.found) /\ guarded' = gate.read
    /\ SetGate("verdict", gate)
    /\ KeepWorld /\ UNCHANGED <<gateReport, gatedJob>>

GateDecides ==
    /\ gate.pc = "verdict"
    /\ gateReport' = "torn"
    /\ SetGate("gate report", gate)
    /\ KeepWorld /\ UNCHANGED <<guardReport, guarded, gatedJob>>

GateReports ==
    /\ gate.pc = "gate report"
    /\ gateReport' = Verdict(gate.own \cup gate.found)
    /\ SetGate("decide", gate)
    /\ KeepWorld /\ UNCHANGED <<guardReport, guarded, gatedJob>>

StartGatedJob ==
    /\ gate.pc = "decide"
    /\ gatedJob' = IF Verdict(gate.own \cup gate.found) = "block" THEN "blocked" ELSE "started"
    /\ gate' = IdleGate
    /\ KeepWorld /\ UNCHANGED <<gateReport, guardReport, guarded>>

GateDies ==
    /\ gate.pc # "idle"
    /\ gate' = IdleGate
    /\ KeepWorld /\ KeepVerdicts

(***************************************************************************)
(* The environment.  A manifest is prepared or torn before it is           *)
(* completed; a completed one stays (runtime_recovery resumes on it).      *)
(***************************************************************************)
Settled(m) == Parsed(m) /\ m.status = "completed" /\ ~IsAnalysisPrep(m)

ManifestWritten(r) ==
    /\ ~Settled(manifests[r])
    /\ \E m \in ManifestValues \cup {Broken} : manifests' = [manifests EXCEPT ![r] = m]
    /\ UNCHANGED <<proposal, redrafts, gate>> /\ KeepVerdicts

EditProposal ==
    /\ redrafts < MaxProposalEdits
    /\ proposal' \in Proposals \ {proposal}
    /\ redrafts' = redrafts + 1
    /\ UNCHANGED <<manifests, gate>> /\ KeepVerdicts

GateNext ==
    \/ UnresolvedConfig \/ GateReadsConfig \/ GuardReadsConfig
    \/ \E r \in References : GuardReadsReference(r)
    \/ GuardDecides \/ GuardReports \/ GateDecides \/ GateReports \/ StartGatedJob \/ GateDies
    \/ \E r \in References : ManifestWritten(r)
    \/ EditProposal

GateSpec == GateInit /\ [][GateNext]_gateVars

-----------------------------------------------------------------------------
(* A report of the confound guard that does not block a follow-up stands   *)
(* on evidence that is still there: every run the configuration it read    *)
(* refers to is completed, has metrics and was no preparation, and names   *)
(* no other model than it; and an intervention's two references do not     *)
(* differ in prompt, runtime, dataset or model.  Whatever was written      *)
(* between its readings, and whichever process died over a report: one     *)
(* that is left torn says nothing, and no earlier verdict shows through.   *)
GuardHolds ==
    guardReport \in {"pass", "warn"} /\ guarded.kind \in {"mechanistic-localization", "causal-intervention"} =>
        /\ \A r \in RefersTo(guarded.kind) :
             /\ Parsed(manifests[r]) /\ r \notin guarded.unset
             /\ manifests[r].status = "completed" /\ manifests[r].metrics /\ ~IsAnalysisPrep(manifests[r])
             /\ guarded.model = Unset \/ manifests[r].model \in {guarded.model, Unset}
        /\ guarded.kind = "causal-intervention" =>
             \A axis \in Axes : manifests["baseline"][axis] = manifests["localization"][axis]
                                \/ Unset \in {manifests["baseline"][axis], manifests["localization"][axis]}

(* A queue entry whose configuration exists and parses, of a kind no check *)
(* is configured for, is not blocked by the gate (docs/design/             *)
(* research-sanity-gates.md:13: "check that the referenced config exists   *)
(* and parses").  The code violates it.                                    *)
SoundProposalsStart ==
    [][gate.pc = "decide" /\ gatedJob' # gatedJob /\ gate.seen = gate.read
         /\ Parsed(gate.read) /\ gate.read.kind = "generic"
       => gatedJob' = "started"]_gateVars
===============================================================================
