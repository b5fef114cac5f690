---------------------------- MODULE MissionAcceptance ----------------------------
(***************************************************************************)
(* The acceptance criteria of a research campaign (mission_acceptance):    *)
(* they are evaluated against three records of what was tried, the         *)
(* mission state's acceptance_evidence, its experiment_coverage and the    *)
(* experiment ledger, before the final report and before completion        *)
(* (mission_decision_engine), and once more by the packager.  Agents, the  *)
(* outer loop and the runs write these records meanwhile.                  *)
(***************************************************************************)
EXTENDS Integers, FiniteSets

CONSTANTS
    Methods,             \* the methods of the campaign
    NamesOf,             \* method -> the names its records may give it: family, id, hypothesis, entry
    OfKind,              \* kind -> the methods whose coverage rows are of it
    LineValues,          \* what an agent's line of the ledger may say, but for its status
    CriteriaValues,      \* what acceptance_criteria may say
    Actions,             \* actions the outer loop executes for the campaign
    MaxCampaignWrites

VARIABLES
    criteria,            \* acceptance_criteria of the mission
    evidence,            \* acceptance_evidence: kind -> methods under a name, and artifacts
    coverage,            \* experiment_coverage: method -> status
    experiments,         \* mission_experiments.jsonl: its distinct lines
    artifacts,           \* the artifact files that exist
    campaign,            \* how far the mission is
    acceptance,          \* the package's acceptance and coverage tables
    touched,             \* a record changed since the mission completed
    campaignWrites

acceptanceVars == <<criteria, evidence, coverage, experiments, artifacts, campaign,
                    acceptance, touched, campaignWrites>>

Kinds == {"methods", "novel", "text"}
Artifacts == {"leaderboard", "failure log"}
Names == UNION {NamesOf[m] : m \in Methods}
CoverageStatus == {"none", "proposed", "evaluated", "completed", "skipped"}
NoTables == [status |-> "none", executed |-> {}]

ASSUME AcceptanceAssumption ==
    /\ OfKind["methods"] = Methods
    /\ \A k \in Kinds : OfKind[k] \subseteq Methods
    /\ \A l \in LineValues : l.of \in Methods /\ l.name \in NamesOf[l.of] /\ l.kinds \subseteq Kinds
    /\ \A c \in CriteriaValues : c.artifacts \subseteq Artifacts /\ \A k \in Kinds : c.minimum[k] \in Nat
    /\ IsFiniteSet(Methods) /\ IsFiniteSet(Actions)
    /\ MaxCampaignWrites \in Nat

AcceptanceInit ==
    /\ criteria \in CriteriaValues
    /\ evidence = [methods |-> {}, novel |-> {}, text |-> {}, artifacts |-> {}]
    /\ coverage = [m \in Methods |-> "none"]
    /\ experiments = {} /\ artifacts = {}
    /\ campaign = "research" /\ acceptance = NoTables
    /\ touched = FALSE /\ campaignWrites = 0

AcceptanceTypeOK ==
    /\ \A k \in Kinds : evidence[k] \subseteq [of : Methods, name : Names]
    /\ coverage \in [Methods -> CoverageStatus]
    /\ experiments \subseteq
         [by : {"agent"}, of : Methods, name : Names, kinds : SUBSET Kinds, status : {"completed", "failed"}]
         \cup [by : {"loop"}, of : Actions, name : Actions, kinds : SUBSET {"novel"}, status : {"completed", "failed"}]
    /\ artifacts \subseteq Artifacts
    /\ campaign \in {"research", "final-report", "complete"}
    /\ acceptance.status \in {"none", "not-requested", "met", "unmet"}
    /\ acceptance.executed \subseteq Methods
    /\ campaignWrites \in 0..MaxCampaignWrites

(***************************************************************************)
(* evaluate_mission_acceptance.  It counts names: those the items of the   *)
(* evidence and the lines of the ledger go by, each by the first it gives, *)
(* and in the coverage a method's own id.                                  *)
(***************************************************************************)
\* Mutant: a method only proposed counts as an evaluated one.
CoverageAsPlanned(kind) == {m \in OfKind[kind] : coverage[m] \in {"proposed", "evaluated", "completed"}}

(* What the coverage counts: a novel method as soon as it is listed, the   *)
(* others once evaluated.                                                  *)
CoverageCounts(kind) ==
    {m \in OfKind[kind] : IF kind = "novel" THEN coverage[m] # "none"
                          ELSE coverage[m] \in {"evaluated", "completed"}}

(* A line of the ledger is of the kinds it says itself; novel it is        *)
(* whatever became of it.                                                  *)
LedgerCounts(kind) == {e \in experiments : kind \in e.kinds /\ (kind # "novel" => e.status = "completed")}

Observed(kind) ==
    {x.name : x \in evidence[kind]} \cup CoverageCounts(kind) \cup {e.name : e \in LedgerCounts(kind)}

SkippedMethods ==
    {m \in Methods : coverage[m] = "skipped"} \cup {e.name : e \in {x \in experiments : x.status = "failed"}}

ArtifactShown(a) == a \in evidence.artifacts /\ a \in artifacts

CriteriaMet ==
    /\ \A k \in Kinds : Cardinality(Observed(k)) >= criteria.minimum[k]
    /\ \A a \in criteria.artifacts : ArtifactShown(a)
    /\ criteria.logSkipped /\ SkippedMethods # {} => ArtifactShown("failure log")

\* acceptance_criteria_blockers: without the gate nothing blocks.
NoAcceptanceBlockers == criteria.requested /\ criteria.gated => CriteriaMet

(***************************************************************************)
(* The decision engine and the packager.                                   *)
(***************************************************************************)
KeepRecords == UNCHANGED <<criteria, evidence, coverage, experiments, artifacts, campaignWrites>>

EnterFinalReport ==
    /\ campaign = "research" /\ NoAcceptanceBlockers
    /\ campaign' = "final-report"
    /\ KeepRecords /\ UNCHANGED <<acceptance, touched>>

(* An agent that continues in the final report sets the phase itself; the  *)
(* criteria are not asked for.                                             *)
AgentEntersFinalReport ==
    /\ campaign = "research"
    /\ campaign' = "final-report"
    /\ KeepRecords /\ UNCHANGED <<acceptance, touched>>

CompleteCampaign ==
    /\ campaign = "final-report" /\ NoAcceptanceBlockers
    /\ campaign' = "complete" /\ touched' = FALSE
    /\ KeepRecords /\ UNCHANGED acceptance

(* Whenever the package is refreshed: the acceptance table, and the        *)
(* coverage table, which knows no status "completed".                      *)
PackageTables ==
    /\ acceptance' = [status |-> IF ~criteria.requested THEN "not-requested"
                                 ELSE IF CriteriaMet THEN "met" ELSE "unmet",
                      executed |-> {m \in Methods : coverage[m] = "evaluated"}]
    /\ KeepRecords /\ UNCHANGED <<campaign, touched>>

(***************************************************************************)
(* Those who write the records.                                            *)
(***************************************************************************)
Writes ==
    /\ campaignWrites < MaxCampaignWrites
    /\ campaignWrites' = campaignWrites + 1
    /\ touched' = TRUE
    /\ UNCHANGED <<criteria, campaign, acceptance>>

(* append_unique_jsonl: an execution's first line stays; what a retry of   *)
(* the action brings is not recorded.  It names no method and goes by its  *)
(* entry; its summary may contain the word "novel".                        *)
RecordExecution(a, kinds, status) ==
    /\ Writes
    /\ experiments' = IF \E e \in experiments : e.by = "loop" /\ e.of = a THEN experiments
                      ELSE experiments \cup
                             {[by |-> "loop", of |-> a, name |-> a, kinds |-> kinds, status |-> status]}
    /\ UNCHANGED <<evidence, coverage, artifacts>>

RecordExperiment(line, status) ==
    /\ Writes
    /\ experiments' = experiments \cup {[by |-> "agent", of |-> line.of, name |-> line.name,
                                         kinds |-> line.kinds, status |-> status]}
    /\ UNCHANGED <<evidence, coverage, artifacts>>

UpdateCoverage(m, status) ==
    /\ Writes /\ coverage[m] # status
    /\ coverage' = [coverage EXCEPT ![m] = status]
    /\ UNCHANGED <<evidence, experiments, artifacts>>

ClaimMethod(k, m, name) ==
    /\ Writes /\ [of |-> m, name |-> name] \notin evidence[k]
    /\ evidence' = [evidence EXCEPT ![k] = @ \cup {[of |-> m, name |-> name]}]
    /\ UNCHANGED <<coverage, experiments, artifacts>>

ClaimArtifact(a) ==
    /\ Writes /\ a \notin evidence.artifacts
    /\ evidence' = [evidence EXCEPT !.artifacts = @ \cup {a}]
    /\ UNCHANGED <<coverage, experiments, artifacts>>

\* A file appears, or is removed again.
ArtifactChanges(a) ==
    /\ Writes
    /\ artifacts' = IF a \in artifacts THEN artifacts \ {a} ELSE artifacts \cup {a}
    /\ UNCHANGED <<evidence, coverage, experiments>>

AcceptanceNext ==
    \/ EnterFinalReport \/ AgentEntersFinalReport \/ CompleteCampaign \/ PackageTables
    \/ \E status \in {"completed", "failed"} :
         \/ \E a \in Actions, kinds \in SUBSET {"novel"} : RecordExecution(a, kinds, status)
         \/ \E line \in LineValues : RecordExperiment(line, status)
    \/ \E m \in Methods, status \in CoverageStatus \ {"none"} : UpdateCoverage(m, status)
    \/ \E k \in Kinds, m \in Methods : \E name \in NamesOf[m] : ClaimMethod(k, m, name)
    \/ \E a \in Artifacts : ClaimArtifact(a) \/ ArtifactChanges(a)

AcceptanceSpec == AcceptanceInit /\ [][AcceptanceNext]_acceptanceVars

-----------------------------------------------------------------------------
(* The methods some record counts for a kind, each with the names the      *)
(* records give it.                                                        *)
RecordedAs(kind) ==
    evidence[kind]
    \cup {[of |-> m, name |-> m] : m \in {x \in OfKind[kind] :
             coverage[x] \in {"evaluated", "completed"} \/ (kind = "novel" /\ coverage[x] # "none")}}
    \cup {[of |-> e.of, name |-> e.name] : e \in {x \in experiments :
             x.by = "agent" /\ kind \in x.kinds /\ (kind = "novel" \/ x.status = "completed")}}
RecordedMethods(kind) == {x.of : x \in RecordedAs(kind)}

\* One method went by two names, or a line of the outer loop was taken for a novel one.
CountedTwice(kind) == \E x, y \in RecordedAs(kind) : x.of = y.of /\ x.name # y.name
LoopCounted(kind) == kind = "novel" /\ \E e \in experiments : e.by = "loop" /\ kind \in e.kinds

Earned ==
    /\ \A k \in Kinds :
         /\ CountedTwice(k) \/ LoopCounted(k) \/ Cardinality(RecordedMethods(k)) >= criteria.minimum[k]
         /\ criteria.minimum[k] > 0 => RecordedMethods(k) # {} \/ LoopCounted(k)
    /\ criteria.artifacts \subseteq artifacts
    /\ criteria.logSkipped /\ (\E e \in experiments : e.status = "failed") => "failure log" \in artifacts

(* A gated mission completes, however it came to its final report, only on *)
(* records that earn it: as many methods as the criteria ask for, unless   *)
(* one goes by two names or the outer loop's own line counts, and then at  *)
(* least one.  Until a record changes again its package says so, listing   *)
(* as executed only methods that counted.                                  *)
AcceptanceHolds ==
    [][/\ campaign # "complete" /\ campaign' = "complete" /\ criteria.requested /\ criteria.gated => Earned
       /\ acceptance' # acceptance =>
            /\ acceptance'.executed \subseteq RecordedMethods("methods")
            /\ campaign = "complete" /\ ~touched /\ criteria.gated => acceptance'.status # "unmet"]_acceptanceVars
===============================================================================
